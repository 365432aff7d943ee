--------------------------- MODULE KeyPoolProofs ---------------------------
(***************************************************************************)
(* The invariants of KeyPool for any keys, any requests and replacements   *)
(* at once, and any cap.                                                   *)
(***************************************************************************)
EXTENDS KeyPool, FiniteSetTheorems, TLAPS

\* The holders of permits of the n-th semaphore of key k.
Using(k, n) == {r \in Holders(k) : req[r].sem = n}

\* A key never renewed has one semaphore: every pool alive or under
\* construction, and every guard, refers to it.
OneSemaphore ==
    \A k \in Keys \ renewed :
        /\ \A p \in Pools : pools[p][k].sem = 1
        /\ \A r \in Requests : req[r].key = k => req[r].sem = 1
        /\ \A m \in Managers : mgr[m].slots[k].sem = 1

\* No semaphore has more permits out than it was made with.
SemaphoreCap == \A k \in Keys, n \in Pools : Cardinality(Using(k, n)) <= Cap

\* InflightCovers, of every pool whether alive or not.
Covered == \A p \in Pools, k \in Keys : Cardinality(Counted(p, k)) <= pools[p][k].inflight

KeyPoolInv == KeyPoolTypeOK /\ OneSemaphore /\ SemaphoreCap /\ Covered

-----------------------------------------------------------------------------
\* The sets counted are finite, now and after a step.
LEMMA FiniteHolders ==
    ASSUME NEW S, S \subseteq Requests
    PROVE  IsFiniteSet(S) /\ Cardinality(S) \in Nat
  <1>1. IsFiniteSet(S)
    BY FS_Subset, KeyPoolAssumption
  <1> QED BY <1>1, FS_CardinalityType

LEMMA HoldersAreRequests ==
    ASSUME NEW p, NEW k, NEW n
    PROVE  /\ Using(k, n) \subseteq Requests /\ Using(k, n)' \subseteq Requests
           /\ Counted(p, k) \subseteq Requests /\ Counted(p, k)' \subseteq Requests
  BY DEF Using, Holders, Counted

\* A set of holders that lost members, and one that gained one.
LEMMA FewerHolders ==
    ASSUME NEW S, NEW T \in SUBSET Requests, S \subseteq T, NEW n \in Nat, Cardinality(T) <= n
    PROVE  Cardinality(S) <= n
  <1>1. IsFiniteSet(T) /\ Cardinality(T) \in Nat /\ Cardinality(S) \in Nat
    BY FiniteHolders
  <1>2. Cardinality(S) <= Cardinality(T)
    BY <1>1, FS_Subset
  <1> QED BY <1>1, <1>2

LEMMA OneMoreHolder ==
    ASSUME NEW S, NEW T \in SUBSET Requests, NEW r \in Requests, S \subseteq T \union {r},
           NEW n \in Nat, Cardinality(T) < n
    PROVE  Cardinality(S) <= n
  <1>1. IsFiniteSet(T) /\ Cardinality(T) \in Nat
    BY FiniteHolders
  <1>2. Cardinality(T \union {r}) <= n
    <2>1. Cardinality(T \union {r}) = Cardinality(T) \/ Cardinality(T \union {r}) = Cardinality(T) + 1
      BY <1>1, FS_AddElement
    <2> QED BY <1>1, <2>1
  <1> QED BY <1>2, FewerHolders

LEMMA OneHolderLess ==
    ASSUME NEW S, NEW T \in SUBSET Requests, NEW r \in T, S \subseteq T \ {r},
           NEW n \in Nat, Cardinality(T) <= n
    PROVE  n - 1 \in Nat /\ Cardinality(S) <= n - 1
  <1>1. IsFiniteSet(T) /\ Cardinality(T) \in Nat /\ Cardinality(T \ {r}) \in Nat
    BY FiniteHolders
  <1>2. Cardinality(T \ {r}) = Cardinality(T) - 1
    BY <1>1, FS_RemoveElement
  <1>3. n - 1 \in Nat /\ Cardinality(T \ {r}) <= n - 1
    BY <1>1, <1>2
  <1> QED BY <1>3, FewerHolders

\* Writing one counter of one slot.
Written(f, q, k, v) == [f EXCEPT ![q][k].inflight = v]

LEMMA SlotWritten ==
    ASSUME NEW f \in [Pools -> Slots], NEW q \in Pools, NEW k \in Keys, NEW v \in 0 .. MaxInflight
    PROVE  /\ Written(f, q, k, v) \in [Pools -> Slots]
           /\ \A p \in Pools, j \in Keys :
                 /\ Written(f, q, k, v)[p][j].sem = f[p][j].sem
                 /\ Written(f, q, k, v)[p][j].inflight =
                        IF p = q /\ j = k THEN v ELSE f[p][j].inflight
  <1> DEFINE g == Written(f, q, k, v)
             slot == [f[q][k] EXCEPT !.inflight = v]
             slots == [f[q] EXCEPT ![k] = slot]
  <1>1. /\ slot \in [in : BOOLEAN, sem : Pools, inflight : 0 .. MaxInflight]
        /\ slot.sem = f[q][k].sem /\ slot.inflight = v
    <2>1. f[q][k] \in [in : BOOLEAN, sem : Pools, inflight : 0 .. MaxInflight]
      BY DEF Slots
    <2> QED BY <2>1
  <1>3. g = [f EXCEPT ![q] = slots]
    BY DEF Written
  <1> HIDE DEF g
  <1> HIDE DEF slot
  <1>2. /\ slots \in Slots /\ slots[k] = slot
        /\ \A j \in Keys \ {k} : slots[j] = f[q][j]
    BY <1>1 DEF Slots
  <1> HIDE DEF slots
  <1>4. /\ g \in [Pools -> Slots] /\ g[q] = slots
        /\ \A p \in Pools \ {q} : g[p] = f[p]
    BY <1>2, <1>3
  <1>5. ASSUME NEW p \in Pools, NEW j \in Keys
        PROVE  /\ g[p][j].sem = f[p][j].sem
               /\ g[p][j].inflight = IF p = q /\ j = k THEN v ELSE f[p][j].inflight
    <2>1. CASE p = q /\ j = k
      <3>1. g[p][j] = slot /\ f[p][j] = f[q][k]
        BY <1>2, <1>4, <2>1
      <3> QED BY <1>1, <2>1, <3>1
    <2>2. CASE p = q /\ j # k
      BY <1>2, <1>4, <2>2
    <2>3. CASE p # q
      BY <1>4, <2>3
    <2> QED BY <2>1, <2>2, <2>3
  <1> QED BY <1>4, <1>5 DEF g

\* Records and slots that stand for nothing.
LEMMA NothingTyped ==
    /\ NoSlots \in Slots
    /\ \A n \in Pools : NewSlot(n) \in [in : BOOLEAN, sem : Pools, inflight : 0 .. MaxInflight]
    /\ NoSlot \in [in : BOOLEAN, sem : Pools, inflight : 0 .. MaxInflight]
    /\ \A k \in Keys : NoSlots[k] = NoSlot
    /\ NoSlot.sem = 1 /\ NoSlot.inflight = 0
    /\ \A n \in Pools : NewSlot(n).sem = n /\ NewSlot(n).inflight = 0
    /\ NoGuard \in [at : {"idle"}, pool : Pools, key : Keys, sem : {1}]
    /\ NoBuild \in [at : {"idle", "built"}, slots : Slots] /\ NoBuild.slots = NoSlots
    /\ 1 \in Pools
  <1>0. /\ 1 \in Pools /\ 0 \in 0 .. MaxInflight
        /\ (CHOOSE k \in Keys : TRUE) \in Keys
    BY KeyPoolAssumption DEF Pools
  <1>1. /\ NoSlot \in [in : BOOLEAN, sem : Pools, inflight : 0 .. MaxInflight]
        /\ NoSlot.sem = 1 /\ NoSlot.inflight = 0
    BY <1>0 DEF NoSlot
  <1>2. /\ \A n \in Pools : NewSlot(n) \in [in : BOOLEAN, sem : Pools, inflight : 0 .. MaxInflight]
        /\ \A n \in Pools : NewSlot(n).sem = n /\ NewSlot(n).inflight = 0
    BY <1>0 DEF NewSlot, NoSlot
  <1>3. NoSlots \in Slots /\ \A k \in Keys : NoSlots[k] = NoSlot
    BY <1>1 DEF NoSlots, Slots
  <1>4. NoGuard \in [at : {"idle"}, pool : Pools, key : Keys, sem : {1}]
    BY <1>0 DEF NoGuard
  <1>5. NoBuild \in [at : {"idle", "built"}, slots : Slots] /\ NoBuild.slots = NoSlots
    BY <1>3 DEF NoBuild
  <1> QED BY <1>0, <1>1, <1>2, <1>3, <1>4, <1>5

-----------------------------------------------------------------------------
\* The initial state satisfies the invariant.
LEMMA KeyPoolInvInit == Init => KeyPoolInv
  <1> SUFFICES ASSUME Init PROVE KeyPoolInv
    OBVIOUS
  <1> USE NothingTyped DEF Init
  <1>0. [k \in Keys |-> NewSlot(1)] \in Slots
    BY DEF Slots
  <1>1. KeyPoolTypeOK
    BY <1>0 DEF KeyPoolTypeOK
  <1>2. OneSemaphore
    BY DEF OneSemaphore
  <1>3. \A p, k, n : Using(k, n) = {} /\ Counted(p, k) = {}
    BY DEF Using, Holders, HasPermit, Counted
  <1>4. Cardinality({}) = 0
    BY FS_EmptySet
  <1>5. SemaphoreCap
    <2>1. 0 <= Cap
      BY KeyPoolAssumption
    <2>2. \A k, n : Cardinality(Using(k, n)) = 0
      BY <1>3, <1>4
    <2> QED BY <2>1, <2>2 DEF SemaphoreCap
  <1>6. Covered
    <2>1. \A p \in Pools, k \in Keys : pools[p][k].inflight = 0
      OBVIOUS
    <2> QED BY <1>3, <1>4, <2>1 DEF Covered
  <1> QED BY <1>1, <1>2, <1>5, <1>6 DEF KeyPoolInv

\* A request that picks a slot holds nothing of it yet.
LEMMA GuardStep ==
    ASSUME KeyPoolInv, NEW r \in Requests, NEW stage \in {"chosen", "waits"}, NEW k \in Keys,
           req[r].at = "idle", Guard(r, stage, k), UNCHANGED <<pools, current, mgr, renewed>>
    PROVE  KeyPoolInv'
  <1> USE DEF KeyPoolInv
  <1>1. KeyPoolTypeOK'
    <2>1. pools[current][k].sem \in Pools
      BY DEF KeyPoolTypeOK, Slots
    <2> QED BY <2>1 DEF KeyPoolTypeOK, Guard
  <1>2. OneSemaphore'
    BY DEF KeyPoolTypeOK, OneSemaphore, Guard
  <1>3. \A p, j, n : Using(j, n)' \subseteq Using(j, n) /\ Counted(p, j)' \subseteq Counted(p, j)
    BY DEF KeyPoolTypeOK, Using, Holders, HasPermit, Counted, Guard
  <1>4. SemaphoreCap'
    <2> SUFFICES ASSUME NEW j \in Keys, NEW n \in Pools PROVE Cardinality(Using(j, n)') <= Cap
      BY DEF SemaphoreCap
    <2> QED BY <1>3, HoldersAreRequests, FewerHolders, KeyPoolAssumption DEF SemaphoreCap
  <1>5. Covered'
    <2> SUFFICES ASSUME NEW p \in Pools, NEW j \in Keys
                 PROVE  Cardinality(Counted(p, j)') <= pools[p][j].inflight
      BY DEF Covered
    <2>1. pools[p][j].inflight \in Nat
      BY KeyPoolAssumption DEF KeyPoolTypeOK, Slots
    <2> QED BY <1>3, <2>1, HoldersAreRequests, FewerHolders DEF Covered
  <1> QED BY <1>1, <1>2, <1>4, <1>5

\* A request that leaves gives its permit back and drops its pool if it was the
\* last to use it; it has been counted out.
LEMMA LeaveStep ==
    ASSUME KeyPoolInv, NEW r \in Requests, req[r].at # "held", Leave(r),
           UNCHANGED <<current, mgr, renewed>>
    PROVE  KeyPoolInv'
  <1> USE NothingTyped DEF KeyPoolInv
  <1>1. KeyPoolTypeOK'
    BY DEF KeyPoolTypeOK, Leave
  <1>2. OneSemaphore'
    BY DEF KeyPoolTypeOK, OneSemaphore, Leave
  <1>3. \A p, j, n : Using(j, n)' \subseteq Using(j, n) /\ Counted(p, j)' \subseteq Counted(p, j)
    BY DEF KeyPoolTypeOK, Using, Holders, HasPermit, Counted, Leave
  <1>4. SemaphoreCap'
    <2> SUFFICES ASSUME NEW j \in Keys, NEW n \in Pools PROVE Cardinality(Using(j, n)') <= Cap
      BY DEF SemaphoreCap
    <2> QED BY <1>3, HoldersAreRequests, FewerHolders, KeyPoolAssumption DEF SemaphoreCap
  <1>5. Covered'
    <2> SUFFICES ASSUME NEW p \in Pools, NEW j \in Keys
                 PROVE  Cardinality(Counted(p, j)') <= pools'[p][j].inflight
      BY DEF Covered
    <2>1. CASE pools'[p] = pools[p]
      <3>1. pools[p][j].inflight \in Nat
        BY KeyPoolAssumption DEF KeyPoolTypeOK, Slots
      <3>2. Cardinality(Counted(p, j)') <= pools[p][j].inflight
        BY <1>3, <3>1, HoldersAreRequests, FewerHolders DEF Covered
      <3> QED BY <2>1, <3>2
    <2>2. CASE pools'[p] # pools[p]
      <3>1. /\ pools'[p] = NoSlots
            /\ \A q \in Requests \ {r} : ~(req[q].at # "idle" /\ req[q].pool = p)
        BY <2>2 DEF Leave
      <3>2. Counted(p, j)' = {}
        BY <3>1 DEF Counted, Leave, KeyPoolTypeOK
      <3> QED BY <3>1, <3>2, FS_EmptySet
    <2> QED BY <2>1, <2>2
  <1> QED BY <1>1, <1>2, <1>4, <1>5

\* A permit is taken only while the semaphore has one.
LEMMA PermitStep ==
    ASSUME KeyPoolInv, NEW r \in Requests, req[r].at \in {"chosen", "waits"},
           Free(req[r].key, req[r].sem), req' = [req EXCEPT ![r].at = "permit"],
           UNCHANGED <<pools, current, mgr, renewed>>
    PROVE  KeyPoolInv'
  <1> USE DEF KeyPoolInv
  <1>1. KeyPoolTypeOK'
    BY DEF KeyPoolTypeOK
  <1>2. OneSemaphore'
    BY DEF KeyPoolTypeOK, OneSemaphore
  <1>3. SemaphoreCap'
    <2> SUFFICES ASSUME NEW j \in Keys, NEW n \in Pools PROVE Cardinality(Using(j, n)') <= Cap
      BY DEF SemaphoreCap
    <2>1. CASE j = req[r].key /\ n = req[r].sem
      <3>1. Using(j, n)' \subseteq Using(j, n) \union {r}
        BY DEF KeyPoolTypeOK, Using, Holders, HasPermit
      <3>2. Cardinality(Using(j, n)) < Cap
        BY <2>1 DEF Free, Using
      <3> QED BY <3>1, <3>2, HoldersAreRequests, OneMoreHolder, KeyPoolAssumption
    <2>2. CASE ~(j = req[r].key /\ n = req[r].sem)
      <3>1. Using(j, n)' \subseteq Using(j, n)
        BY <2>2 DEF KeyPoolTypeOK, Using, Holders, HasPermit
      <3> QED BY <3>1, HoldersAreRequests, FewerHolders, KeyPoolAssumption DEF SemaphoreCap
    <2> QED BY <2>1, <2>2
  <1>4. Covered'
    <2> SUFFICES ASSUME NEW p \in Pools, NEW j \in Keys
                 PROVE  Cardinality(Counted(p, j)') <= pools[p][j].inflight
      BY DEF Covered
    <2>1. pools[p][j].inflight \in Nat
      BY KeyPoolAssumption DEF KeyPoolTypeOK, Slots
    <2>2. Counted(p, j)' \subseteq Counted(p, j)
      BY DEF KeyPoolTypeOK, Counted
    <2> QED BY <2>1, <2>2, HoldersAreRequests, FewerHolders DEF Covered
  <1> QED BY <1>1, <1>2, <1>3, <1>4

\* Counting in covers one guard more.
LEMMA CountInStep ==
    ASSUME KeyPoolInv, NEW r \in Requests, CountIn(r)
    PROVE  KeyPoolInv'
  <1> USE DEF KeyPoolInv
  <1> DEFINE pl == req[r].pool
             ky == req[r].key
  <1>0. /\ pl \in Pools /\ ky \in Keys
        /\ pools[pl][ky].inflight \in Nat /\ pools[pl][ky].inflight + 1 \in 0 .. MaxInflight
        /\ pools' = [pools EXCEPT ![pl][ky].inflight = pools[pl][ky].inflight + 1]
    BY KeyPoolAssumption DEF KeyPoolTypeOK, Slots, CountIn
  <1> HIDE DEF pl, ky
  <1>2. /\ pools' \in [Pools -> Slots]
        /\ \A p \in Pools, j \in Keys :
              /\ pools'[p][j].sem = pools[p][j].sem
              /\ pools'[p][j].inflight = IF p = pl /\ j = ky THEN pools[pl][ky].inflight + 1
                                         ELSE pools[p][j].inflight
    <2> DEFINE v == pools[pl][ky].inflight + 1
    <2>1. pools \in [Pools -> Slots] /\ v \in 0 .. MaxInflight /\ pl \in Pools /\ ky \in Keys
      BY <1>0 DEF KeyPoolTypeOK
    <2>2. pools' = Written(pools, pl, ky, v)
      BY <1>0 DEF Written
    <2> HIDE DEF v
    <2>3. /\ pools' \in [Pools -> Slots]
          /\ \A p \in Pools, j \in Keys :
                /\ pools'[p][j].sem = pools[p][j].sem
                /\ pools'[p][j].inflight = IF p = pl /\ j = ky THEN v ELSE pools[p][j].inflight
      BY <2>1, <2>2, SlotWritten
    <2> QED BY <2>3 DEF v
  <1>1. KeyPoolTypeOK'
    BY <1>2 DEF KeyPoolTypeOK, CountIn
  <1>3. OneSemaphore'
    BY <1>2 DEF KeyPoolTypeOK, OneSemaphore, CountIn
  <1>4. SemaphoreCap'
    <2> SUFFICES ASSUME NEW j \in Keys, NEW n \in Pools PROVE Cardinality(Using(j, n)') <= Cap
      BY DEF SemaphoreCap
    <2>1. Using(j, n)' \subseteq Using(j, n)
      BY DEF KeyPoolTypeOK, Using, Holders, HasPermit, CountIn
    <2> QED BY <2>1, HoldersAreRequests, FewerHolders, KeyPoolAssumption DEF SemaphoreCap
  <1>5. Covered'
    <2> SUFFICES ASSUME NEW p \in Pools, NEW j \in Keys
                 PROVE  Cardinality(Counted(p, j)') <= pools'[p][j].inflight
      BY DEF Covered
    <2>0. pools[p][j].inflight \in Nat /\ Cardinality(Counted(p, j)) <= pools[p][j].inflight
      BY KeyPoolAssumption DEF KeyPoolTypeOK, Slots, Covered
    <2>1. CASE p = pl /\ j = ky
      <3>1. Counted(p, j)' \subseteq Counted(p, j) \union {r}
        BY DEF KeyPoolTypeOK, Counted, CountIn
      <3>2. /\ pools[p][j].inflight + 1 \in Nat
            /\ Cardinality(Counted(p, j)) < pools[p][j].inflight + 1
        BY <2>0, HoldersAreRequests, FiniteHolders
      <3>3. Cardinality(Counted(p, j)') <= pools[p][j].inflight + 1
        BY <3>1, <3>2, HoldersAreRequests, OneMoreHolder
      <3> QED BY <1>2, <2>1, <3>3
    <2>2. CASE ~(p = pl /\ j = ky)
      <3>1. Counted(p, j)' \subseteq Counted(p, j)
        BY <2>2 DEF KeyPoolTypeOK, Counted, CountIn, pl, ky
      <3>2. Cardinality(Counted(p, j)') <= pools[p][j].inflight
        BY <3>1, <2>0, HoldersAreRequests, FewerHolders
      <3> QED BY <1>2, <2>2, <3>2
    <2> QED BY <2>1, <2>2
  <1> QED BY <1>1, <1>3, <1>4, <1>5

\* The guard dropped was one the counter covered: it does not go below zero.
LEMMA CountOutStep ==
    ASSUME KeyPoolInv, NEW r \in Requests, CountOut(r)
    PROVE  KeyPoolInv'
  <1> USE DEF KeyPoolInv
  <1> DEFINE pl == req[r].pool
             ky == req[r].key
  <1>0. /\ pl \in Pools /\ ky \in Keys /\ pools[pl][ky].inflight \in 0 .. MaxInflight
        /\ r \in Counted(pl, ky)
    BY DEF KeyPoolTypeOK, Slots, CountOut, Counted
  <1> HIDE DEF pl, ky
  <1>a. /\ pools[pl][ky].inflight - 1 \in 0 .. MaxInflight
        /\ pools' = [pools EXCEPT ![pl][ky].inflight = pools[pl][ky].inflight - 1]
    <2>1. Cardinality(Counted(pl, ky)) <= pools[pl][ky].inflight
      BY <1>0 DEF Covered
    <2>2. pools[pl][ky].inflight - 1 \in Nat
      <3>1. pools[pl][ky].inflight \in Nat
        BY <1>0, KeyPoolAssumption
      <3>2. Counted(pl, ky) \in SUBSET Requests
        BY HoldersAreRequests
      <3> QED BY <1>0, <2>1, <3>1, <3>2, OneHolderLess
    <2>3. pools[pl][ky].inflight - 1 \in 0 .. MaxInflight
      BY <1>0, <2>2, KeyPoolAssumption
    <2> QED BY <2>3 DEF CountOut, pl, ky
  <1>2. /\ pools' \in [Pools -> Slots]
        /\ \A p \in Pools, j \in Keys :
              /\ pools'[p][j].sem = pools[p][j].sem
              /\ pools'[p][j].inflight = IF p = pl /\ j = ky THEN pools[pl][ky].inflight - 1
                                         ELSE pools[p][j].inflight
    <2> DEFINE v == pools[pl][ky].inflight - 1
    <2>1. pools \in [Pools -> Slots] /\ v \in 0 .. MaxInflight /\ pl \in Pools /\ ky \in Keys
      BY <1>0, <1>a DEF KeyPoolTypeOK
    <2>2. pools' = Written(pools, pl, ky, v)
      BY <1>a DEF Written
    <2> HIDE DEF v
    <2>3. /\ pools' \in [Pools -> Slots]
          /\ \A p \in Pools, j \in Keys :
                /\ pools'[p][j].sem = pools[p][j].sem
                /\ pools'[p][j].inflight = IF p = pl /\ j = ky THEN v ELSE pools[p][j].inflight
      BY <2>1, <2>2, SlotWritten
    <2> QED BY <2>3 DEF v
  <1>1. KeyPoolTypeOK'
    BY <1>2 DEF KeyPoolTypeOK, CountOut
  <1>3. OneSemaphore'
    BY <1>2 DEF KeyPoolTypeOK, OneSemaphore, CountOut
  <1>4. SemaphoreCap'
    <2> SUFFICES ASSUME NEW j \in Keys, NEW n \in Pools PROVE Cardinality(Using(j, n)') <= Cap
      BY DEF SemaphoreCap
    <2>1. Using(j, n)' \subseteq Using(j, n)
      BY DEF KeyPoolTypeOK, Using, Holders, HasPermit, CountOut
    <2> QED BY <2>1, HoldersAreRequests, FewerHolders, KeyPoolAssumption DEF SemaphoreCap
  <1>5. Covered'
    <2> SUFFICES ASSUME NEW p \in Pools, NEW j \in Keys
                 PROVE  Cardinality(Counted(p, j)') <= pools'[p][j].inflight
      BY DEF Covered
    <2>0. pools[p][j].inflight \in Nat /\ Cardinality(Counted(p, j)) <= pools[p][j].inflight
      BY KeyPoolAssumption DEF KeyPoolTypeOK, Slots, Covered
    <2>1. CASE p = pl /\ j = ky
      <3>1. Counted(p, j)' \subseteq Counted(p, j) \ {r}
        BY DEF KeyPoolTypeOK, Counted, CountOut
      <3> QED BY <3>1, <2>0, <2>1, <1>0, <1>2, HoldersAreRequests, OneHolderLess
    <2>2. CASE ~(p = pl /\ j = ky)
      <3>1. Counted(p, j)' \subseteq Counted(p, j)
        BY DEF KeyPoolTypeOK, Counted, CountOut
      <3>2. Cardinality(Counted(p, j)') <= pools[p][j].inflight
        BY <3>1, <2>0, HoldersAreRequests, FewerHolders
      <3> QED BY <1>2, <2>2, <3>2
    <2> QED BY <2>1, <2>2
  <1> QED BY <1>1, <1>3, <1>4, <1>5

\* A pool under construction counts nobody; only the keys it renews get
\* another semaphore.
LEMMA BuiltStep ==
    ASSUME KeyPoolInv, NEW m \in Managers, NEW slots \in Slots, NEW new \in SUBSET Keys,
           \A k \in Keys \ (renewed \union new) : slots[k].sem = 1,
           Built(m, slots, new)
    PROVE  KeyPoolInv'
  <1> USE DEF KeyPoolInv
  <1>1. KeyPoolTypeOK'
    BY DEF KeyPoolTypeOK, Built
  <1>2. OneSemaphore'
    BY DEF KeyPoolTypeOK, OneSemaphore, Built
  <1>3. SemaphoreCap' /\ Covered'
    BY DEF SemaphoreCap, Covered, Using, Holders, HasPermit, Counted, Built
  <1> QED BY <1>1, <1>2, <1>3

LEMMA HotReplaceStep ==
    ASSUME KeyPoolInv, NEW m \in Managers, HotReplace(m)
    PROVE  KeyPoolInv'
  <1>1. PICK ids \in SUBSET Keys, n \in Unused(Semaphores) :
            Built(m, [k \in Keys |-> IF k \in ids THEN Kept(pools[current][k], n) ELSE NoSlot],
                  {k \in ids : ~pools[current][k].in})
    BY DEF HotReplace
  <1> DEFINE slots == [k \in Keys |-> IF k \in ids THEN Kept(pools[current][k], n) ELSE NoSlot]
             new == {k \in ids : ~pools[current][k].in}
  <1>2. n \in Pools
    BY DEF Unused
  <1>3. \A k \in Keys :
            pools[current][k] \in [in : BOOLEAN, sem : Pools, inflight : 0 .. MaxInflight]
    BY DEF KeyPoolInv, KeyPoolTypeOK, Slots
  <1>4. slots \in Slots
    BY <1>2, <1>3, NothingTyped DEF Slots, Kept
  <1>5. \A k \in Keys \ (renewed \union new) : slots[k].sem = 1
    BY NothingTyped DEF KeyPoolInv, KeyPoolTypeOK, OneSemaphore, Kept
  <1>6. Built(m, slots, new) /\ new \in SUBSET Keys
    BY <1>1
  <1> HIDE DEF slots, new
  <1> QED BY <1>4, <1>5, <1>6, BuiltStep

LEMMA ReloadStep ==
    ASSUME KeyPoolInv, NEW m \in Managers, Reload(m)
    PROVE  KeyPoolInv'
  <1>1. PICK n \in Unused(Semaphores), ids \in SUBSET Keys :
            Built(m, [k \in Keys |-> IF k \in ids THEN NewSlot(n) ELSE NoSlot], ids)
    BY DEF Reload
  <1> DEFINE slots == [k \in Keys |-> IF k \in ids THEN NewSlot(n) ELSE NoSlot]
  <1>2. n \in Pools
    BY DEF Unused
  <1>3. slots \in Slots
    BY <1>2, NothingTyped DEF Slots
  <1>4. \A k \in Keys \ (renewed \union ids) : slots[k].sem = 1
    BY NothingTyped
  <1>5. Built(m, slots, ids) /\ ids \in SUBSET Keys
    BY <1>1
  <1> HIDE DEF slots
  <1> QED BY <1>3, <1>4, <1>5, BuiltStep

\* The pool installed takes a place no guard refers to.
LEMMA InstallStep ==
    ASSUME KeyPoolInv, NEW m \in Managers, Install(m)
    PROVE  KeyPoolInv'
  <1> USE DEF KeyPoolInv
  <1>1. PICK p \in Unused(Alive) :
            /\ current' = p
            /\ pools' = [q \in Pools |-> IF q = p THEN mgr[m].slots
                                         ELSE IF q \in Alive THEN pools[q] ELSE NoSlots]
    BY DEF Install
  <1>2. /\ p \in Pools \ Alive /\ mgr' = [mgr EXCEPT ![m] = NoBuild]
        /\ req' = req /\ renewed' = renewed
    BY DEF Unused, Install
  <1>3. mgr[m].slots \in Slots
    BY DEF KeyPoolTypeOK
  <1>4. KeyPoolTypeOK'
    BY <1>1, <1>2, <1>3, NothingTyped DEF KeyPoolTypeOK
  <1>5. OneSemaphore'
    BY <1>1, <1>2, NothingTyped DEF KeyPoolTypeOK, OneSemaphore
  <1>6. SemaphoreCap'
    BY <1>2 DEF SemaphoreCap, Using, Holders, HasPermit
  <1>7. Covered'
    <2> SUFFICES ASSUME NEW q \in Pools, NEW j \in Keys
                 PROVE  Cardinality(Counted(q, j)') <= pools'[q][j].inflight
      BY DEF Covered
    <2>1. Counted(q, j)' = Counted(q, j)
      BY <1>2 DEF Counted
    <2>2. CASE q \in Alive
      <3>1. pools'[q] = pools[q]
        BY <1>1, <1>2, <2>2
      <3> QED BY <2>1, <3>1 DEF Covered
    <2>3. CASE q \notin Alive
      <3>1. Counted(q, j) = {}
        BY <2>3 DEF Counted, Alive
      <3>2. Cardinality(Counted(q, j)') = 0
        BY <2>1, <3>1, FS_EmptySet
      <3>3. pools'[q][j].inflight \in 0 .. MaxInflight
        BY <1>4 DEF KeyPoolTypeOK, Slots
      <3> QED BY <3>2, <3>3
    <2> QED BY <2>2, <2>3
  <1> QED BY <1>4, <1>5, <1>6, <1>7

-----------------------------------------------------------------------------
\* Every step keeps the invariant.
LEMMA KeyPoolInvStep == KeyPoolInv /\ [Next]_vars => KeyPoolInv'
  <1> SUFFICES ASSUME KeyPoolInv, [Next]_vars PROVE KeyPoolInv'
    OBVIOUS
  <1>1. ASSUME NEW r \in Requests, Choose(r) PROVE KeyPoolInv'
    BY <1>1, GuardStep DEF Choose
  <1>2. ASSUME NEW r \in Requests, AwaitBound(r) PROVE KeyPoolInv'
    BY <1>2, GuardStep DEF AwaitBound
  <1>3. ASSUME NEW r \in Requests, TryPermit(r) PROVE KeyPoolInv'
    <2>1. CASE Free(req[r].key, req[r].sem)
      BY <1>3, <2>1, PermitStep DEF TryPermit
    <2>2. CASE ~Free(req[r].key, req[r].sem)
      BY <1>3, <2>2, LeaveStep DEF TryPermit
    <2> QED BY <2>1, <2>2
  <1>4. ASSUME NEW r \in Requests, Grant(r) PROVE KeyPoolInv'
    BY <1>4, PermitStep DEF Grant
  <1>5. ASSUME NEW r \in Requests, Timeout(r) PROVE KeyPoolInv'
    BY <1>5, LeaveStep DEF Timeout
  <1>6. ASSUME NEW r \in Requests, ReturnPermit(r) PROVE KeyPoolInv'
    BY <1>6, LeaveStep DEF ReturnPermit
  <1>7. CASE UNCHANGED vars
    <2>1. KeyPoolTypeOK' /\ OneSemaphore'
      BY <1>7 DEF vars, KeyPoolInv, KeyPoolTypeOK, OneSemaphore
    <2>2. SemaphoreCap'
      BY <1>7 DEF vars, KeyPoolInv, SemaphoreCap, Using, Holders, HasPermit
    <2>3. Covered'
      BY <1>7 DEF vars, KeyPoolInv, Covered, Counted
    <2> QED BY <2>1, <2>2, <2>3 DEF KeyPoolInv
  <1> QED
    BY <1>1, <1>2, <1>3, <1>4, <1>5, <1>6, <1>7, CountInStep, CountOutStep,
       HotReplaceStep, ReloadStep, InstallStep DEF Next

\* The strengthened invariant always holds.
LEMMA KeyPoolInvariance == Spec => []KeyPoolInv
  BY KeyPoolInvInit, KeyPoolInvStep, PTL DEF Spec

\* Slots, guards and replacements keep their types; the inflight counters stay
\* within an unsigned integer.
THEOREM PoolTyped == Spec => []KeyPoolTypeOK
  <1>1. KeyPoolInv => KeyPoolTypeOK
    BY DEF KeyPoolInv
  <1> QED BY <1>1, KeyPoolInvariance, PTL

\* max_inflight bounds the requests using a key through any number of
\* hot_replace calls, as long as its semaphore is handed on.
THEOREM CapHolds == Spec => []KeyCap
  <1>1. KeyPoolInv => KeyCap
    <2> SUFFICES ASSUME KeyPoolInv, NEW k \in Keys \ renewed
                 PROVE  Cardinality(Holders(k)) <= Cap
      BY DEF KeyCap
    <2>1. Holders(k) = Using(k, 1)
      BY DEF KeyPoolInv, OneSemaphore, Holders, Using
    <2>2. 1 \in Pools
      BY NothingTyped
    <2> QED BY <2>1, <2>2 DEF KeyPoolInv, SemaphoreCap
  <1> QED BY <1>1, KeyPoolInvariance, PTL

\* release() never counts below zero, whatever was copied by a replacement
\* between acquire and drop.
THEOREM NoUnderflow == Spec => []InflightCovers
  <1>1. KeyPoolInv => InflightCovers
    <2>1. KeyPoolInv => Alive \subseteq Pools
      BY DEF KeyPoolInv, KeyPoolTypeOK, Alive
    <2> QED BY <2>1 DEF KeyPoolInv, Covered, InflightCovers
  <1> QED BY <1>1, KeyPoolInvariance, PTL
=============================================================================
