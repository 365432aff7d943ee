------------------------------ MODULE KeyPool ------------------------------
(***************************************************************************)
(* The pool of upstream API keys of one profile (crab-proxy,               *)
(* upstream_pool.rs), with the requests that take keys from it and the     *)
(* management calls and control plane refreshes that replace it while      *)
(* requests hold its keys.                                                 *)
(*                                                                         *)
(* A pool is immutable but for the atomics of its slots.  A replacement is *)
(* a new pool: hot_replace shares the semaphores of the ids it keeps and   *)
(* copies their counters; the control plane refresh builds one from        *)
(* nothing.  A guard keeps the pool and the semaphore it came from.        *)
(*                                                                         *)
(* Which keys are disabled, or excluded by a cooldown, an account or a     *)
(* model catalogue, is left open.  Each atomic access is a step.           *)
(***************************************************************************)
EXTENDS Integers, FiniteSets

CONSTANTS
    Keys,
    Requests,
    Managers,    \* management calls and refreshes that may run at once
    Cap,         \* max_inflight: permits of a semaphore
    MaxPools,    \* bound: pools and generations of semaphores alive at once
    MaxInflight  \* bound: value of a slot's inflight counter

ASSUME KeyPoolAssumption ==
    /\ Keys # {} /\ IsFiniteSet(Requests)
    /\ Cap \in Nat \ {0} /\ MaxPools \in Nat \ {0} /\ MaxInflight \in Nat

VARIABLES
    pools,       \* the pools alive: per key a slot
    current,     \* the profile's pool
    req,         \* requests: stage; pool, key and semaphore of the guard
    mgr,         \* replacements: the slots of a pool built, not yet installed
    renewed      \* history: keys that have been given another semaphore

vars == <<pools, current, req, mgr, renewed>>

Pools == 1 .. MaxPools

NoSlot == [in |-> FALSE, sem |-> 1, inflight |-> 0]
NewSlot(n) == [NoSlot EXCEPT !.in = TRUE, !.sem = n]
NoSlots == [k \in Keys |-> NoSlot]

NoGuard == [at |-> "idle", pool |-> 1, key |-> CHOOSE k \in Keys : TRUE, sem |-> 1]
NoBuild == [at |-> "idle", slots |-> NoSlots]

Slots == [Keys -> [in : BOOLEAN, sem : Pools, inflight : 0 .. MaxInflight]]

KeyPoolTypeOK ==
    /\ pools \in [Pools -> Slots]
    /\ current \in Pools
    /\ req \in [Requests -> [at : {"idle", "chosen", "waits", "permit", "held", "uncounted"},
                             pool : Pools, key : Keys, sem : Pools]]
    /\ mgr \in [Managers -> [at : {"idle", "built"}, slots : Slots]]
    /\ renewed \in SUBSET Keys

Init ==
    /\ pools = [p \in Pools |-> IF p = 1 THEN [k \in Keys |-> NewSlot(1)] ELSE NoSlots]
    /\ current = 1
    /\ req = [r \in Requests |-> NoGuard]
    /\ mgr = [m \in Managers |-> NoBuild]
    /\ renewed = {}

(***************************************************************************)
(* Taking a key: choose a slot, take a permit, count it in.                *)
(***************************************************************************)
HasPermit(r) == req[r].at \in {"permit", "held", "uncounted"}
Holders(k) == {r \in Requests : HasPermit(r) /\ req[r].key = k}
Free(k, n) == Cardinality({r \in Holders(k) : req[r].sem = n}) < Cap
Counted(p, k) == {r \in Requests : req[r].at = "held" /\ req[r].pool = p /\ req[r].key = k}

Serves(k) == pools[current][k].in

Guard(r, stage, k) ==
    req' = [req EXCEPT ![r] = [at |-> stage, pool |-> current, key |-> k,
                               sem |-> pools[current][k].sem]]

\* The request is done with its pool; the last one drops a replaced pool.
Leave(r) ==
    /\ req' = [req EXCEPT ![r] = NoGuard]
    /\ pools' = [p \in Pools |->
                    IF p = current \/ \E q \in Requests \ {r} : req[q].at # "idle" /\ req[q].pool = p
                    THEN pools[p] ELSE NoSlots]

\* acquire_scored_pass: the key with the best score of those nothing
\* excludes; strikes and quota penalties may make that any key.
Choose(r) ==
    /\ req[r].at = "idle"
    /\ \E k \in Keys : Serves(k) /\ Guard(r, "chosen", k)
    /\ UNCHANGED <<pools, current, mgr, renewed>>

\* The semaphore is tried once: without a permit the request is refused.
TryPermit(r) ==
    /\ req[r].at = "chosen"
    /\ IF Free(req[r].key, req[r].sem)
       THEN req' = [req EXCEPT ![r].at = "permit"] /\ UNCHANGED pools
       ELSE Leave(r)
    /\ UNCHANGED <<current, mgr, renewed>>

\* acquire_with_binding_async: a bound conversation waits for its own key,
\* and gives up after the timeout.
AwaitBound(r) ==
    /\ req[r].at = "idle"
    /\ \E k \in Keys : Serves(k) /\ Guard(r, "waits", k)
    /\ UNCHANGED <<pools, current, mgr, renewed>>

Grant(r) ==
    /\ req[r].at = "waits" /\ Free(req[r].key, req[r].sem)
    /\ req' = [req EXCEPT ![r].at = "permit"]
    /\ UNCHANGED <<pools, current, mgr, renewed>>

Timeout(r) ==
    /\ req[r].at = "waits"
    /\ Leave(r)
    /\ UNCHANGED <<current, mgr, renewed>>

CountIn(r) ==
    /\ req[r].at = "permit"
    /\ pools[req[r].pool][req[r].key].inflight < MaxInflight
    /\ req' = [req EXCEPT ![r].at = "held"]
    /\ pools' = [pools EXCEPT ![req[r].pool][req[r].key].inflight = @ + 1]
    /\ UNCHANGED <<current, mgr, renewed>>

(***************************************************************************)
(* The guard is dropped: release() counts the slot of the guard's own pool *)
(* down, then the permit is returned.                                      *)
(***************************************************************************)
\* Variant: the slot of the pool current now is counted down.
CountOutCurrent(r) ==
    /\ req[r].at = "held"
    /\ req' = [req EXCEPT ![r].at = "uncounted"]
    /\ pools' = [pools EXCEPT ![current][req[r].key].inflight = @ - 1]
    /\ UNCHANGED <<current, mgr, renewed>>

CountOut(r) ==
    /\ req[r].at = "held"
    /\ req' = [req EXCEPT ![r].at = "uncounted"]
    /\ pools' = [pools EXCEPT ![req[r].pool][req[r].key].inflight = @ - 1]
    /\ UNCHANGED <<current, mgr, renewed>>

ReturnPermit(r) ==
    /\ req[r].at = "uncounted"
    /\ Leave(r)
    /\ UNCHANGED <<current, mgr, renewed>>

(***************************************************************************)
(* Replacement.  The new pool is built from the one read, slot by slot,    *)
(* and installed when it is finished.                                      *)
(***************************************************************************)
Alive == {current} \union {req[r].pool : r \in {q \in Requests : req[q].at # "idle"}}

\* Generations of semaphores something still refers to.
Semaphores ==
    {pools[p][k].sem : p \in Alive, k \in Keys}
    \union {req[r].sem : r \in {q \in Requests : req[q].at # "idle"}}
    \union {mgr[m].slots[k].sem : m \in Managers, k \in Keys}

\* A number for something new: pools and semaphores nobody refers to any more
\* give theirs back.
Unused(taken) == {n \in Pools \ taken : \A i \in Pools \ taken : n <= i}

Built(m, slots, new) ==
    /\ mgr[m].at = "idle"
    /\ mgr' = [mgr EXCEPT ![m] = [at |-> "built", slots |-> slots]]
    /\ renewed' = renewed \union new
    /\ UNCHANGED <<pools, current, req>>

\* Variant: every slot gets a semaphore of its own.
KeptAfresh(old, n) == IF old.in THEN [old EXCEPT !.sem = n] ELSE NewSlot(n)

\* The slot of an id in the new pool: what the old pool had of it, with the
\* same semaphore, or a new slot.
Kept(old, n) == IF old.in THEN old ELSE NewSlot(n)

\* hot_replace, which merge_append and remove_key end in, with the ids of the
\* call.
HotReplace(m) ==
    \E ids \in SUBSET Keys, n \in Unused(Semaphores) :
        Built(m, [k \in Keys |-> IF k \in ids THEN Kept(pools[current][k], n) ELSE NoSlot],
              {k \in ids : ~pools[current][k].in})

\* apply_snapshot_to_runtime builds the profile's pool from the keys of the
\* snapshot, whatever they are, without the old pool.
Reload(m) ==
    \E n \in Unused(Semaphores), ids \in SUBSET Keys :
        Built(m, [k \in Keys |-> IF k \in ids THEN NewSlot(n) ELSE NoSlot], ids)

\* replace_profile_pool.
Install(m) ==
    /\ mgr[m].at = "built"
    /\ \E p \in Unused(Alive) :
          /\ current' = p
          /\ pools' = [q \in Pools |-> IF q = p THEN mgr[m].slots
                                       ELSE IF q \in Alive THEN pools[q] ELSE NoSlots]
    /\ mgr' = [mgr EXCEPT ![m] = NoBuild]
    /\ UNCHANGED <<req, renewed>>

Next ==
    \/ \E r \in Requests :
          \/ Choose(r) \/ TryPermit(r) \/ AwaitBound(r) \/ Grant(r) \/ Timeout(r) \/ CountIn(r)
          \/ CountOut(r) \/ ReturnPermit(r)
    \/ \E m \in Managers : HotReplace(m) \/ Reload(m) \/ Install(m)

Spec == Init /\ [][Next]_vars
(***************************************************************************)
(* Properties.                                                             *)
(***************************************************************************)
\* The cap of a key bounds the requests that use it, those of replaced pools
\* included: hot_replace hands the semaphore on, so a guard taken from an old
\* pool still counts against the new one.  Excepted are keys that have been
\* given another semaphore, by a reload or by being removed and added again.
KeyCap == \A k \in Keys \ renewed : Cardinality(Holders(k)) <= Cap

\* The counter of a slot covers the guards taken from it and not yet dropped,
\* whatever has been copied when: no drop of a guard takes it below zero,
\* where the unsigned counter would wrap and the key never be chosen again.
InflightCovers ==
    \A p \in Alive, k \in Keys :
        pools[p][k].in => Cardinality(Counted(p, k)) <= pools[p][k].inflight

\* "Hard concurrency limit per key. Permits acquired on acquire, released on
\* Guard drop" (upstream_pool.rs), without the exception of KeyCap.
HardLimit == \A k \in Keys : Cardinality(Holders(k)) <= Cap
=============================================================================
