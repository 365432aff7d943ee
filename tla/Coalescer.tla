----------------------------- MODULE Coalescer -----------------------------
(***************************************************************************)
(* RequestCoalescer and CoalesceGuard of crab-cache/src/coalescing.rs at   *)
(* the grain of its atomic operations: one step per access of the DashMap, *)
(* of inflight_count, of an entry's flags and of its Notify.               *)
(*                                                                         *)
(* A request is one call of acquire and, if it wins, the life of its       *)
(* leader guard.  An entry (Arc<InflightEntry>) is named by the request    *)
(* that created it, so `held[r] = r` says that r's guard is the leader's.  *)
(*                                                                         *)
(* Three facts of the code shape the model.                                *)
(*   - `if let Some(entry) = self.inflight.get(key)` keeps the DashMap Ref *)
(*     (a read lock on the key's shard) until the end of the block, across *)
(*     the await; the Occupied arm of entry() keeps a write lock likewise. *)
(*     lock[r] is the lock that r's frame holds.  A lock is taken by       *)
(*     blocking the OS thread: the task keeps its worker.                  *)
(*   - Every guard stores `self.inflight.clone()`, a copy of the whole map *)
(*     made shard by shard under read locks; copied[r] counts the shards.  *)
(*   - Drop removes the key from that private copy, so no step of the      *)
(*     program removes an entry from the shared map.                       *)
(***************************************************************************)
EXTENDS Naturals, FiniteSets

CONSTANTS Requests, Keys, KeyOf, NoEntry,
          MaxInflight,  \* max_inflight
          NumShards,    \* number of DashMap shards
          ShardOf,      \* the shard each key hashes to
          Workers,      \* worker threads of the async runtime
          MaxMarks      \* bound on the mark_* calls on one leader guard

ASSUME ConstantsOK ==
    /\ IsFiniteSet(Requests)
    /\ NoEntry \notin Requests
    /\ KeyOf \in [Requests -> Keys]
    /\ NumShards \in Nat \ {0}
    /\ ShardOf \in [Keys -> 1 .. NumShards]
    /\ MaxInflight \in Nat
    /\ Workers \in Nat \ {0}
    /\ MaxMarks \in Nat

VARIABLES inflight,       \* inflight[k]: the entry the shared map holds for k
          inflight_count,
          completed,      \* entries whose `completed` flag is set
          failed,         \* entries whose `failed` flag is set
          notified,       \* waiters whose Notified future has fired
          held,           \* the entry each request holds an Arc of
          lock,           \* the shard lock each request holds
          copied,         \* shards copied so far by inflight.clone()
          pc,             \* the next step of each request
          marks,          \* mark_* calls made on each leader guard
          verdict,        \* history: the first mark of each leader
          late            \* history: requests that asked after the leader was gone

coalescerVars == <<inflight, inflight_count, completed, failed, notified, held,
                   lock, copied, pc, marks, verdict, late>>

\* Steps at which the task is parked in an await, or not under way at all.
Parked == {"idle", "wait", "leader", "follower", "timedOut", "rejected", "done"}

Steps == Parked \cup
    {"get", "check", "register", "recheck", "clone", "reserve", "unreserve",
     "entry", "occupied", "failing", "notify", "dropFailing", "dropNotify", "release"}

TypeOK ==
    /\ inflight \in [Keys -> Requests \cup {NoEntry}]
    /\ inflight_count \in Nat
    /\ completed \in SUBSET Requests
    /\ failed \in SUBSET Requests
    /\ notified \in SUBSET Requests
    /\ held \in [Requests -> Requests \cup {NoEntry}]
    /\ lock \in [Requests -> {"none", "read", "write"}]
    /\ copied \in [Requests -> 0 .. NumShards]
    /\ pc \in [Requests -> Steps]
    /\ marks \in [Requests -> 0 .. MaxMarks]
    /\ verdict \in [Requests -> {"none", "ok", "fail"}]
    /\ late \in SUBSET Requests

Init ==
    /\ inflight = [k \in Keys |-> NoEntry]
    /\ inflight_count = 0
    /\ completed = {} /\ failed = {} /\ notified = {} /\ late = {}
    /\ held = [r \in Requests |-> NoEntry]
    /\ lock = [r \in Requests |-> "none"]
    /\ copied = [r \in Requests |-> 0]
    /\ pc = [r \in Requests |-> "idle"]
    /\ marks = [r \in Requests |-> 0]
    /\ verdict = [r \in Requests |-> "none"]

-----------------------------------------------------------------------------
Shard(r) == ShardOf[KeyOf[r]]

\* DashMap's shard locks: readers are kept out by a writer only, a writer by
\* anybody, its own thread included.
Readable(s) == \A q \in Requests : ~(lock[q] = "write" /\ Shard(q) = s)
Writable(s) == \A q \in Requests : ~(lock[q] # "none" /\ Shard(q) = s)

\* A task that is neither parked nor finished occupies a worker thread.
Running    == {r \in Requests : pc[r] \notin Parked}
WorkerFree == Cardinality(Running) < Workers

Goto(r, step) == pc' = [pc EXCEPT ![r] = step]

\* The frame that found the entry is left: its Arc and its shard lock are dropped.
LetGo(r) ==
    /\ held' = [held EXCEPT ![r] = NoEntry]
    /\ lock' = [lock EXCEPT ![r] = "none"]
-----------------------------------------------------------------------------
(* acquire                                                                 *)

\* The caller's task reaches acquire.
Begin(r) ==
    /\ pc[r] = "idle" /\ WorkerFree
    /\ Goto(r, "get")
    /\ late' = IF \E q \in Requests : inflight[KeyOf[r]] = q /\ pc[q] = "done"
               THEN late \cup {r} ELSE late
    /\ UNCHANGED <<inflight, inflight_count, completed, failed, notified, held,
                   lock, copied, marks, verdict>>

\* inflight.get(key): a hit keeps the shard's read lock, a miss does not.
Get(r) ==
    /\ pc[r] = "get" /\ Readable(Shard(r))
    /\ \/ /\ inflight[KeyOf[r]] = NoEntry
          /\ Goto(r, "reserve")
          /\ UNCHANGED <<held, lock>>
       \/ /\ inflight[KeyOf[r]] # NoEntry
          /\ Goto(r, "check")
          /\ held' = [held EXCEPT ![r] = inflight[KeyOf[r]]]
          /\ lock' = [lock EXCEPT ![r] = "read"]
    /\ UNCHANGED <<inflight, inflight_count, completed, failed, notified,
                   copied, marks, verdict, late>>

\* The first load of `completed`, on both arms: done means follow at once.
Check(r) ==
    /\ pc[r] = "check"
    /\ Goto(r, IF held[r] \in completed THEN "clone" ELSE "register")
    /\ UNCHANGED <<inflight, inflight_count, completed, failed, notified, held,
                   lock, copied, marks, verdict, late>>

\* timeout(follower_timeout, entry.notify.notified()).await: the Notified future
\* sees the notify_waiters calls made after this step, and the task parks with
\* its shard lock still held.
Register(r) ==
    /\ pc[r] = "register"
    /\ Goto(r, "wait")
    /\ UNCHANGED <<inflight, inflight_count, completed, failed, notified, held,
                   lock, copied, marks, verdict, late>>

\* The future fired.  A reader loads `completed` again, the Occupied arm drops
\* its write lock and starts over.
Wake(r) ==
    /\ pc[r] = "wait" /\ r \in notified /\ WorkerFree
    /\ notified' = notified \ {r}
    /\ Goto(r, IF lock[r] = "read" THEN "recheck" ELSE "get")
    /\ IF lock[r] = "read" THEN UNCHANGED <<held, lock>> ELSE LetGo(r)
    /\ UNCHANGED <<inflight, inflight_count, completed, failed, copied,
                   marks, verdict, late>>

\* Variant: no timer around the wait.
TimeOutMissing(r) == FALSE /\ pc[r] = "wait"

\* Variant: the timed-out waiter pays back a slot it never took.
TimeOutPaysSlot(r) ==
    /\ pc[r] = "wait" /\ r \notin notified /\ WorkerFree
    /\ inflight_count' = inflight_count - 1
    /\ Goto(r, "timedOut")
    /\ LetGo(r)
    /\ UNCHANGED <<inflight, completed, failed, notified, copied, marks, verdict, late>>

\* The timer fires first: Err(Timeout), and the shard lock is released.  A timer
\* is served by a worker like everything else.
TimeOut(r) ==
    /\ pc[r] = "wait" /\ r \notin notified /\ WorkerFree
    /\ Goto(r, "timedOut")
    /\ LetGo(r)
    /\ UNCHANGED <<inflight, inflight_count, completed, failed, notified,
                   copied, marks, verdict, late>>

\* The load of `completed` after the wake-up; if it is unset, yield, sleep, retry.
Recheck(r) ==
    /\ pc[r] = "recheck"
    /\ Goto(r, IF held[r] \in completed THEN "clone" ELSE "get")
    /\ IF held[r] \in completed THEN UNCHANGED <<held, lock>> ELSE LetGo(r)
    /\ UNCHANGED <<inflight, inflight_count, completed, failed, notified,
                   copied, marks, verdict, late>>

\* One shard of self.inflight.clone(), under that shard's read lock.  With the
\* last one the guard is built, acquire returns it and the frame's lock goes.
CloneShard(r) ==
    /\ pc[r] = "clone" /\ Readable(copied[r] + 1)
    /\ copied' = [copied EXCEPT ![r] = @ + 1]
    /\ IF copied[r] + 1 < NumShards
       THEN UNCHANGED <<pc, lock>>
       ELSE /\ Goto(r, IF held[r] = r THEN "leader" ELSE "follower")
            /\ lock' = [lock EXCEPT ![r] = "none"]
    /\ UNCHANGED <<inflight, inflight_count, completed, failed, notified, held,
                   marks, verdict, late>>

\* Variant: the capacity check is off by one.
ReserveOneMore(r) ==
    /\ pc[r] = "reserve"
    /\ inflight_count' = inflight_count + 1
    /\ Goto(r, IF inflight_count > MaxInflight THEN "unreserve" ELSE "entry")
    /\ UNCHANGED <<inflight, completed, failed, notified, held, lock, copied,
                   marks, verdict, late>>

\* fetch_add first, then compare the previous value with max_inflight.
Reserve(r) ==
    /\ pc[r] = "reserve"
    /\ inflight_count' = inflight_count + 1
    /\ Goto(r, IF inflight_count >= MaxInflight THEN "unreserve" ELSE "entry")
    /\ UNCHANGED <<inflight, completed, failed, notified, held, lock, copied,
                   marks, verdict, late>>

\* fetch_sub, then Err(CapacityExceeded).
Unreserve(r) ==
    /\ pc[r] = "unreserve"
    /\ inflight_count' = inflight_count - 1
    /\ Goto(r, "rejected")
    /\ UNCHANGED <<inflight, completed, failed, notified, held, lock, copied,
                   marks, verdict, late>>

\* inflight.entry(key) finds the key: the write lock stays with the frame.
EntryOccupied(r) ==
    /\ pc[r] = "entry" /\ Writable(Shard(r))
    /\ inflight[KeyOf[r]] # NoEntry
    /\ Goto(r, "occupied")
    /\ held' = [held EXCEPT ![r] = inflight[KeyOf[r]]]
    /\ lock' = [lock EXCEPT ![r] = "write"]
    /\ UNCHANGED <<inflight, inflight_count, completed, failed, notified, copied,
                   marks, verdict, late>>

\* Variant: the Occupied arm keeps its slot.
ReleaseSlotForgotten(r) ==
    /\ pc[r] = "occupied"
    /\ Goto(r, "check")
    /\ UNCHANGED <<inflight, inflight_count, completed, failed, notified, held,
                   lock, copied, marks, verdict, late>>

\* The Occupied arm gives its slot back before it looks at the entry.
ReleaseSlot(r) ==
    /\ pc[r] = "occupied"
    /\ inflight_count' = inflight_count - 1
    /\ Goto(r, "check")
    /\ UNCHANGED <<inflight, completed, failed, notified, held, lock, copied,
                   marks, verdict, late>>

\* Variant: a plain insert after the get, which trusts that the key is still free.
EntryVacantBlind(r) ==
    /\ pc[r] = "entry" /\ Writable(Shard(r))
    /\ inflight' = [inflight EXCEPT ![KeyOf[r]] = r]
    /\ held' = [held EXCEPT ![r] = r]
    /\ Goto(r, "clone")
    /\ UNCHANGED <<inflight_count, completed, failed, notified, lock, copied,
                   marks, verdict, late>>

\* inflight.entry(key) finds no entry: insert ours, drop the lock, copy the map.
EntryVacant(r) ==
    /\ pc[r] = "entry" /\ Writable(Shard(r))
    /\ inflight[KeyOf[r]] = NoEntry
    /\ inflight' = [inflight EXCEPT ![KeyOf[r]] = r]
    /\ held' = [held EXCEPT ![r] = r]
    /\ Goto(r, "clone")
    /\ UNCHANGED <<inflight_count, completed, failed, notified, lock, copied,
                   marks, verdict, late>>
-----------------------------------------------------------------------------
(* CoalesceGuard: the leader's side                                        *)

FirstMark(r, o) == verdict' = [verdict EXCEPT ![r] = IF @ = "none" THEN o ELSE @]

\* Variant: a success clears an earlier failure.
MarkCompletedClears(r) ==
    /\ pc[r] = "leader" /\ WorkerFree /\ marks[r] < MaxMarks
    /\ marks' = [marks EXCEPT ![r] = @ + 1]
    /\ completed' = completed \cup {r}
    /\ failed' = failed \ {r}
    /\ FirstMark(r, "ok")
    /\ Goto(r, "notify")
    /\ UNCHANGED <<inflight, inflight_count, notified, held, lock, copied, late>>

\* mark_completed: store the flag, then (Notify) wake the waiters.
MarkCompleted(r) ==
    /\ pc[r] = "leader" /\ WorkerFree /\ marks[r] < MaxMarks
    /\ marks' = [marks EXCEPT ![r] = @ + 1]
    /\ completed' = completed \cup {r}
    /\ FirstMark(r, "ok")
    /\ Goto(r, "notify")
    /\ UNCHANGED <<inflight, inflight_count, failed, notified, held, lock, copied, late>>

\* Variant: mark_failed only completes the entry.
MarkFailedSilent(r) ==
    /\ pc[r] = "leader" /\ WorkerFree /\ marks[r] < MaxMarks
    /\ marks' = [marks EXCEPT ![r] = @ + 1]
    /\ FirstMark(r, "fail")
    /\ Goto(r, "failing")
    /\ UNCHANGED <<inflight, inflight_count, completed, failed, notified, held,
                   lock, copied, late>>

\* mark_failed: `failed` is stored before `completed`.
MarkFailed(r) ==
    /\ pc[r] = "leader" /\ WorkerFree /\ marks[r] < MaxMarks
    /\ marks' = [marks EXCEPT ![r] = @ + 1]
    /\ failed' = failed \cup {r}
    /\ FirstMark(r, "fail")
    /\ Goto(r, "failing")
    /\ UNCHANGED <<inflight, inflight_count, completed, notified, held, lock, copied, late>>

\* Variant: Drop without the defensive mark.
DropUnmarked(r) ==
    /\ pc[r] = "leader" /\ WorkerFree
    /\ Goto(r, "release")
    /\ UNCHANGED <<inflight, inflight_count, completed, failed, notified, held,
                   lock, copied, marks, verdict, late>>

\* Drop of the leader guard: an unmarked entry is marked failed first.
Drop(r) ==
    /\ pc[r] = "leader" /\ WorkerFree
    /\ IF r \in completed
       THEN Goto(r, "release") /\ UNCHANGED <<failed, verdict>>
       ELSE /\ failed' = failed \cup {r}
            /\ FirstMark(r, "fail")
            /\ Goto(r, "dropFailing")
    /\ UNCHANGED <<inflight, inflight_count, completed, notified, held, lock,
                   copied, marks, late>>

\* The store of `completed` in mark_failed and in Drop.
StoreCompleted(r) ==
    /\ pc[r] \in {"failing", "dropFailing"}
    /\ completed' = completed \cup {r}
    /\ Goto(r, IF pc[r] = "failing" THEN "notify" ELSE "dropNotify")
    /\ UNCHANGED <<inflight, inflight_count, failed, notified, held, lock, copied,
                   marks, verdict, late>>

\* notify_waiters: fires the futures that exist now, and no later one.
Notify(r) ==
    /\ pc[r] \in {"notify", "dropNotify"}
    /\ notified' = notified \cup {q \in Requests : pc[q] = "wait" /\ held[q] = r}
    /\ Goto(r, IF pc[r] = "notify" THEN "leader" ELSE "release")
    /\ UNCHANGED <<inflight, inflight_count, completed, failed, held, lock, copied,
                   marks, verdict, late>>

\* The end of Drop: the key leaves the guard's private copy of the map (which
\* nobody else reads) and the slot is given back.
Release(r) ==
    /\ pc[r] = "release"
    /\ inflight_count' = inflight_count - 1
    /\ Goto(r, "done")
    /\ UNCHANGED <<inflight, completed, failed, notified, held, lock, copied,
                   marks, verdict, late>>
-----------------------------------------------------------------------------
Acquire(r) ==
    \/ Get(r) \/ Check(r) \/ Register(r) \/ Wake(r) \/ TimeOut(r) \/ Recheck(r)
    \/ CloneShard(r) \/ Reserve(r) \/ Unreserve(r)
    \/ EntryOccupied(r) \/ ReleaseSlot(r) \/ EntryVacant(r)

Guard(r) ==
    \/ MarkCompleted(r) \/ MarkFailed(r) \/ Drop(r)
    \/ StoreCompleted(r) \/ Notify(r) \/ Release(r)

Next == \E r \in Requests : Begin(r) \/ Acquire(r) \/ Guard(r)

Spec == Init /\ [][Next]_coalescerVars

\* A task that can run is eventually run, a timer fires eventually, and a
\* leader's request ends (its guard lives in the request context).
Fairness == \A r \in Requests : WF_coalescerVars(Acquire(r)) /\ WF_coalescerVars(Guard(r))

FairSpec == Spec /\ Fairness
-----------------------------------------------------------------------------
(* Properties                                                              *)

\* The request inserted its entry and its guard has not finished dropping.
Leading(r) == held[r] = r /\ pc[r] # "done"

\* Requests that a fetch_add on inflight_count has not been paid back for.
SlotHolders == {r \in Requests : pc[r] \in {"unreserve", "entry", "occupied"} \/ Leading(r)}

\* Two requests for one key are never both its leader, however their get and
\* entry calls interleave (coalescing.rs:45 and :96 are two separate lookups).
OneLeaderPerKey ==
    \A r, q \in Requests : Leading(r) /\ Leading(q) /\ KeyOf[r] = KeyOf[q] => r = q

\* inflight_count is exactly the number of slots taken: every early return, the
\* lost race for the entry and Drop pay back what fetch_add took, once.
SlotsExact == inflight_count = Cardinality(SlotHolders)

\* The increment-then-verify check never lets more than max_inflight leaders in,
\* whatever other requests reserve and pay back meanwhile.
LeadersBounded == Cardinality({r \in Requests : Leading(r)}) <= MaxInflight

\* A follower that is handed the guard of a failed leader reads leader_failed()
\* as true: `failed` is visible before `completed` is, also when the leader is
\* dropped without a mark (coalescing.rs:190 and :214).
FailureSeen ==
    \A r, e \in Requests :
        pc[r] = "follower" /\ held[r] = e /\ verdict[e] = "fail" => e \in failed

\* Whoever finds the leader's guard gone finds an outcome with it: an entry is
\* never left unsettled behind a leader that has dropped (coalescing.rs:214).
NoOrphanEntry ==
    \A k \in Keys, q \in Requests :
        inflight[k] = q /\ pc[q] \in {"release", "done"} => q \in completed

\* The abstract phase of a request and outcome of a key.
PhaseOf(r) == IF Leading(r) THEN "leader"
              ELSE IF pc[r] \in Parked \ {"wait"} THEN pc[r] ELSE "pending"

OutcomeOf(k) == IF inflight[k] \notin completed THEN "none"
                ELSE IF inflight[k] \in failed THEN "fail" ELSE "ok"

phaseBar   == [r \in Requests |-> PhaseOf(r)]
outcomeBar == [k \in Keys |-> OutcomeOf(k)]

Promised == INSTANCE CoalescerSpec WITH phase <- phaseBar, owner <- inflight, outcome <- outcomeBar

\* Every step of acquire and of the guard is a step of the abstract coalescer
\* or none at all: leaders are unique and bounded, an outcome is announced
\* before anyone follows or the leader leaves, and success may turn into
\* failure but a failure never into success.
ImplementsPromise == Promised!AbstractSpec

\* acquire has returned to its caller, with a guard or with an error.
Returned(r) == pc[r] \in {"leader", "follower", "timedOut", "rejected"}

\* The Occupied arm is copying the map (coalescing.rs:107) and has its own write
\* lock in its way: that thread, and all who need the shard, are lost.
SelfLocked(r) == pc[r] = "clone" /\ lock[r] = "write"

\* Every call of acquire returns, unless an Occupied arm has locked itself out:
\* neither a lost wake-up, nor the shard locks that waiters keep across their
\* await, nor the threads blocked on them keep anybody for ever, because the
\* timers of coalescing.rs:58 and :113 break every such wait.  It takes a worker
\* thread more than there can be leaders copying the map; with fewer, threads
\* blocked on the lock of a parked waiter leave none to serve its timer.
AcquireReturns ==
    \A r \in Requests :
        pc[r] = "get" ~> (Returned(r) \/ \E q \in Requests : SelfLocked(q))

\* A waiter whose leader stays silent gets its Timeout, or is woken: what
\* test_coalescer_timeout (coalescing.rs:326-333) expects of the timer.
WaitEnds == \A r \in Requests : pc[r] = "wait" ~> pc[r] # "wait"

\* Coalescing merges concurrent requests only: whoever asks for a key after its
\* leader is gone is not made a follower of that leader.
ConcurrentOnly == \A r \in late : pc[r] # "follower"

\* The Occupied arm ends: the request that lost the race for the entry becomes
\* a follower, retries or times out (coalescing.rs:98).
LoserRetries ==
    \A r \in Requests : pc[r] = "occupied" ~> pc[r] \in {"follower", "get", "timedOut"}
=============================================================================
