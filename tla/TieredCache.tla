----------------------------- MODULE TieredCache -----------------------------
(***************************************************************************)
(* TieredCache (crates/crab-cache/src/tiered.rs) and the invalidation      *)
(* handler of the management API (crates/crab-gateway/src/management.rs):  *)
(* several gateways, each with its own L0 (Moka), share one L1 (Redis).    *)
(*                                                                         *)
(* A task is a lookup, a store or an invalidation under way in one         *)
(* gateway; it makes one step per access of a tier, and any Redis command  *)
(* may fail.  Lookups and stores last at most Lag ticks; a scan may take   *)
(* longer.  Time is kept as what an entry has left.                        *)
(***************************************************************************)
EXTENDS Integers, FiniteSets

CONSTANTS Gateways, Keys, Tasks, NoGateway,
          Ids,         \* bound: the entries of one key that exist at a time
          Ttls,        \* the times to live TtlConfig::resolve may give
          MaxTtl,      \* the longest of them
          Lag          \* the longest a lookup or a store takes

ASSUME TieredAssumption ==
    /\ NoGateway \notin Gateways /\ Ids \cap {"none", "corrupt"} = {}
    /\ Ttls \subseteq 1..MaxTtl /\ MaxTtl \in Nat /\ Lag \in Nat

VARIABLES l0,         \* l0[g][k]: the entry and the time it has left (Forever
                      \* once it has been read), or None
          redis,      \* redis[k]: the entry, None, or Corrupt
          flag,       \* flag[g]: invalidate_all_in_progress
          task,       \* what each task is doing
          age,        \* history: age[k][i], the time since i was stored
          purged      \* history: the time since an Ok invalidation removed it

tieredVars == <<l0, redis, flag, task, age, purged>>

None == [id |-> "none", left |-> 0]
Corrupt == [id |-> "corrupt", left |-> 0]
Forever == 0
Entry == [id : Ids, left : 1..MaxTtl]
Held == [id : Ids, left : {Forever} \cup 1..MaxTtl]
Never == -1

\* bound: history counts no further than the properties look.
AgeCap == 2 * MaxTtl + 2 * Lag
Count(n) == IF n < AgeCap THEN n + 1 ELSE n

Idle == [pc |-> "idle", kind |-> "none", gw |-> NoGateway, scope |-> {}, id |-> "none",
         for |-> 0, left |-> {}, found |-> {}, old |-> {}, clean |-> FALSE]

Lookups == {"lookup", "promote", "delbad"}
Jobs == {"lock", "del", "scan", "batch", "done"}
Kinds == {"none", "key", "prefix", "all"}

TieredTypeOK ==
    /\ l0 \in [Gateways -> [Keys -> Held \cup {None}]]
    /\ redis \in [Keys -> Entry \cup {None, Corrupt}]
    /\ flag \in [Gateways -> BOOLEAN]
    /\ task \in [Tasks ->
         [pc : {"idle", "setex"} \cup Lookups \cup Jobs, kind : Kinds,
          gw : Gateways \cup {NoGateway}, scope : SUBSET Keys, id : Ids \cup {"none"},
          for : 0..Lag, left : SUBSET Keys, found : SUBSET Keys,
          old : SUBSET (Keys \X Ids), clean : BOOLEAN]]
    /\ age \in [Keys -> [Ids -> Nat]]
    /\ purged \in [Keys -> [Ids -> Nat \cup {Never}]]

TieredInit ==
    /\ l0 = [g \in Gateways |-> [k \in Keys |-> None]]
    /\ redis \in [Keys -> {None, Corrupt}]        \* entries of an older format
    /\ flag = [g \in Gateways |-> FALSE]
    /\ task = [t \in Tasks |-> Idle]
    /\ age = [k \in Keys |-> [i \in Ids |-> 0]]
    /\ purged = [k \in Keys |-> [i \in Ids |-> Never]]
-----------------------------------------------------------------------------
Request(t) == task[t].pc \in Lookups \cup {"setex"}

\* The key of a lookup or a store.
KeyOf(t) == CHOOSE k \in Keys : task[t].scope = {k}

\* History: an invalidation is disturbed by a lookup in its own gateway, and by
\* a store in any, of one of its keys.
Disturbs(kind, g, k, inv) ==
    k \in inv.scope /\ (kind = "setex" \/ (kind \in Lookups /\ g = inv.gw))

Disturbed(tasks, kind, g, k) ==
    [t \in Tasks |-> [tasks[t] EXCEPT !.clean = @ /\ ~Disturbs(kind, g, k, tasks[t])]]

Step(t, pc) == task' = [task EXCEPT ![t].pc = pc]
End(t) == task' = [task EXCEPT ![t] = Idle]

\* get or prefix_l0_lookup finds the key in L0.  DynamicTtlExpiry answers the
\* read with None, which tells Moka that the entry has no expiry any more.
HitL0(g, k) ==
    /\ l0[g][k] # None
    /\ l0' = [l0 EXCEPT ![g][k] = [id |-> l0[g][k].id, left |-> Forever]]
    /\ UNCHANGED <<redis, flag, task, age, purged>>

\* TieredCache::get, after L0 has missed.
Get(t, g, k) ==
    /\ task[t].pc = "idle" /\ l0[g][k] = None
    /\ task' = Disturbed([task EXCEPT ![t] = [Idle EXCEPT !.pc = "lookup", !.gw = g,
                                              !.scope = {k}]], "lookup", g, k)
    /\ UNCHANGED <<l0, redis, flag, age, purged>>

\* No connection, a failed GET or an absent key: a miss.
RedisMiss(t) ==
    /\ task[t].pc = "lookup"
    /\ End(t)
    /\ UNCHANGED <<l0, redis, flag, age, purged>>

\* Variant: the entry is not parsed.
RedisHitUnparsed(t) ==
    /\ task[t].pc = "lookup"
    /\ redis[KeyOf(t)] # None
    /\ task' = [task EXCEPT ![t].pc = "promote", ![t].id = redis[KeyOf(t)].id]
    /\ UNCHANGED <<l0, redis, flag, age, purged>>

RedisHit(t) ==
    /\ task[t].pc = "lookup"
    /\ redis[KeyOf(t)] \notin {None, Corrupt}
    /\ task' = [task EXCEPT ![t].pc = "promote", ![t].id = redis[KeyOf(t)].id]
    /\ UNCHANGED <<l0, redis, flag, age, purged>>

RedisBad(t) ==
    /\ task[t].pc = "lookup" /\ redis[KeyOf(t)] = Corrupt
    /\ Step(t, "delbad")
    /\ UNCHANGED <<l0, redis, flag, age, purged>>

\* The entry that could not be read is deleted by its key, if Redis answers.
DeleteBad(t) ==
    /\ task[t].pc = "delbad"
    /\ redis' \in {redis, [redis EXCEPT ![KeyOf(t)] = None]}
    /\ End(t)
    /\ UNCHANGED <<l0, flag, age, purged>>

\* Variant: a hit also renews the entry in Redis.
PromoteRenews(t) == \E ttl \in Ttls :
    /\ task[t].pc = "promote"
    /\ l0' = [l0 EXCEPT ![task[t].gw][KeyOf(t)] = [id |-> task[t].id, left |-> ttl]]
    /\ redis' = [redis EXCEPT ![KeyOf(t)] = [id |-> task[t].id, left |-> ttl]]
    /\ End(t)
    /\ UNCHANGED <<flag, age, purged>>

\* Promotion into L0, where the time to live starts anew.
Promote(t) == \E ttl \in Ttls :
    /\ task[t].pc = "promote"
    /\ l0' = [l0 EXCEPT ![task[t].gw][KeyOf(t)] = [id |-> task[t].id, left |-> ttl]]
    /\ End(t)
    /\ UNCHANGED <<redis, flag, age, purged>>

\* An entry is stored under an identity that no copy of the key has.
InUse(k, i) ==
    \/ redis[k].id = i
    \/ \E g \in Gateways : l0[g][k].id = i
    \/ \E t \in Tasks : task[t].id = i /\ task[t].scope = {k}

\* TieredCache::put: L0 first ...
Put(t, g, k) == \E ttl \in Ttls, i \in Ids :
    /\ task[t].pc = "idle" /\ ~InUse(k, i)
    /\ l0' = [l0 EXCEPT ![g][k] = [id |-> i, left |-> ttl]]
    /\ age' = [age EXCEPT ![k][i] = 0]
    /\ purged' = [purged EXCEPT ![k][i] = Never]
    /\ LET started == [task EXCEPT ![t] = [Idle EXCEPT !.pc = "setex", !.gw = g,
                                                       !.scope = {k}, !.id = i]]
           noted == Disturbed(started, "setex", g, k)
       IN  task' = [u \in Tasks |-> [noted[u] EXCEPT !.old = @ \ {<<k, i>>}]]
    /\ UNCHANGED <<redis, flag>>

\* ... then SETEX, with a time to live of its own (the consumer's), or an error.
PutRedis(t) ==
    /\ task[t].pc = "setex"
    /\ \/ \E ttl \in Ttls :
              redis' = [redis EXCEPT ![KeyOf(t)] = [id |-> task[t].id, left |-> ttl]]
       \/ UNCHANGED redis
    /\ End(t)
    /\ UNCHANGED <<l0, flag, age, purged>>
-----------------------------------------------------------------------------
\* History: the entries whose stores have returned.
Stored(scope) ==
    {e \in scope \X Ids : InUse(e[1], e[2]) /\ \A u \in Tasks :
        ~(task[u].pc = "setex" /\ task[u].id = e[2] /\ task[u].scope = {e[1]})}

Fresh(g, scope) ==
    \A u \in Tasks : Request(u) =>
        \A k \in scope : task[u].scope = {k} => ~(task[u].pc = "setex" \/ task[u].gw = g)

Scopes(kind) == IF kind = "all" THEN {Keys}
                ELSE IF kind = "key" THEN {{k} : k \in Keys} ELSE SUBSET Keys \ {{}}

\* invalidate_cache for a key, a prefix or everything: a full invalidation takes
\* the flag, or is refused (409); then it waits for the job slot ...
Accept(t, g) == \E kind \in Kinds \ {"none"} : \E scope \in Scopes(kind) :
    /\ task[t].pc = "idle"
    /\ kind = "all" => ~flag[g]
    /\ flag' = [flag EXCEPT ![g] = @ \/ kind = "all"]
    /\ task' = [task EXCEPT ![t] = [Idle EXCEPT !.pc = "lock", !.kind = kind, !.gw = g,
                                                !.scope = scope]]
    /\ UNCHANGED <<l0, redis, age, purged>>

\* ... where a client that hangs up cancels it ...
Cancelled(t) ==
    /\ task[t].pc = "lock"
    /\ End(t)
    /\ UNCHANGED <<l0, redis, flag, age, purged>>

\* ... and spawns the job: invalidate, invalidate_prefix and invalidate_all
\* clear L0 first.
ClearL0(t) ==
    LET g == task[t].gw
        scope == task[t].scope
    IN  /\ task[t].pc = "lock"
        /\ l0' = [l0 EXCEPT ![g] = [k \in Keys |-> IF k \in scope THEN None ELSE @[k]]]
        /\ task' = [task EXCEPT ![t] = [@ EXCEPT
                !.pc = IF task[t].kind = "key" THEN "del" ELSE "scan",
                !.left = IF task[t].kind = "key" THEN {} ELSE scope,
                !.old = Stored(scope), !.clean = Fresh(g, scope)]]
        /\ UNCHANGED <<redis, flag, age, purged>>

\* A job that has not deleted all its keys promises nothing.
Incomplete(job) == [job EXCEPT !.old = {}, !.clean = FALSE]

\* The job returns; history notes what it has purged.
Return(t, job) ==
    /\ task' = [task EXCEPT ![t] = [job EXCEPT !.pc = "done", !.left = {}, !.old = {}]]
    /\ purged' = [k \in Keys |-> [i \in Ids |->
                    IF <<k, i>> \in job.old /\ purged[k][i] = Never
                    THEN 0 ELSE purged[k][i]]]

\* Variant: a DEL that failed is only logged.
DeleteKeyLogs(t) ==
    /\ task[t].pc = "del"
    /\ redis' \in {redis, [redis EXCEPT ![KeyOf(t)] = None]}
    /\ Return(t, task[t])
    /\ UNCHANGED <<l0, flag, age>>

DeleteKey(t) ==
    /\ task[t].pc = "del"
    /\ \/ redis' = [redis EXCEPT ![KeyOf(t)] = None] /\ Return(t, task[t])
       \/ UNCHANGED redis /\ Return(t, Incomplete(task[t]))
    /\ UNCHANGED <<l0, flag, age>>

\* scan_delete_l1: the cursor visits a batch of keys and returns those that exist.
ScanBatch(t) ==
    /\ task[t].pc = "scan"
    /\ \E batch \in SUBSET task[t].left :
          /\ batch # {}
          /\ task' = [task EXCEPT ![t].pc = "batch", ![t].left = @ \ batch,
                                  ![t].found = {k \in batch : redis[k] # None}]
    /\ UNCHANGED <<l0, redis, flag, age, purged>>

\* Variant: DEL is given the keys without their "cache:" prefix.
DeleteBatchOtherNames(t) ==
    /\ task[t].pc = "batch"
    /\ task' = [task EXCEPT ![t].pc = "scan", ![t].found = {}]
    /\ UNCHANGED <<l0, redis, flag, age, purged>>

\* DEL of the batch; a failure is logged and the scan goes on.
DeleteBatch(t) ==
    /\ task[t].pc = "batch"
    /\ \/ /\ redis' = [k \in Keys |-> IF k \in task[t].found THEN None ELSE redis[k]]
          /\ task' = [task EXCEPT ![t].pc = "scan", ![t].found = {}]
       \/ /\ task[t].found # {}
          /\ task' = [task EXCEPT ![t] = [Incomplete(@) EXCEPT !.pc = "scan", !.found = {}]]
          /\ UNCHANGED redis
    /\ UNCHANGED <<l0, flag, age, purged>>

\* The cursor is back at 0; or the scan is cut short, Ok after max_duration and
\* Err if Redis failed.
ScanEnds(t) ==
    /\ task[t].pc = "scan"
    /\ \/ task[t].left = {} /\ Return(t, task[t])
       \/ task[t].left # {} /\ Return(t, Incomplete(task[t]))
    /\ UNCHANGED <<l0, redis, flag, age>>

\* Variant: every job's end lowers the flag.
FinishAll(t) ==
    /\ task[t].pc = "done"
    /\ flag' = [flag EXCEPT ![task[t].gw] = FALSE]
    /\ End(t)
    /\ UNCHANGED <<l0, redis, age, purged>>

\* The job's end is recorded; the guard of a full invalidation lowers the flag.
Finish(t) ==
    /\ task[t].pc = "done"
    /\ flag' = [flag EXCEPT ![task[t].gw] = @ /\ task[t].kind # "all"]
    /\ End(t)
    /\ UNCHANGED <<l0, redis, age, purged>>
-----------------------------------------------------------------------------
Older(e) == IF e.id \notin Ids \/ e.left = Forever THEN e
            ELSE IF e.left = 1 THEN None ELSE [e EXCEPT !.left = @ - 1]

\* Time passes; an entry whose time is over is never returned again.
Tick ==
    /\ \A t \in Tasks : Request(t) => task[t].for < Lag
    /\ l0' = [g \in Gateways |-> [k \in Keys |-> Older(l0[g][k])]]
    /\ redis' = [k \in Keys |-> Older(redis[k])]
    /\ task' = [t \in Tasks |-> IF Request(t) THEN [task[t] EXCEPT !.for = @ + 1] ELSE task[t]]
    /\ age' = [k \in Keys |-> [i \in Ids |-> IF InUse(k, i) THEN Count(age[k][i]) ELSE 0]]
    /\ purged' = [k \in Keys |-> [i \in Ids |->
                    IF InUse(k, i) /\ purged[k][i] # Never THEN Count(purged[k][i]) ELSE Never]]
    /\ UNCHANGED flag

\* Moka evicts at its capacity; Redis evicts, or restarts empty.
EvictL0(g, k) ==
    /\ l0[g][k] # None
    /\ l0' = [l0 EXCEPT ![g][k] = None]
    /\ UNCHANGED <<redis, flag, task, age, purged>>

EvictRedis(k) ==
    /\ redis[k] # None
    /\ redis' = [redis EXCEPT ![k] = None]
    /\ UNCHANGED <<l0, flag, task, age, purged>>

Lookup(t) == RedisMiss(t) \/ RedisHit(t) \/ RedisBad(t) \/ DeleteBad(t) \/ Promote(t)

Invalidation(t) ==
    \/ Cancelled(t) \/ ClearL0(t) \/ DeleteKey(t) \/ ScanBatch(t)
    \/ DeleteBatch(t) \/ ScanEnds(t) \/ Finish(t)

TieredNext ==
    \/ \E t \in Tasks : Lookup(t) \/ PutRedis(t) \/ Invalidation(t)
    \/ \E t \in Tasks, g \in Gateways :
          \/ \E k \in Keys : Get(t, g, k) \/ Put(t, g, k)
          \/ Accept(t, g)
    \/ Tick
    \/ \E g \in Gateways, k \in Keys : HitL0(g, k) \/ EvictL0(g, k)
    \/ \E k \in Keys : EvictRedis(k)

TieredSpec == TieredInit /\ [][TieredNext]_tieredVars
-----------------------------------------------------------------------------
\* A response is never older than one time to live and its store in Redis, nor
\* than two times to live and two requests in an L0 where nobody has read it:
\* promotion restarts the clock (tiered.rs:275), but only once.
AgeBounded ==
    /\ \A k \in Keys : redis[k].id \in Ids => age[k][redis[k].id] < MaxTtl + Lag
    /\ \A g \in Gateways, k \in Keys :
          l0[g][k] \in Entry => age[k][l0[g][k].id] < 2 * MaxTtl + 2 * Lag

\* "cache reads do NOT extend the entry's lifetime": nor in any other L0.
ExpiresAsSet ==
    \A g \in Gateways, k \in Keys :
        l0[g][k] # None => age[k][l0[g][k].id] < 2 * MaxTtl + 2 * Lag

\* What an invalidation removed that returned Ok, and whose scan was neither cut
\* short nor missed a DEL, is never again in Redis; it enters an L0 only by a
\* promotion begun before, and leaves every L0 where nobody reads it within one
\* time to live and the length of a lookup.
PurgedEverywhere ==
    /\ \A k \in Keys : redis[k].id \in Ids => purged[k][redis[k].id] = Never
    /\ \A t \in Tasks : task[t].pc = "promote" => purged[KeyOf(t)][task[t].id] <= Lag
    /\ \A g \in Gateways, k \in Keys :
          l0[g][k] \in Entry => purged[k][l0[g][k].id] < MaxTtl + Lag

\* In the gateway that ran it and in Redis its keys are gone, unless a lookup
\* there or a store of one of them overlapped it.
InvalidationHolds ==
    \A t \in Tasks : (task[t].pc = "done" /\ task[t].clean) =>
        \A k \in task[t].scope : l0[task[t].gw][k] = None /\ redis[k] = None

\* "a full cache invalidation is already in progress": a gateway never runs two,
\* and its flag is up as long as one is under way (InProgressGuard).
OneFullScan ==
    /\ \A t, u \in Tasks : (task[t].kind = "all" /\ task[u].kind = "all"
                              /\ task[t].gw = task[u].gw) => t = u
    /\ \A t \in Tasks : task[t].kind = "all" => flag[task[t].gw]

\* "Guard that resets invalidate_all_in_progress on drop": the flag is up only
\* while a full invalidation is under way.
FlagReset ==
    \A g \in Gateways : flag[g] => \E t \in Tasks : task[t].kind = "all" /\ task[t].gw = g
=============================================================================
