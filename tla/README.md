# CrabCache: TLA+ verification project

CrabCache is an LLM gateway in Rust: a Pingora proxy with a tiered response cache, request
coalescing, a pool of upstream keys, health-based routing over several backends, and an admin
plane. This directory holds TLA+ models of its concurrent core, TLC configurations that check
them on small instances, and TLAPS proofs of their main safety properties for every instance.

`PROJECT.json` lists the components, runs, mutants, theorems, hazards and findings, and maps every
definition to the source lines it models.

    tlc -workers 2 -config coalescer_same_key.cfg MCCoalescer    # a run
    tlapm CoalescerProofs.tla                                    # a proof

## 1. Inventory

### The parts of the system

| part (crates/...) | state | operations | hard behaviour |
|---|---|---|---|
| `crab-cache/coalescing.rs` RequestCoalescer | `inflight` (DashMap of entries), `inflight_count`, per entry `completed`, `failed`, `notify` | `acquire`, `mark_completed`, `mark_failed`, `Drop` | two lookups of one key, wake-ups, locks across awaits, slot accounting |
| `crab-proxy/phases` cache_coalesce, response_filter, response_body, logging | request context (`coalesce_guard`, `cache_key`, truncation flag, ...), spawned writes | lookup, acquire, answer of the upstream, marks, cache write, end | order of mark and write, failures on every path, early returns |
| `crab-proxy/circuit_breaker.rs` | per backend: state, failure count, open cycles, time and kind of the last failure | `can_execute`, `on_success`, `on_failure` | late answers, probes, backoff |
| `crab-proxy/phases/upstream_peer.rs`, `backend_state.rs`, `rate_limit_retry.rs`, `proxy.rs` | per backend a semaphore and load figures; per request a permit | candidate loop, `try_acquire`, permit drop, retries and rotations | permits through retries, limits, self-blocking |
| `crab-proxy/model_lockout.rs` | `locks`, `failure_states` (DashMaps) | `is_locked`, `record_failure`, `clear`, `cleanup` | check-then-insert, remove of a stale entry |
| `crab-cache/tiered.rs` | L0 (Moka), L1 (Redis), prefix index | get with promotion, put, invalidate (one, prefix, all) | the tiers are written one after another, promotion races invalidation |
| `crab-cache/idempotency.rs` | key -> response with time | `check`, `save`, `cleanup_expired` | remove of a stale entry, cap |
| `crab-proxy/upstream_pool.rs`, `key_binding.rs`, quota cache | slots with inflight, cooldowns, strikes, a semaphore; session -> key | acquire variants, report, rotate, hot replace, bind | guards that outlive their pool, counts next to a cache |
| `crab-proxy/client_key_limiter.rs`, `client_key_rate_limiter.rs`, `upstream_user_id_limiter.rs` | slots and token buckets | acquire, release, sync, remove, prune | replaced or removed slots with requests in flight |
| `crab-proxy/client_lockout.rs` | failed attempts per client | check, record, success, cleanup | sliding window, expiry |
| `crab-proxy/session_store.rs`, `responses_chain_store.rs` | conversation history in Redis / Moka | merge, persist, chain lookup | read-modify-write by concurrent turns |
| `crab-state` | control-plane snapshot in Redis, version, pub/sub channel | load, save, poll, subscribe | several writers, version written last |
| `crab-route` | ketama ring, affinity hints | select | pure, except the hint table |
| `crab-auth` | OAuth tokens | login flows, refresh, selection | concurrent refresh |
| `crab-pipeline`, `crab-translator`, `crab-composition`, `crab-reasoning`, `crab-semantic`, `crab-capture` | mostly none; stores behind SQL, Redis, Qdrant | classify, rewrite, embed, store | text and I/O |
| `crab-gateway`, `crab-admin`, `crab-admin-types`, `crab-dashboard`, `crab-cli`, `crab-control`, `crab-client-endpoint`, `crab-metrics` | process wiring, REST, UI | - | I/O |
| `third_party/pingora-proxy` | - | the retry loop | vendored |

### How they interact

A request first looks its exact key up in the tiered cache (`cache_coalesce.rs`), then asks the
coalescer. A leader goes on to `upstream_peer`, which asks the breaker, the lockout registry, the
load state and the semaphore of each ranked backend in turn; the answer passes `response_filter`
(reports to breaker and lockout, retries, `mark_failed`) and `response_body` (`mark_completed`,
spawned cache write), and `logging` closes the request; dropping the context drops the guard and
the permit. Followers look the cache up again once the leader has marked its entry. The management
API clears lockouts; a background service cleans up every five minutes. All of this runs on a
multi-threaded tokio runtime, so every shared map is used by several threads at once.

Before any of that `request_filter.rs` lets the request in: client lockout and key table, idempotency
store, then the slot of the client key, a permit of the global semaphore and the slot of the DeepSeek
user id, each held by a guard in the request context. `upstream_request.rs` takes an upstream key from
the profile's pool. Meanwhile the management API creates, patches and revokes keys, replaces pools and
invalidates the cache; every such change is made in the gateway's own memory and saved to Redis, by a
spawned task or, for the domain policies, by the handler itself, and every gateway loads what another
one saved, woken by a timer or by a message. Two gateways share nothing but Redis: the cache's second
tier and the control plane state.

### What must be right

- coalescer: one leader per key; slots paid back exactly once; a bound on leaders; followers learn
  the outcome, failures included; nobody waits for ever; entries end with their leader;
- cache phase: only whole successful responses are served; a failed leader's followers stay off
  the upstream; followers find what the leader stored (of the three, the code keeps that what is served
  was captured from an answer that ended well);
- breaker and routing: state and counters agree; an open breaker is probed, recovers, backs off;
  permits are neither lost nor duplicated, limits hold, a retry does not stand in its own way;
- lockout: no longer than the failures reported warrant, not shortened, not lost, as long as asked for;
- tiered cache: no entry outlives its time to live by much, and an invalidation that reports success
  reaches every gateway in bounded time; one full invalidation at a time;
- limits: counters cover the guards they count, never wrap, and caps survive renamed keys and replaced
  pools; slots do not pile up;
- client gate: attempts and stored answers are bounded, a saved answer is there for its window, a
  lockout ends;
- control plane: a gateway that believes itself up to date is, and all of them come to agree.

The hazards behind this list, each at its line, are in `PROJECT.json`.

## 2. Modules

| module | models | uses |
|---|---|---|
| `CoalescerSpec` | what the coalescer promises: an abstract specification | |
| `Coalescer` | `coalescing.rs`, one step per atomic operation; properties; refinement mapping `Promised` | `CoalescerSpec` |
| `CoalescerProofs` | invariants and refinement | `Coalescer` |
| `CachePhase`, `CachePhaseProofs` | a request's way through cache, coalescer and upstream; proofs | `CoalescerSpec` in place of the coalescer |
| `CircuitBreaker` | the breaker as a record and functions | |
| `BackendRouting` | candidate loop, permits, answers, retries | `CircuitBreaker` |
| `BackendRoutingProofs` | proofs | `BackendRouting` |
| `ModelLockout` | the lockout registry for one key | |
| `TieredCache`, `TieredCacheProofs` | `tiered.rs` and the invalidation handler, several gateways on one Redis; proofs | |
| `Admission`, `AdmissionProofs` | limits of `request_filter.rs`, both limiters, the key calls of `management.rs`; proofs | |
| `ClientGate` | client lockout and idempotency store in a request's life | |
| `LockoutProofs` | proofs about both registries of lockouts and the store behind the second | `ModelLockout`, `ClientGate` |
| `KeyPool`, `KeyPoolProofs` | `upstream_pool.rs`: permits, counters, replacement of pools; proofs | |
| `ControlPlane`, `ControlPlaneProofs` | `crab-state`: save, load, refreshers, apply, start and crash; proofs | |
| `MC*` | instances for TLC (the client gate needs none) | |

Definitions marked "Variant" are faulty forms of the definition below them. No specification uses
them: they are the mutants of `PROJECT.json`, and each property is known to fail when its variant
takes the place of the real definition.

### Coalescer

A request is one call of `acquire` and, if it wins, the life of its guard. An entry is named by the
request that created it. `pc` is the next atomic operation; `lock[r]` is the DashMap shard lock that
the frame of `r` holds, because `if let Some(entry) = self.inflight.get(key)` keeps its `Ref`, and
the Occupied arm its entry, to the end of the block, across the await. `copied[r]` counts the shards
of `self.inflight.clone()`, which every guard makes: `inflight` is a `DashMap`, not an `Arc` of one.
Hence `Release`, the end of Drop, leaves the shared map alone. A task that is not parked in an await
occupies one of `Workers` threads; a blocked lock keeps the thread. `verdict` and `late` are history
variables. `yield_now` and the sleep of lines 76-78 follow a load that is always true there (a waiter
is notified after the flag is stored), so they are not steps of their own. `AcquireReturns` follows a
call from its first lookup to its return, through the copies of the map and the retry of a loser, with
fewer threads than requests. It excepts what `SelfLocked` names, an Occupied arm whose own write lock is
in the way of its copy. It also needs a thread more than the leaders that can be copying: with two threads
for the same requests TLC finds threads blocked on the lock of a parked waiter that leave none to serve
its timer, the case of `coalescer_starved`.

DashMap's locks, the Notify and tokio's threads are external and modelled from their use: readers
exclude writers, a writer everybody, its own thread too; `notify_waiters` fires the futures that
exist and stores nothing for later ones.

### CachePhase

`cached[k]` is the whole tiered cache for `k`: the request whose response it holds, nothing, or
`Legacy`, an entry the gateway finds and cannot use (other stream mode, or no visible content; the
code's comment on `cache_entry_matches_stream_mode` names such Redis entries). `EntryGone` covers
expiry, eviction and invalidation. The answer of the upstream is a status of 400 or more that is
marked (`UpstreamError`), one that is not (401, or 429 without an upstream key: response_filter
returns first), a body that ended well, or one that is not cached (a non-streaming body over the limit).
What was captured of a body that ended well is the whole of it or a part (`Captured`): a stream over
`max_sse_cache_bytes` is trimmed to its tail, `take()` forgets that it was, and the tail is stored; a chunk
that fails to decompress is dropped. The cache write is a task of its own
(`SpawnPut`, `RunPut`). `LogError` covers connections lost at any moment. The coalescer is
`CoalescerSpec`, which `Coalescer` is proved to implement.

### CircuitBreaker and BackendRouting

A breaker's methods run under the registry's lock for that breaker: a call is one step. The time of the
last failure is kept as an age, advanced by `Tick` and capped by `AgeCap`; the failure count is capped
by `CountCap`. `BreakerAssumption` makes both caps invisible: nothing distinguishes values beyond them.
`success_count` and `half_open_requests` are never read. A member of `Requests` is a slot carrying one
request after another. The candidate loop reads the breaker (`Choose`, `Skip`), then lockout and load
(`SkipOther`, a free refusal), then the semaphore (`TakePermit`, `NoPermit`), and only then replaces the
permit in the context (`Install`). Retries that drop the permit (profile fallback, same-request
rotation) and retries that keep it (429 rotation, reused connection) are distinct. A list of models
(`GET /v1/models`, the slots in `Listing`) goes to a backend without asking breaker, lockout or
semaphore; its failures are reported to the breaker, its successes are not, since `response_filter`
returns first (`ArriveModels`, `ModelsFail`, `ModelsOther`). So with an open breaker requests do reach
the upstream, against `docs/MIMO_ERROR_CODES.md:24`, and a backend whose lists keep failing is never
probed: `AlwaysProbed` excepts exactly that. `classify_failure` is called without a body and only for
5xx/408, so the kind is always `Transient`; `OnFailure` keeps the other kinds all the same.

### ModelLockout

One key; keys do not interact. Times are ticks; `Callers` are response handlers, the candidate loop,
the management API and the cleanup. `record_failure` is four steps: read the clock, count under the
entry's lock, compare with the lockout in place, insert. A count past the table's end behaves like
the last step and is capped there. `reports` is history, the failures counted so far: `LockEarned` bounds a
lockout by the step that many failures earn, though `clear` and expiry reset the registry's own count at
any moment. The cooldown a caller passes is only the counting window (`lockout_cooldown`); the run has
cooldowns above the longest step. `lock_until_midnight` is never called and left out.

### TieredCache

A task is a lookup, a store or an invalidation in one gateway, one step per access of a tier; any Redis
command may fail, and a scan may be cut short by its time limit. An entry carries the time it has left,
so time is unbounded; `Lag` bounds how long a lookup or a store takes. `age` and `purged` are history:
the time since an entry was stored, and since an invalidation that reported Ok and missed nothing
removed it from Redis. `clean` marks an invalidation that nothing overlapped. `Cancelled` is the client
that goes away while the handler awaits the job slot, between the flag and the spawned job. A lookup
that hits L0 takes the entry's expiry away (`HitL0`): `expire_after_read` returns `None`, which the
comment means as "no change" and moka 0.12 takes for "does not expire". Such an entry is held `Forever`,
until eviction or an invalidation in its own gateway; `AgeBounded` and `PurgedEverywhere` therefore
speak of Redis, of promotions under way, and of L0 copies not read since. The prefix index only decides
which keys a prefix names.

### Admission

One client token and one DeepSeek user id. Slots are `Arc`s: a guard keeps the one it took, whatever the
map holds later; `Unused` picks an identity no guard refers to. `sync_key` is one step (the entry's
write lock), `try_acquire` is a synchronisation, a lookup and a compare-exchange loop, the user
limiter's release is four steps because it lets go of the entry between looking and removing. `Writable`
is the read guard on `runtime.keys` that `request_filter.rs` holds while a refusal is sent. Rate limit,
project id and domain quota are free refusals. The user limiter is an enabled one (a limit of 0 is
unlimited); `configure`, which could disable it, is called by tests only. `calm` is history: `KeyLimit`
is stated for management calls one at a time, because two overlapping ones may synchronise the slot with
a key already replaced.

### ClientGate

Requests of one client whose key is put into and taken out of the key table (`FlipKey`: every refresh
clears and refills that table). The lockout's window and remaining time and the ages of stored answers
are counted in ticks and saturate where the code no longer distinguishes them. `clobbered` is history:
keys whose fresh answer was removed by a check that had seen the previous one expired. `Recent` is the
`pop_front` loop of both calls: it takes off the front what is older than the window.

### KeyPool

A pool is immutable but for the atomics of its slots. `HotReplace` (also the end of `merge_append` and
`remove_key`) shares the semaphore and copies the counter of every id that stays; `Reload`, the control
plane refresh, builds a slot from nothing for every id of the snapshot, whichever they are; `Install`
puts the new pool in place later, so a replacement may be built from a pool that is no longer current. A
guard remembers the pool, the key and the semaphore it came from. Cooldowns, bindings, accounts and
catalogues only exclude candidates: `Choose` takes any key. `renewed` is history.

### ControlPlane

Two of the six fields of the snapshot: client keys, which an apply clears and inserts one by one, and
domain policies, which it assigns. A management call changes the runtime and begins a save (`Build`,
`BuildPolicies`, one SET per field, INCR, PUBLISH; up to three attempts). Most calls spawn it
(`schedule_persist_state`); `put_domain_policies` awaits it in its handler, which is dropped at any of these
awaits when the client hangs up (`ClientGone`), with nothing to take the save up again. A gateway has a
start-up load and two refreshers, poller and subscriber, with a `last_version` each; both read the version,
then the fields, then apply; a refresher whose very first read fails starts from 0 (`StartUnread`).
`Fault`s (Redis errors, a lost connection of the subscriber, refused snapshots, hang-ups, crashes) are
bounded by `MaxFaults`. `touched`, `astray` and `harmed` are history and say which fields cannot be
expected to agree: those a save has written without counting the version, those a gateway changed
itself since its last load, and whether something happened that nothing in the code retries.

## 3. Runs

| run | instance | shows |
|---|---|---|
| `coalescer_same_key` | 4 requests, 1 key, 2 slots, 3 workers, 2 marks | types, one leader, exact slots, settled entries, visible failures, refinement of `CoalescerSpec` |
| `coalescer_wait` | 4 requests on 3 keys in 2 shards, 2 slots, 3 workers, fair | never more leaders than slots; every call of `acquire` returns, unless a loser has locked itself out |
| `phase_served` | 3 requests, 2 keys, legacy entries, empty errors, partial captures | what is served was captured from an answer to the same key that ended well |
| `routing_permits` | 2 requests and a list of models, 2 backends with 1 permit, 1 retry, thresholds 1 and 2 | permits exact, load of the candidate loop bounded, breaker shape |
| `routing_recovery` | a request, a stream and a list of models, 1 backend, thresholds 1 and 3, cooldown 2, fair | open breakers are probed, unless lists of models fail for ever, and close once the upstream answers |
| `lockout_bounded` | 2 callers, 3 steps, 5 ticks | a lockout is no longer than the failures reported warrant |
| `tiered_invalidation` | 2 gateways, 1 key, 2 tasks, times to live 1 and 2 | age of what is in Redis and in an unread L0, reach and time of an invalidation there, one full invalidation at a time |
| `admission_limits` | 2 requests, 2 managers, 2 slots, 2 names, limits 1 | counters cover the guards, the limit survives renames, user slots are removed |
| `control_refresh` | 1 gateway, 1 key, 2 saves at once, version 3, 1 fault, fair | version and content agree; when the calls end, gateway and store come to agree, unless something happened that nothing retries |
| `pool_replaced` | 3 requests, 1 key with 2 permits, 3 pools | the cap holds across replacements, no counter wraps |
| `gate_client` | 2 requests, 3 idempotency keys, room for 1, fair clock | bounded attempts, answers kept, bounded store, lockouts end |

One run is expected to end in a counterexample; it states what a comment says and exhibits a
behaviour of the code that does otherwise (the finding of `PROJECT.json`):

| run | what is said | what happens |
|---|---|---|
| `control_keys`, `KeysKept` | an empty key table is treated as uninitialised instead of being hot-reloaded (`redis_store.rs:178`) | a save that builds its snapshot between the clear and the inserts of an apply (`snapshot.rs:309`) writes an empty table itself, under a new version |

The times: `control_refresh` takes about three minutes, `pool_replaced` and `routing_permits` about one
each, the others less. `Converges` says that they agree, not on what: two gateways that change a field at
once leave the later save's value, and a gateway that loads between its own change and its save takes the
change back.

### Further configurations

These are kept for the reader, outside the list of runs in `PROJECT.json`. `control_two.cfg` checks what
`control_refresh.cfg` does for two gateways and one change, and passes (1.7 million states). All others end
in a counterexample; `tlc -config <name>.cfg MC...` shows it, `-continue` those of all properties in the file.

| cfg, property | what is said | what happens |
|---|---|---|
| `coalescer_late`, `ConcurrentOnly` | coalescing merges concurrent requests (`idempotency.rs:3`) | the entry outlives its leader; later requests follow it |
| `coalescer_occupied`, `LoserRetries` | the loser of the race retries as follower (`coalescing.rs:98`) | it read-locks a shard it has write-locked |
| `coalescer_starved`, `WaitEnds` | a wait ends with Timeout (the test at `coalescing.rs:326-333`) | with one worker, waiter and writer of a shard block everything, the timer included |
| `phase_legacy`, `NoStormEver` | followers of a failed leader do not call upstream (`docs/CURSOR_SETUP.md:238`) | they do if they find an unusable entry (`cache_coalesce.rs:289`), or if the leader failed with a 401 or 429 that is not marked |
| `phase_truncated`, `ServedIsWhole` | the tail kept of a long stream is for usage and log preview (`stream_capture.rs:3-5`), an oversized stream is cached as "JSON only" (`response_body.rs:845-848`) | `take()` forgets `over_limit`, the tail passes the length test and is cached and served |
| `phase_stampede`, `FollowersServed` | coalescing prevents a stampede (`README.md:96`) | followers are woken (`response_body.rs:450`) before the cache write is spawned |
| `routing_streaming`, `Recovers` | streaming success is reported in logging (`response_filter.rs:246-248`) | it is not: with streams alone an open breaker stays open |
| `routing_backoff`, `BackoffEscalates` | the timeout escalates after repeated cycles (`circuit_breaker.rs:9`) | the cycle count never exceeds 1 |
| `routing_rotation`, `RetryNotSelfBlocked` | the retry goes on with a new key (`rate_limit_retry.rs:161`) | it is refused the backend for want of its own permit |
| `lockout_shortened`, `NeverShortened` | a longer lockout is not overridden (`model_lockout.rs:103`) | it is, by a concurrent report |
| `lockout_lost`, `KeptUntilExpiry` | locked models are skipped (`model_lockout.rs:4`) | a reader that saw an expired entry removes the lockout just inserted (`model_lockout.rs:58`) |
| `lockout_cooldown`, `CooldownHonoured` | a long cooldown for 401 (`response_filter.rs:174`) | the cooldown only sets the counting window; the lockout lasts one backoff step |
| `tiered_expiry`, `ExpiresAsSet` | "the entry expires at its originally-set time" (`tiered.rs:70`, also `tiered.rs:37-38`) | the first read in L0 takes the expiry away; the entry stays until evicted |
| `tiered_flag`, `FlagReset` | the guard resets the flag even on panic (`management.rs:573`) | a handler cancelled before the guard exists leaves it up |
| `admission_user`, `UserLimitHolds` | per-user limits (`upstream_user_id_limiter.rs`) | a slot removed as empty while another request holds it is followed by a fresh one |
| `admission_claims`, `SlotJustSynced` | "slot just synced" (`client_key_limiter.rs:128`) | a revocation removes it in between |
| `admission_claims`, `SlotDrains` | a guard's drop gives its place back | after a rename it gives back to the old slot; the new one keeps the copied count |
| `admission_claims`, `GaugeExact` | requests in flight after admission (the gauge's help text) | refused requests lower it too (`logging.rs:42`) |
| `control_poll`, `PollMakesUp` | subscription and polling are two ways to refresh (`docs/PERSISTENCE.md:35`) | the message of the last save is lost, the poller loads that save, and a slow subscriber then applies the one before: both are content and the older stays |
| `pool_limit`, `HardLimit` | hard limit per key (`upstream_pool.rs:111`) | a refresh builds new semaphores next to the guards of the old ones |

### Bounds

The properties are about races of a few parties: two requests collide on a key, a third arrives in
the wake of the collision, and a fourth competes for the slot (`coalescer_same_key`, under symmetry). Three
keys and two slots leave one leader too many for the capacity check to refuse (`coalescer_wait`).
`MaxMarks = 2` lets a success be followed by a failure. Two permits or backends give a retry
somewhere else to go; one permit makes it collide. Thresholds 1 < 2 (or 3) pass through Closed,
Degraded and Open. Three backoff steps with levels 1 and 4 reach the first, the middle and the last
step; the clock bounds (`MaxNow`) are longer than the longest step plus a window. The proofs remove
the bounds for the safety properties of every module.

In `tiered_invalidation` two tasks suffice for an invalidation to meet a promotion or a store, two
gateways for a copy to survive in the other one, and two times to live for an entry to expire during a
lookup; time itself has no bound. In `admission_limits` limits of one make two requests compete, and two
slots and two names let a rename happen while the old slot is held (three slots were checked too). In
`pool_replaced` two permits and three requests leave one request waiting, and three pools let a
replacement be built from a pool that is replaced meanwhile. `control_refresh` has two saves, since
concurrent saves are what mixes fields, and a version bound that lets two of them finish; `Converges`
is about what happens after the management calls end, which the bound forces. `gate_client` has room
for one answer and three keys to overfill it.

`CHECK_DEADLOCK FALSE` is set where requests are finite and the
system may be done (coalescer, cache phase, admission, control plane), and for the key pool, where
the bound on pools may stop replacements; routing, lockout, tiered cache and client gate never stop and
are checked for deadlock.

### Fairness

`FairSpec` of the coalescer: weak fairness of each request's steps in `acquire` and of its guard. The
runtime polls ready tasks, timers fire, and a leader's guard is dropped with its request. A step
blocked on a shard lock or without a free worker is not enabled, so starvation is not assumed away
(`coalescer_starved` finds it). New requests need not come. `RoutingFairSpec`: time passes and every
slot keeps carrying requests; that the upstreams recover is not assumed but the premise of `Recovers`.
`FairSpec` of the control plane: spawned tasks, and the handlers of clients that stay, are run (`Save`,
`Refresh`, `Boot`), the poller's timer ticks and a delivered message is taken; management calls, hang-ups
and faults are nobody's duty, and a failing save is retried as often as the code does. `FairSpec`
of the client gate: time passes, nothing else; `LockoutEnds` needs no request to come or end.

## 4. Proofs

All proofs hold for every value of the constants within the named assumptions: `ConstantsOK`,
`PhaseConstantsOK`, `RoutingAssumption`, `BreakerAssumption`, `CooldownAssumption`, `LockoutAssumption`,
`TieredAssumption`, `AdmissionAssumption`, `GateAssumption`, `KeyPoolAssumption`, `ControlAssumption`. They
ask for finitely many requests where requests are counted, limits in the range the code accepts, ordered
thresholds and steps, markers such as `NoSlot` that are not values, and at least one key where `Init`
picks one. The bounds that keep TLC's state space finite (`MaxPools`, `MaxVersion`, `MaxFaults`, `MaxKeys`,
`MaxNow`) are any naturals there. TLC checked each inductive invariant on the run's instance first.

Every invariant of a run is proved, and every action property; each proof module has one invariant, a
lemma for each action or group of actions that disturb it, and the theorems at its end.

- `CoalescerProofs`. `CoalescerInv` strengthens the properties to an inductive invariant. It ties `pc`
  to what the request holds: which locks at which step, which entry, that a leader's entry is the one
  in the map, that whoever passed `Reserve` without refusal is counted, that a mark in progress is
  between its two stores. Without the last part `FailureSeen` is not inductive: a follower could be
  handed an entry whose failure is still to be stored. `CapacityRespected` needs more than the count:
  the number of slot holders beyond the check never exceeds `MaxInflight`, although the counter
  itself does for a moment. Theorems: `TypeCorrect`, `UniqueLeader`, `SlotAccounting`,
  `CapacityRespected`, `OutcomeVisible`, `NoOrphans`. `KeepsPromise` is the refinement: with the phases
  and outcomes read off the detailed state, the initial states correspond and every step is an abstract
  step or a stutter, one lemma per group of actions, from the invariant.
- `CachePhaseProofs`. `UsesPromise`: a request's way through the phases uses the coalescer by
  `CoalescerSpec` only; with `KeepsPromise` this is what allows the model to stand on the abstract one.
  `PhaseInv` adds to `ServedIsFinished` that what is stored, and what a spawned write is about to store, was
  captured from an answer to the key that ended well, and that such an answer is never rewritten.
  Theorems: `UsesPromise`, `PhaseTyped`, `CacheServesFinished`.
- `BackendRoutingProofs`. `RoutingInv` adds to types, `BreakerShape` and `PermitsExact` what the loop
  knows of its candidate (`LoopOK`): a request past `Choose` has one, and in `sent` its permit is of that
  backend; a list of models has no permit. `LoadRespected` follows since the attempts of the candidate loop in
  progress are among the permit holders.
  Theorems: `RoutingTypeCorrect`, `BreakersWellShaped`, `PermitAccounting`, `LoadRespected`.
- `LockoutProofs`, first part. `LockoutInv` adds that a clock reading kept by a caller is not later than
  now, and that the registry never counts more failures than were reported (`CountsPast`); then
  `LockoutsEarned` follows whatever the interleaving. Second part, on the client gate: `GateInv`
  counts the requests that are past a check and have not acted on it yet. While no lockout is set the
  attempts are below the limit; once one is set, attempts and requests past `check_lockout` together are
  below the limit and the number of requests (`AttemptsCovered`), since nobody else is let in until the
  expired lockout is cleared with its attempts. In the same way answers held and requests between length
  and insert are bounded together (`StoreCovered`). `SavedIsThere` is inductive as it stands.
  Theorems: `LockoutTyped`, `LockoutsEarned`, `GateTyped`, `FewAttempts`, `AnswersKept`, `StoreStaysSmall`.
- `KeyPoolProofs`. `KeyCap` counts holders of a key, but what the code bounds is a semaphore. The
  invariant therefore has a cap for every semaphore (`SemaphoreCap`), and that a key never renewed has only
  one, in every pool, guard and half-built replacement (`OneSemaphore`). `InflightCovers` is strengthened
  to pools no longer alive (`Covered`). Theorems: `PoolTyped`, `CapHolds`, `NoUnderflow`.
- `TieredCacheProofs`. `AgeBounded` follows an entry on its way: age and time left together are bounded
  in Redis by one time to live and the length of its store, in a promotion under way by the length of the
  lookup more, in an unread L0 by two times to live and twice the lag (`AgeInRedis`, `AgeInTasks`, `AgeInL0`).
  `PurgedEverywhere` is the same for the time since the purge, and needs that a purged entry never comes
  back to Redis (`PurgedFromRedis`), hence that what an invalidation is about to purge is not being stored
  and is gone for the keys it has dealt with (`OldNotStored`, `OldDeleted`). `InvalidationHolds` needs the
  analogue for an undisturbed invalidation under way (`CleanL0`, `CleanAlone`, `CleanRedis`).
  Theorems: `TieredTyped`, `AgesBounded`, `PurgesReach`, `InvalidationsHold`, `OneAtATime`.
- `ControlPlaneProofs`. `Refreshed` speaks of a gateway at rest; the invariant says what holds on the
  way. What a task has read under the present version is the store's, but for fields written since
  (`Loads`); once every refresher has applied the present version or is inserting it, table and keys still
  to be inserted make up the store's keys (`KeysMeet`); the start-up load counts as the last load until a
  refresher begins (`BootAlone`). `Versions` gives the reason why a load under an old version does no harm:
  a refresher at work has not recorded the present one. A save that ends anywhere, at a hang-up too, leaves
  only fields that count as `touched`. Theorems: `ControlTyped`, `GatewaysRefreshed`.
- `AdmissionProofs`. `NothingLost` is inductive together with the shape of a request (which guards it has
  at which stage) and `MapHeld`, which gives `NoSlotLeft`. `KeyLimit` takes more: while management calls do
  not overlap, a request that goes for a slot goes for the one in the map, which is the key's
  (`ReadersSynced`), and that slot's counter covers the holders of every slot the key has had (`KeyCovered`),
  because `sync_key` copies the counter on a rename. Theorems: `AdmissionTyped`, `NothingIsLost`,
  `KeyLimitHolds`, `SlotsLeave`.

Only model-checked: the liveness properties `AcquireReturns`, `AlwaysProbed`, `Recovers`, `Converges` and
`LockoutEnds`, which are out of the proof system's reach, and every counterexample.

## 5. Not modelled

See the components marked `not_modelled` in `PROJECT.json` with their reasons. The map covers a few
percent of the repository's lines, and most of what it leaves out has nothing for a model checker to
find: of about 129,000 lines the dashboard (a user interface, with its locale tables) and the admin
backend (CRUD over PostgreSQL and reporting) are the larger part, and translators, reasoning
normalisation, wire formats and pipelines rewrite JSON without shared state. What is mapped is most of
the code in which several tasks, threads or gateways meet.

Within the modelled files: metrics, logging, formatting and body rewriting; the ranking of backends
and the EWMA load figures (any order and any refusal is allowed instead); the semantic cache's
contents; stale-while-revalidate, which issues a request of its own; tokio's cooperative scheduling
budget; the token buckets of `client_key_rate_limiter.rs`; cooldowns, strikes, quotas and the saved
states of upstream keys; the prefix index and the job slot of the invalidations; recovery from
PostgreSQL and bootstrap keys at the start; the shard-by-shard read of the key table by a save (one step
here). `backend_load.prune_inactive` and `client_lockouts.cleanup`,
called in `crab-gateway/src/main.rs`, have no definition in the repository.

Of the key binding store, not modelled, two things are worth a reader's attention: the eviction
listener is given `key_sessions.clone()` (`key_binding.rs:91`), a copy of the map as in the coalescer, so
its decrements do not reach the counts that `least_loaded_key` reads until `reconcile_key_sessions`
rebuilds them; and `touch` re-inserts a binding that was removed after it had been read.
Weak memory is not modelled: the flags are stored with Release and loaded with Acquire, and the
counter is only used by atomic read-modify-write operations.

## 6. Plan

Done: the coalescer with its abstract specification, the cache phase on top of it, breaker and routing,
model lockout, tiered cache, admission, client gate, key pool and control plane; the safety properties of
all of them checked and proved.

Next, in this order:

1. Action properties over the same invariants: a slot counter or a permit changes only by the request
   that holds it; a gateway's recorded version never goes back while it lives; a settled entry of the
   coalescer stays settled.
2. The key binding store with the key pool; the session and chain stores, whose conversations are
   read, extended and written by concurrent turns; the refresh of OAuth tokens.
3. The candidate loop and the lockout registry composed; `CachePhase` over `TieredCache`.
