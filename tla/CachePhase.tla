---------------------------- MODULE CachePhase ----------------------------
(***************************************************************************)
(* A request's way through the exact cache, the coalescer and the upstream *)
(* (crab-proxy/src/phases: cache_coalesce.rs, then response_filter.rs,     *)
(* response_body.rs and logging.rs as far as the guard and the cache write *)
(* are concerned).  The coalescer is taken by its promise, CoalescerSpec.  *)
(*                                                                         *)
(* The tiered cache is one slot per key here: who wrote the entry, or      *)
(* Legacy for an entry the gateway finds but cannot use (an old Redis      *)
(* entry of the other stream mode, or one without visible content).        *)
(***************************************************************************)
EXTENDS Naturals, FiniteSets

CONSTANTS Requests, Keys, KeyOf, NoEntry, MaxInflight,
          Legacy,         \* an unusable cache entry
          LegacyPossible, \* whether Redis may hold such entries at start-up
          EmptyErrors     \* whether an upstream may refuse a stream with an empty body

ASSUME PhaseConstantsOK ==
    /\ IsFiniteSet(Requests)
    /\ NoEntry \notin Requests /\ Legacy \notin Requests /\ Legacy # NoEntry
    /\ KeyOf \in [Requests -> Keys]
    /\ MaxInflight \in Nat
    /\ LegacyPossible \in BOOLEAN /\ EmptyErrors \in BOOLEAN

VARIABLES phase, owner, outcome,   \* the coalescer (CoalescerSpec)
          stage,      \* where each request is in the proxy's phases
          cached,     \* the entry of each key
          puts,       \* requests whose spawned cache write has not run yet
          reply,      \* what the upstream answered to each request
          answer,     \* what the client of each request got
          source,     \* whose response a request served from the cache got
          sent,       \* history: requests that were sent upstream
          firstFail   \* history: keys whose leader failed before it announced anything

coalescer == <<phase, owner, outcome>>
proxyVars == <<stage, cached, puts, reply, answer, source, sent, firstFail>>
phaseVars == <<phase, owner, outcome, stage, cached, puts, reply, answer, source, sent, firstFail>>

C == INSTANCE CoalescerSpec

Stages  == {"probe", "ask", "waiting", "followed", "looked", "upstream", "eos",
            "closing", "dropping", "end"}
Replies == {"none", "ok", "partial", "uncached", "truncated", "error", "aborted"}
Answers == {"none", "cache", "semantic", "upstream", "502", "503"}

PhaseTypeOK ==
    /\ C!SpecTypeOK
    /\ stage \in [Requests -> Stages]
    /\ cached \in [Keys -> Requests \cup {NoEntry, Legacy}]
    /\ puts \in SUBSET Requests
    /\ reply \in [Requests -> Replies]
    /\ answer \in [Requests -> Answers]
    /\ source \in [Requests -> Requests \cup {NoEntry}]
    /\ sent \in SUBSET Requests
    /\ firstFail \in SUBSET Keys

PhaseInit ==
    /\ C!SpecInit
    /\ stage = [r \in Requests |-> "probe"]
    /\ cached \in [Keys -> IF LegacyPossible THEN {NoEntry, Legacy} ELSE {NoEntry}]
    /\ puts = {} /\ sent = {} /\ firstFail = {}
    /\ reply = [r \in Requests |-> "none"]
    /\ answer = [r \in Requests |-> "none"]
    /\ source = [r \in Requests |-> NoEntry]
-----------------------------------------------------------------------------
At(r, s) == stage[r] = s
Enter(r, s) == stage' = [stage EXCEPT ![r] = s]

Usable(e) == e \in Requests

\* send_cached_response succeeded: the request is over.
ServeFrom(r, e) ==
    /\ Enter(r, "end")
    /\ answer' = [answer EXCEPT ![r] = "cache"]
    /\ source' = [source EXCEPT ![r] = e]
    /\ UNCHANGED sent

\* CachePhaseOutcome::Continue: the request goes on to the upstream.
GoUpstream(r) ==
    /\ Enter(r, "upstream")
    /\ sent' = sent \cup {r}
    /\ UNCHANGED <<answer, source>>

\* An error response ends the request in this phase.
Refused(r, status) ==
    /\ Enter(r, "end")
    /\ answer' = [answer EXCEPT ![r] = status]
    /\ UNCHANGED <<source, sent>>
-----------------------------------------------------------------------------
(* cache_coalesce.rs                                                       *)

\* Variant: any entry found is served, whatever its stream mode.
ProbeUnchecked(r) ==
    /\ At(r, "probe")
    /\ IF cached[KeyOf[r]] # NoEntry
       THEN ServeFrom(r, cached[KeyOf[r]])
       ELSE Enter(r, "ask") /\ UNCHANGED <<answer, source, sent>>
    /\ UNCHANGED <<coalescer, cached, puts, reply, firstFail>>

\* L0/L1 lookup.  A usable entry ends the request; one of the other stream
\* mode, or a hollow one, counts as a miss.
Probe(r) ==
    /\ At(r, "probe")
    /\ IF Usable(cached[KeyOf[r]])
       THEN ServeFrom(r, cached[KeyOf[r]])
       ELSE Enter(r, "ask") /\ UNCHANGED <<answer, source, sent>>
    /\ UNCHANGED <<coalescer, cached, puts, reply, firstFail>>

\* try_l2_semantic_cache answers the request (its store is outside this model).
SemanticHit(r) ==
    /\ At(r, "ask")
    /\ Refused(r, "semantic")
    /\ UNCHANGED <<coalescer, cached, puts, reply, firstFail>>

\* coalescer.acquire is called ...
AcquireGuard(r) ==
    /\ At(r, "ask") /\ C!Ask(r)
    /\ Enter(r, "waiting")
    /\ UNCHANGED <<cached, puts, reply, answer, source, sent, firstFail>>

\* ... and makes the request the leader: ctx.coalesce_guard is set.
BecomeLeader(r) ==
    /\ At(r, "waiting") /\ C!Lead(r)
    /\ GoUpstream(r)
    /\ UNCHANGED <<cached, puts, reply, firstFail>>

\* ... or a follower of a leader that has settled.
BecomeFollower(r) ==
    /\ At(r, "waiting") /\ C!Follow(r)
    /\ Enter(r, "followed")
    /\ UNCHANGED <<cached, puts, reply, answer, source, sent, firstFail>>

\* ... or fails with Timeout: proceed without coalescing.
WaitTimedOut(r) ==
    /\ At(r, "waiting") /\ C!GiveUp(r)
    /\ GoUpstream(r)
    /\ UNCHANGED <<cached, puts, reply, firstFail>>

\* ... or with CapacityExceeded: 503.
NoCapacity(r) ==
    /\ At(r, "waiting") /\ C!Refuse(r)
    /\ Refused(r, "503")
    /\ UNCHANGED <<cached, puts, reply, firstFail>>

\* The follower's get_silent.  An entry it cannot use sends it upstream without
\* a look at leader_failed(): that test is on the branch of an absent entry.
FollowerLookup(r) ==
    /\ At(r, "followed")
    /\ LET e == cached[KeyOf[r]]
       IN  \/ Usable(e) /\ ServeFrom(r, e)
           \/ e = Legacy /\ GoUpstream(r)
           \/ e = NoEntry /\ Enter(r, "looked") /\ UNCHANGED <<answer, source, sent>>
    /\ UNCHANGED <<coalescer, cached, puts, reply, firstFail>>

\* Nothing in the cache: 502 after a failed leader, upstream after any other.
FollowerMiss(r) ==
    /\ At(r, "looked")
    /\ IF outcome[KeyOf[r]] = "fail" THEN Refused(r, "502") ELSE GoUpstream(r)
    /\ UNCHANGED <<coalescer, cached, puts, reply, firstFail>>
-----------------------------------------------------------------------------
(* The upstream's answer: response_filter.rs, response_body.rs             *)

IsLeader(r) == phase[r] = "leader"

\* mark_completed or mark_failed, if the request holds a guard at all.
Mark(r, o) ==
    IF IsLeader(r) /\ (outcome[KeyOf[r]] = "none" \/ o = "fail")
    THEN C!Settle(r, o) ELSE UNCHANGED coalescer

\* The leader's request has failed.
Fails(r) ==
    firstFail' = IF IsLeader(r) /\ outcome[KeyOf[r]] = "none"
                 THEN firstFail \cup {KeyOf[r]} ELSE firstFail

Replied(r, kind) ==
    /\ reply' = [reply EXCEPT ![r] = kind]
    /\ answer' = [answer EXCEPT ![r] = "upstream"]

\* A status of 400 or more: mark_failed in response_filter, no cache write.
UpstreamError(r) ==
    /\ At(r, "upstream")
    /\ Mark(r, "fail") /\ Fails(r) /\ Replied(r, "error")
    /\ Enter(r, "closing")
    /\ UNCHANGED <<cached, puts, source, sent>>

\* 401, or 429 of a request without an upstream key: response_filter returns
\* before its mark_failed, and the error body is passed on without a mark.
UpstreamErrorUnmarked(r) ==
    /\ At(r, "upstream")
    /\ Fails(r) /\ Replied(r, "error")
    /\ Enter(r, "closing")
    /\ UNCHANGED <<coalescer, cached, puts, source, sent>>

\* The same on a streaming request with an empty chunked body: the body filter is
\* called once, without data, none of its branches for errors takes that, and
\* the answer ends like a stream, with mark_completed.
UpstreamErrorEmpty(r) ==
    /\ EmptyErrors /\ At(r, "upstream")
    /\ Mark(r, "ok") /\ Fails(r) /\ Replied(r, "error")
    /\ Enter(r, "closing")
    /\ UNCHANGED <<cached, puts, source, sent>>

\* What the capture of a finished answer holds when it is taken for the cache:
\* the whole body, or a part of it.  A stream over max_sse_cache_bytes is trimmed
\* to its last 64 KiB, which passes the length test because take() forgets
\* over_limit; a chunk that fails to decompress is dropped and the rest kept.
Captured == {"ok", "partial"}

\* The answer ended well: mark_completed first, the cache write comes after it.
UpstreamOk(r) ==
    /\ At(r, "upstream")
    /\ Mark(r, "ok")
    /\ \E kind \in Captured : Replied(r, kind)
    /\ Enter(r, "eos")
    /\ UNCHANGED <<cached, puts, source, sent, firstFail>>

\* Variant: the truncated body is handed on to the cache write as well.
UpstreamNotCachedStored(r) ==
    /\ At(r, "upstream")
    /\ Mark(r, "ok")
    /\ \E kind \in {"truncated", "uncached"} : Replied(r, kind)
    /\ Enter(r, "eos")
    /\ UNCHANGED <<cached, puts, source, sent, firstFail>>

\* Completed, but nothing is cached: a body that is not a stream outgrew the
\* memory limit (the client gets an error instead of it), stream caching is off,
\* or the stream had no visible content.
UpstreamNotCached(r) ==
    /\ At(r, "upstream")
    /\ Mark(r, "ok")
    /\ \E kind \in {"truncated", "uncached"} : Replied(r, kind)
    /\ Enter(r, "closing")
    /\ UNCHANGED <<cached, puts, source, sent, firstFail>>

\* tokio::spawn of tiered_cache.put.
SpawnPut(r) ==
    /\ At(r, "eos")
    /\ puts' = puts \cup {r}
    /\ Enter(r, "closing")
    /\ UNCHANGED <<coalescer, cached, reply, answer, source, sent, firstFail>>

\* The spawned task runs, at any later time.
RunPut(r) ==
    /\ r \in puts
    /\ puts' = puts \ {r}
    /\ cached' = [cached EXCEPT ![KeyOf[r]] = r]
    /\ UNCHANGED <<coalescer, stage, reply, answer, source, sent, firstFail>>
-----------------------------------------------------------------------------
(* logging.rs and the end of the request context                           *)

\* The request ends well.
LogDone(r) ==
    /\ At(r, "closing")
    /\ Enter(r, "dropping")
    /\ UNCHANGED <<coalescer, cached, puts, reply, answer, source, sent, firstFail>>

\* The request ends with an error (the upstream or the client went away, also
\* after the last byte): mark_failed.
LogError(r) ==
    /\ stage[r] \in {"upstream", "closing"}
    /\ Mark(r, "fail") /\ Fails(r)
    /\ reply' = [reply EXCEPT ![r] = IF @ = "none" THEN "aborted" ELSE @]
    /\ answer' = [answer EXCEPT ![r] = "upstream"]
    /\ Enter(r, "dropping")
    /\ UNCHANGED <<cached, puts, source, sent>>

\* The context is dropped, and the guard with it; a leader that was not marked
\* is marked failed first.
DropContext(r) ==
    /\ At(r, "dropping")
    /\ IF IsLeader(r) /\ outcome[KeyOf[r]] = "none"
       THEN Mark(r, "fail") /\ UNCHANGED stage
       ELSE /\ IF IsLeader(r) THEN C!Retire(r) ELSE UNCHANGED coalescer
            /\ Enter(r, "end")
    /\ UNCHANGED <<cached, puts, reply, answer, source, sent, firstFail>>

\* TTL expiry, eviction or invalidation of a key's entry.
EntryGone(k) ==
    /\ cached[k] # NoEntry
    /\ cached' = [cached EXCEPT ![k] = NoEntry]
    /\ UNCHANGED <<coalescer, stage, puts, reply, answer, source, sent, firstFail>>
-----------------------------------------------------------------------------
RequestStep(r) ==
    \/ Probe(r) \/ SemanticHit(r) \/ AcquireGuard(r) \/ BecomeLeader(r) \/ BecomeFollower(r)
    \/ WaitTimedOut(r) \/ NoCapacity(r) \/ FollowerLookup(r) \/ FollowerMiss(r)
    \/ UpstreamError(r) \/ UpstreamErrorUnmarked(r) \/ UpstreamErrorEmpty(r) \/ UpstreamOk(r)
    \/ UpstreamNotCached(r) \/ SpawnPut(r) \/ RunPut(r) \/ LogDone(r) \/ LogError(r) \/ DropContext(r)

PhaseNext == (\E r \in Requests : RequestStep(r)) \/ (\E k \in Keys : EntryGone(k))

PhaseSpec == PhaseInit /\ [][PhaseNext]_phaseVars
-----------------------------------------------------------------------------
(* Properties                                                              *)

\* What a client gets from the cache was captured from a successful answer that
\* the upstream had finished, to a request for the same key, whoever wrote it and
\* whenever: errors, oversized bodies that are not streams, and aborted streams
\* never reach the cache (response_body.rs:420, logging.rs:44).
ServedIsFinished ==
    \A r \in Requests :
        answer[r] = "cache" => /\ source[r] \in Requests
                               /\ KeyOf[source[r]] = KeyOf[r]
                               /\ reply[source[r]] \in Captured

\* What a client gets from the cache is the whole answer: the tail kept of a long
\* stream is for "response.completed synthesis, usage fallback, and log preview"
\* (stream_capture.rs:3-5), and a stream over the limit is cached as "JSON only"
\* (response_body.rs:845-848).
ServedIsWhole ==
    \A r \in Requests, e \in Requests :
        answer[r] = "cache" /\ source[r] = e => reply[e] = "ok"

\* Nobody but requests that had stopped waiting is sent upstream after the leader
\* of their key failed ("will not call the upstream again", CURSOR_SETUP.md:238).
NoStormEver ==
    \A r \in sent :
        KeyOf[r] \in firstFail /\ owner[KeyOf[r]] # r => phase[r] = "timedOut"

\* Coalescing keeps a stampede off the upstream: nobody who followed a leader is
\* sent upstream while the leader's response is on its way into the cache.
FollowersServed ==
    \A r \in sent, e \in Requests :
        phase[r] = "follower" /\ owner[KeyOf[r]] = e => stage[e] # "eos" /\ e \notin puts
=============================================================================
