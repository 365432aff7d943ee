--------------------------- MODULE BackendRouting ---------------------------
(***************************************************************************)
(* How a request is given a backend and what its answer does to that       *)
(* backend's health: the candidate loop of phases/upstream_peer.rs, the    *)
(* semaphore of backend_state.rs, and the parts of response_filter.rs,     *)
(* rate_limit_retry.rs and proxy.rs that report to the circuit breaker or  *)
(* send the same request round again.                                      *)
(*                                                                         *)
(* A member of Requests is a slot that carries one request after another.  *)
(* The registry creates a breaker when it is first reported to and allows  *)
(* every request until then, so an absent breaker is a new one.  The       *)
(* concurrency limit is on (backend_concurrency_limit_enabled).            *)
(***************************************************************************)
EXTENDS CircuitBreaker, FiniteSets

CONSTANTS Requests, Backends, NoBackend,
          MaxInflight,   \* default_max_inflight_per_backend
          MaxRetries,    \* pingora's max_retries: attempts after the first one
          Streaming,     \* the requests that asked for an SSE answer
          Listing,       \* the requests for the list of models (is_models_list)
          OtherSkips     \* may a candidate be locked out or overloaded?

ASSUME RoutingAssumption ==
    /\ IsFiniteSet(Requests) /\ NoBackend \notin Backends
    /\ MaxInflight \in Nat \ {0} /\ MaxRetries \in Nat
    /\ Streaming \subseteq Requests /\ Listing \subseteq Requests /\ OtherSkips \in BOOLEAN

VARIABLES breaker,       \* breaker[b]: CircuitBreakerRegistry.breakers
          avail,         \* avail[b]: permits left in the backend's semaphore
          permit,        \* permit[r]: ctx.backend_permit
          pc, cand,      \* the request's step and its candidate
          left,          \* ranked backends the loop has not looked at yet
          tries,         \* attempts the proxy loop still allows
          up,            \* environment: the upstreams have recovered for good
          failedProbes   \* history: failures of an open breaker past its cooldown,
                         \* since the breaker last closed

routingVars == <<breaker, avail, permit, pc, cand, left, tries, up, failedProbes>>

\* "granted": the permit is in the local variable backend_permit, not yet in ctx;
\* "listing": the backend was asked for its models.
RoutingSteps == {"idle", "select", "chosen", "granted", "sent", "listing", "done"}

RoutingTypeOK ==
    /\ breaker \in [Backends -> Breakers]
    /\ avail \in [Backends -> 0..MaxInflight]
    /\ permit \in [Requests -> Backends \cup {NoBackend}]
    /\ pc \in [Requests -> RoutingSteps]
    /\ cand \in [Requests -> Backends \cup {NoBackend}]
    /\ left \in [Requests -> SUBSET Backends]
    /\ tries \in [Requests -> 0..MaxRetries]
    /\ up \in BOOLEAN
    /\ failedProbes \in [Backends -> 0..(BackoffEscalation + 1)]

RoutingInit ==
    /\ breaker = [b \in Backends |-> NewBreaker]
    /\ avail = [b \in Backends |-> MaxInflight]
    /\ permit = [r \in Requests |-> NoBackend]
    /\ pc = [r \in Requests |-> "idle"]
    /\ cand = [r \in Requests |-> NoBackend]
    /\ left = [r \in Requests |-> {}]
    /\ tries = [r \in Requests |-> 0]
    /\ up = FALSE
    /\ failedProbes = [b \in Backends |-> 0]

Goto(r, step) == pc' = [pc EXCEPT ![r] = step]

\* Dropping a BackendPermit gives it back to the semaphore it came from.
GiveBack(b) == [x \in Backends |-> IF x = b THEN avail[x] + 1 ELSE avail[x]]

\* The ranking (ketama, P2C, least used, score) only orders the candidates; the
\* loop below takes them in any order.
StartSelection(r) ==
    /\ left' = [left EXCEPT ![r] = Backends]
    /\ cand' = [cand EXCEPT ![r] = NoBackend]
    /\ Goto(r, "select")

Arrive(r) ==
    /\ pc[r] = "idle" /\ r \notin Listing
    /\ StartSelection(r)
    /\ tries' = [tries EXCEPT ![r] = MaxRetries]
    /\ UNCHANGED <<breaker, avail, permit, up, failedProbes>>

\* Variant: a rejected request counts as one more failure of the backend.
SkipCounts(r) == \E b \in left[r] :
    /\ pc[r] = "select" /\ ~CanExecute(breaker[b])
    /\ left' = [left EXCEPT ![r] = @ \ {b}]
    /\ breaker' = [breaker EXCEPT ![b] = OnFailure(@, "Transient")]
    /\ UNCHANGED <<avail, permit, pc, cand, tries, up, failedProbes>>

\* The candidate loop: the breaker is read first ...
Skip(r) == \E b \in left[r] :
    /\ pc[r] = "select" /\ ~CanExecute(breaker[b])
    /\ left' = [left EXCEPT ![r] = @ \ {b}]
    /\ UNCHANGED <<breaker, avail, permit, pc, cand, tries, up, failedProbes>>

Choose(r) == \E b \in left[r] :
    /\ pc[r] = "select" /\ CanExecute(breaker[b])
    /\ left' = [left EXCEPT ![r] = @ \ {b}]
    /\ cand' = [cand EXCEPT ![r] = b]
    /\ Goto(r, "chosen")
    /\ UNCHANGED <<breaker, avail, permit, tries, up, failedProbes>>

\* ... then the model lockout and the load state, which may refuse it ...
SkipOther(r) ==
    /\ pc[r] = "chosen" /\ OtherSkips
    /\ Goto(r, "select")
    /\ UNCHANGED <<breaker, avail, permit, cand, left, tries, up, failedProbes>>

\* ... then the semaphore.
NoPermit(r) ==
    /\ pc[r] = "chosen" /\ avail[cand[r]] = 0
    /\ Goto(r, "select")
    /\ UNCHANGED <<breaker, avail, permit, cand, left, tries, up, failedProbes>>

\* Variant: a backend without permits is used all the same.
TakePermitBlindly(r) ==
    /\ pc[r] = "chosen"
    /\ avail' = [avail EXCEPT ![cand[r]] = IF @ = 0 THEN 0 ELSE @ - 1]
    /\ Goto(r, "granted")
    /\ UNCHANGED <<breaker, permit, cand, left, tries, up, failedProbes>>

TakePermit(r) ==
    /\ pc[r] = "chosen" /\ avail[cand[r]] > 0
    /\ avail' = [avail EXCEPT ![cand[r]] = @ - 1]
    /\ Goto(r, "granted")
    /\ UNCHANGED <<breaker, permit, cand, left, tries, up, failedProbes>>

\* ctx.backend_permit = backend_permit: a permit that an earlier attempt left in
\* the context is dropped only now.
Install(r) ==
    /\ pc[r] = "granted"
    /\ permit' = [permit EXCEPT ![r] = cand[r]]
    /\ avail' = GiveBack(permit[r])
    /\ Goto(r, "sent")
    /\ UNCHANGED <<breaker, cand, left, tries, up, failedProbes>>

\* Every candidate was passed over: ConnectProxyFailure.
Refuse(r) ==
    /\ pc[r] = "select" /\ left[r] = {}
    /\ Goto(r, "done")
    /\ UNCHANGED <<breaker, avail, permit, cand, left, tries, up, failedProbes>>

\* How an answered or broken attempt goes on: it is over ...
EndAttempt(r) == Goto(r, "done") /\ UNCHANGED <<avail, permit, cand, left, tries>>

\* ... or the proxy loop runs it again.  The 429 rotation and pingora's retry on
\* a reused connection leave the permit in the context ...
RetryHolding(r) ==
    /\ tries[r] > 0
    /\ tries' = [tries EXCEPT ![r] = @ - 1]
    /\ StartSelection(r)
    /\ UNCHANGED <<avail, permit>>

\* Variant: the permit is forgotten instead of dropped.
RetryReleasingLeaks(r) ==
    /\ tries[r] > 0
    /\ tries' = [tries EXCEPT ![r] = @ - 1]
    /\ StartSelection(r)
    /\ permit' = [permit EXCEPT ![r] = NoBackend]
    /\ UNCHANGED avail

\* Variant: the permit is given back and kept.
RetryReleasingTwice(r) ==
    /\ tries[r] > 0
    /\ tries' = [tries EXCEPT ![r] = @ - 1]
    /\ StartSelection(r)
    /\ avail' = GiveBack(permit[r])
    /\ UNCHANGED permit

\* ... the profile fallback and the same-request key rotation drop it.
RetryReleasing(r) ==
    /\ tries[r] > 0
    /\ tries' = [tries EXCEPT ![r] = @ - 1]
    /\ StartSelection(r)
    /\ permit' = [permit EXCEPT ![r] = NoBackend]
    /\ avail' = GiveBack(permit[r])

\* status < 400.  The breaker hears of it only if the answer is not a stream.
RespondOk(r) ==
    /\ pc[r] = "sent"
    /\ breaker' = IF r \in Streaming THEN breaker
                  ELSE [breaker EXCEPT ![cand[r]] = OnSuccess(@)]
    /\ failedProbes' = IF r \in Streaming THEN failedProbes
                       ELSE [failedProbes EXCEPT ![cand[r]] = 0]
    /\ EndAttempt(r)
    /\ UNCHANGED up

\* 408, 500, 502, 503, 504: classify_failure(status, None) is always Transient.
RespondFail(r) ==
    /\ pc[r] = "sent" /\ ~up
    /\ breaker' = [breaker EXCEPT ![cand[r]] = OnFailure(@, "Transient")]
    /\ failedProbes' = [failedProbes EXCEPT ![cand[r]] =
           IF ShouldTransitionToHalfOpen(breaker[cand[r]])
           THEN Lesser(@ + 1, BackoffEscalation + 1) ELSE @]
    /\ EndAttempt(r) \/ RetryHolding(r) \/ RetryReleasing(r)
    /\ UNCHANGED up

\* 401, 429, another 4xx, a failed connection or a client that leaves: none of
\* them is reported to the breaker.
RespondOther(r) ==
    /\ pc[r] = "sent" /\ ~up
    /\ EndAttempt(r) \/ RetryHolding(r) \/ RetryReleasing(r)
    /\ UNCHANGED <<breaker, up, failedProbes>>

\* A list of models is asked of the backend the ring names, whatever its breaker,
\* its lockout and its semaphore say.
ArriveModels(r) ==
    /\ pc[r] = "idle" /\ r \in Listing
    /\ \E b \in Backends : cand' = [cand EXCEPT ![r] = b]
    /\ tries' = [tries EXCEPT ![r] = MaxRetries]
    /\ Goto(r, "listing")
    /\ UNCHANGED <<breaker, avail, permit, left, up, failedProbes>>

\* The attempt is over, or made again with another key or profile.
EndListing(r) ==
    \/ Goto(r, "done") /\ UNCHANGED <<cand, tries>>
    \/ /\ tries[r] > 0
       /\ tries' = [tries EXCEPT ![r] = @ - 1]
       /\ \E b \in Backends : cand' = [cand EXCEPT ![r] = b]
       /\ UNCHANGED pc

\* 408 or 5xx: reported to the breaker like any other ...
ModelsFail(r) ==
    /\ pc[r] = "listing" /\ ~up
    /\ breaker' = [breaker EXCEPT ![cand[r]] = OnFailure(@, "Transient")]
    /\ failedProbes' = [failedProbes EXCEPT ![cand[r]] =
           IF ShouldTransitionToHalfOpen(breaker[cand[r]])
           THEN Lesser(@ + 1, BackoffEscalation + 1) ELSE @]
    /\ EndListing(r)
    /\ UNCHANGED <<avail, permit, left, up>>

\* ... whereas response_filter returns before a success is: nothing is reported
\* then, nor of another error.
ModelsOther(r) ==
    /\ pc[r] = "listing"
    /\ EndListing(r)
    /\ UNCHANGED <<breaker, avail, permit, left, up, failedProbes>>

\* The request's context is dropped, and its permit with it.
Finish(r) ==
    /\ pc[r] = "done"
    /\ permit' = [permit EXCEPT ![r] = NoBackend]
    /\ avail' = GiveBack(permit[r])
    /\ cand' = [cand EXCEPT ![r] = NoBackend]
    /\ left' = [left EXCEPT ![r] = {}]
    /\ tries' = [tries EXCEPT ![r] = 0]
    /\ Goto(r, "idle")
    /\ UNCHANGED <<breaker, up, failedProbes>>

Tick ==
    /\ breaker' = [b \in Backends |-> Aged(breaker[b])]
    /\ UNCHANGED <<avail, permit, pc, cand, left, tries, up, failedProbes>>

\* The environment's promise: from some point on every attempt is answered well.
Recover ==
    /\ ~up /\ up' = TRUE
    /\ UNCHANGED <<breaker, avail, permit, pc, cand, left, tries, failedProbes>>

RoutingStep(r) ==
    \/ Arrive(r) \/ Skip(r) \/ Choose(r) \/ SkipOther(r) \/ NoPermit(r) \/ TakePermit(r)
    \/ Install(r) \/ Refuse(r) \/ RespondOk(r) \/ RespondFail(r) \/ RespondOther(r)
    \/ ArriveModels(r) \/ ModelsFail(r) \/ ModelsOther(r) \/ Finish(r)

RoutingNext == (\E r \in Requests : RoutingStep(r)) \/ Tick \/ Recover

RoutingSpec == RoutingInit /\ [][RoutingNext]_routingVars

\* Time passes, requests keep coming and the runtime runs every one of them.
\* Whether the upstreams ever recover is left open.
RoutingFairness ==
    /\ WF_routingVars(Tick)
    /\ \A r \in Requests : WF_routingVars(RoutingStep(r))

RoutingFairSpec == RoutingSpec /\ RoutingFairness
-----------------------------------------------------------------------------
\* The counters and the state agree after any interleaving of reports: Closed
\* up to the degradation threshold, Degraded from there to the failure
\* threshold, Open above, dated and with an open cycle counted, and never
\* HalfOpen (on_success, on_failure).
BreakerShape == \A b \in Backends : WellShaped(breaker[b])

\* The holders of a permit of b's semaphore, in a context or on the way into it.
InContext(b) == {r \in Requests : permit[r] = b}
OnTheWay(b) == {r \in Requests : pc[r] = "granted" /\ cand[r] = b}

\* Through retries, rotations and drops no permit is lost or given back twice
\* (BackendPermit's drop, reset_upstream_state_for_retry, upstream_peer).
PermitsExact ==
    \A b \in Backends :
        avail[b] + Cardinality(InContext(b)) + Cardinality(OnTheWay(b)) = MaxInflight

\* No backend ever serves more attempts of the candidate loop at once than
\* max_inflight (try_acquire).  Lists of models come on top: they take no permit.
LoadBounded ==
    \A b \in Backends :
        Cardinality({r \in Requests : pc[r] = "sent" /\ cand[r] = b}) <= MaxInflight

\* An open breaker always comes to let a probe through, although every failure
\* restarts its cooldown (circuit_breaker.rs:142): the requests that were on
\* their way when it opened run out.  Only lists of models, which it does not
\* stop, can keep it shut, by failing for ever.
AlwaysProbed ==
    \A b \in Backends :
        \/ (breaker[b].state = "Open") ~> CanExecute(breaker[b])
        \/ []<><<\E r \in Listing : cand[r] = b /\ ModelsFail(r)>>_routingVars

\* Once the upstreams answer well again, every breaker closes for good, as long
\* as requests that are not streams come as well (on_success): an open breaker
\* lets them through and their success closes it.
Recovers == (<>up) => <>[](\A b \in Backends : breaker[b].state = "Closed")

\* "Adaptive backoff escalates timeout after repeated OPEN cycles": a breaker
\* whose probes keep failing waits longer (effective_cooldown).
BackoffEscalates ==
    \A b \in Backends : failedProbes[b] > BackoffEscalation
                           => EffectiveCooldown(breaker[b]) > ResetTimeout

\* A retried attempt is never passed over because of the permit that the
\* request itself holds (rate_limit_retry's rotation, try_acquire).
RetryNotSelfBlocked ==
    \A r \in Requests :
        ~(pc[r] = "chosen" /\ permit[r] = cand[r] /\ InContext(cand[r]) = {r}
          /\ OnTheWay(cand[r]) = {} /\ avail[cand[r]] = 0)
=============================================================================
