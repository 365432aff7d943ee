--------------------------- MODULE CircuitBreaker ---------------------------
(* One backend's circuit breaker (crates/crab-proxy/src/circuit_breaker.rs)  *)
(* as a record and the functions its methods compute on it.  The registry    *)
(* keeps each breaker behind a write lock, so a method call is one step of   *)
(* the module that uses it.  success_count is only ever incremented and      *)
(* half_open_requests is never read: both are left out.                      *)
EXTENDS Integers

CONSTANTS FailureThreshold,      \* failure_threshold (12)
          DegradationThreshold,  \* degradation_threshold (7)
          ResetTimeout,          \* reset_timeout, in ticks
          MaxBackoffMultiplier,  \* max_backoff_multiplier (4)
          BackoffEscalation,     \* backoff_escalation_count (3)
          CooldownByKind,        \* cooldown_by_kind: a function on some of the kinds
          CountCap,              \* bound: failure_count is not counted beyond it
          AgeCap                 \* bound: the age of a failure is not counted beyond it

FailureKinds == {"RateLimit", "QuotaExhausted", "Transient"}
NoKind == "none"
NoTime == -1        \* last_failure_time = None

\* A failure count past the threshold is never compared with anything but the
\* threshold, and an age only with a cooldown: these bounds hide nothing.
ASSUME BreakerAssumption ==
    /\ FailureThreshold \in Nat \ {0} /\ DegradationThreshold \in Nat \ {0}
    /\ DegradationThreshold < FailureThreshold /\ FailureThreshold <= CountCap
    /\ ResetTimeout \in Nat /\ MaxBackoffMultiplier \in Nat \ {0}
    /\ BackoffEscalation \in Nat /\ CountCap \in Nat /\ AgeCap \in Nat
    /\ ResetTimeout * MaxBackoffMultiplier <= AgeCap

ASSUME CooldownAssumption ==
    /\ DOMAIN CooldownByKind \subseteq FailureKinds
    /\ \A k \in DOMAIN CooldownByKind : CooldownByKind[k] \in 0..AgeCap

\* failures = failure_count, cycles = open_cycle_count, age = the time since
\* last_failure_time, kind = last_failure_kind.
Breakers == [state : {"Closed", "Degraded", "Open", "HalfOpen"},
             failures : 0..CountCap, cycles : Nat,
             age : {NoTime} \cup 0..AgeCap, kind : FailureKinds \cup {NoKind}]

NewBreaker == [state |-> "Closed", failures |-> 0, cycles |-> 0, age |-> NoTime, kind |-> NoKind]

Lesser(m, n) == IF m <= n THEN m ELSE n

EffectiveCooldown(b) ==
    IF b.kind \in DOMAIN CooldownByKind
    THEN CooldownByKind[b.kind]
    ELSE IF b.cycles <= BackoffEscalation
         THEN ResetTimeout
         ELSE Lesser(ResetTimeout * 2^Lesser(b.cycles - BackoffEscalation, 6),
                     ResetTimeout * MaxBackoffMultiplier)

ShouldTransitionToHalfOpen(b) ==
    b.state = "Open" /\ (b.age = NoTime \/ b.age >= EffectiveCooldown(b))

\* can_execute: an open breaker lets every request through once its cooldown is
\* over; nothing limits how many, and nothing is written.
CanExecute(b) == b.state # "Open" \/ ShouldTransitionToHalfOpen(b)

\* Variant: a reset that forgets the failure count.
ResetKeepsCount(b) == [NewBreaker EXCEPT !.failures = b.failures]

Reset(b) == NewBreaker

\* Variant: a success of an open breaker only counts down.
OnSuccessGradual(b) ==
    LET fewer == IF b.failures = 0 THEN 0 ELSE b.failures - 1
    IN  [b EXCEPT !.failures = fewer,
                  !.state = IF @ = "Degraded" /\ fewer <= DegradationThreshold
                            THEN "Closed" ELSE @]

OnSuccess(b) ==
    IF b.state \in {"Open", "HalfOpen"}
    THEN Reset(b)
    ELSE LET fewer == IF b.failures = 0 THEN 0 ELSE b.failures - 1
         IN  [b EXCEPT !.failures = fewer,
                       !.state = IF fewer <= DegradationThreshold THEN "Closed" ELSE @]

TransitionToOpen(b) == [b EXCEPT !.state = "Open", !.cycles = @ + 1]

\* The failure is counted and dated in every state, Open included: a late
\* failure restarts the cooldown.
Counted(b, kind) ==
    [b EXCEPT !.failures = Lesser(@ + 1, CountCap), !.age = 0, !.kind = kind]

Trips(c, kind) ==
    \/ kind = "QuotaExhausted"
    \/ c.state = "HalfOpen"
    \/ c.state \in {"Closed", "Degraded"} /\ c.failures >= FailureThreshold

OnFailure(b, kind) ==
    LET c == Counted(b, kind)
    IN  IF Trips(c, kind) THEN TransitionToOpen(c)
        ELSE IF c.state = "Closed" /\ c.failures >= DegradationThreshold
             THEN [c EXCEPT !.state = "Degraded"]
             ELSE c

\* Time passing, as elapsed() sees it.
Aged(b) == IF b.age = NoTime THEN b ELSE [b EXCEPT !.age = Lesser(@ + 1, AgeCap)]

\* What the state says of the counters.
WellShaped(b) ==
    \/ /\ b.state = "Closed" /\ b.cycles = 0
       /\ b.failures <= DegradationThreshold
    \/ /\ b.state = "Degraded" /\ b.cycles = 0
       /\ DegradationThreshold <= b.failures /\ b.failures < FailureThreshold
    \/ /\ b.state = "Open" /\ b.cycles >= 1 /\ b.age # NoTime
       /\ FailureThreshold <= b.failures
=============================================================================
