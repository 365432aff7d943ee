------------------------ MODULE BackendRoutingProofs ------------------------
(***************************************************************************)
(* The invariants of BackendRouting for any number of requests, backends,  *)
(* permits, retries and any thresholds.                                    *)
(***************************************************************************)
EXTENDS BackendRouting, FiniteSetTheorems, TLAPS

\* Where the candidate loop is with its candidate and its permit.
LoopOK ==
    \A r \in Requests :
        /\ pc[r] \in {"chosen", "granted", "sent", "listing"} => cand[r] \in Backends
        /\ pc[r] = "sent" => permit[r] = cand[r]

RoutingInv == RoutingTypeOK /\ LoopOK /\ BreakerShape /\ PermitsExact

-----------------------------------------------------------------------------
\* What the proofs need of the breaker's constants.
LEMMA Thresholds ==
    /\ FailureThreshold \in Nat /\ DegradationThreshold \in Nat
    /\ 0 < DegradationThreshold /\ DegradationThreshold < FailureThreshold
    /\ CountCap \in Nat /\ FailureThreshold <= CountCap
    /\ AgeCap \in Nat
  BY BreakerAssumption

\* The fields of a breaker.
LEMMA BreakerFields ==
    ASSUME NEW b \in Breakers
    PROVE  /\ b.state \in {"Closed", "Degraded", "Open", "HalfOpen"}
           /\ b.failures \in 0..CountCap /\ b.cycles \in Nat
  BY DEF Breakers

\* A breaker stays well shaped through on_success.
LEMMA SuccessShape ==
    ASSUME NEW b \in Breakers, WellShaped(b)
    PROVE  OnSuccess(b) \in Breakers /\ WellShaped(OnSuccess(b))
  <1> USE Thresholds
  <1>0. b.failures \in 0..CountCap /\ b.cycles \in Nat
    BY BreakerFields
  <1>1. CASE b.state \in {"Open", "HalfOpen"}
    BY <1>1 DEF Breakers, WellShaped, OnSuccess, Reset, NewBreaker, NoTime, NoKind
  <1>2. CASE b.state \notin {"Open", "HalfOpen"}
    <2> DEFINE fewer == IF b.failures = 0 THEN 0 ELSE b.failures - 1
               st == IF fewer <= DegradationThreshold THEN "Closed" ELSE b.state
               c == [b EXCEPT !.failures = fewer, !.state = st]
    <2>1. OnSuccess(b) = c
      BY <1>2 DEF OnSuccess
    <2>2. fewer \in 0..CountCap /\ fewer <= b.failures
      BY <1>0
    <2>3. /\ st \in {"Closed", "Degraded"}
          /\ st = "Closed" => fewer <= DegradationThreshold
          /\ st = "Degraded" => DegradationThreshold <= fewer /\ fewer < FailureThreshold
          /\ b.cycles = 0
      BY <1>0, <1>2 DEF WellShaped
    <2> HIDE DEF fewer, st
    <2>4. /\ c \in Breakers
          /\ c.state = st /\ c.failures = fewer /\ c.cycles = 0
      BY <2>2, <2>3 DEF Breakers
    <2> QED BY <2>1, <2>3, <2>4 DEF WellShaped
  <1> QED BY <1>1, <1>2

\* A breaker stays well shaped through on_failure of a transient error.
LEMMA FailureShape ==
    ASSUME NEW b \in Breakers, WellShaped(b)
    PROVE  /\ OnFailure(b, "Transient") \in Breakers
           /\ WellShaped(OnFailure(b, "Transient"))
  <1> USE Thresholds
  <1>0. b.failures \in 0..CountCap /\ b.cycles \in Nat
    BY BreakerFields
  <1> DEFINE f == Lesser(b.failures + 1, CountCap)
             c == Counted(b, "Transient")
  <1>1. /\ f \in 0..CountCap
        /\ f = b.failures + 1 \/ (f = CountCap /\ FailureThreshold <= f)
        /\ b.failures <= f
    BY <1>0 DEF Lesser
  <1> HIDE DEF f
  <1>2. c = [b EXCEPT !.failures = f, !.age = 0, !.kind = "Transient"]
    BY DEF Counted, f
  <1>3. /\ c \in Breakers /\ c.state = b.state /\ c.failures = f /\ c.cycles = b.cycles
        /\ c.age = 0
    <2>1. "Transient" \in FailureKinds \cup {NoKind} /\ 0 \in {NoTime} \cup 0..AgeCap
      BY DEF FailureKinds
    <2> HIDE DEF c
    <2>2. c \in Breakers
      BY <1>1, <1>2, <2>1 DEF Breakers
    <2>3. /\ c.state = b.state /\ c.failures = f /\ c.cycles = b.cycles
          /\ c.age = 0
      BY <1>2 DEF Breakers
    <2> QED BY <2>2, <2>3
  <1> HIDE DEF c
  <1>4. CASE b.state = "Open"
    <2>1. OnFailure(b, "Transient") = c
      BY <1>3, <1>4 DEF OnFailure, Trips, c
    <2> QED BY <2>1, <1>0, <1>1, <1>3, <1>4 DEF WellShaped, NoTime
  <1>5. CASE b.state # "Open" /\ f >= FailureThreshold
    <2> DEFINE t == [c EXCEPT !.state = "Open", !.cycles = @ + 1]
    <2>1. b.state \in {"Closed", "Degraded"} /\ b.cycles = 0
      BY <1>5 DEF WellShaped
    <2>2. OnFailure(b, "Transient") = t
      BY <1>3, <1>5, <2>1 DEF OnFailure, Trips, TransitionToOpen, c
    <2>0. c.cycles + 1 \in Nat /\ c.cycles + 1 = 1
      BY <1>3, <2>1
    <2>3. t \in Breakers
      BY <1>3, <2>0 DEF Breakers
    <2>4. t.state = "Open" /\ t.cycles >= 1 /\ t.age = 0 /\ t.failures = f
      BY <1>3, <2>0 DEF Breakers
    <2> HIDE DEF t
    <2> QED BY <2>2, <2>3, <2>4, <1>1, <1>5 DEF WellShaped, NoTime
  <1>6. CASE b.state # "Open" /\ f < FailureThreshold
    <2>1. b.state \in {"Closed", "Degraded"} /\ b.cycles = 0
      BY <1>6 DEF WellShaped
    <2>2. ~Trips(c, "Transient")
      BY <2>1, <1>1, <1>3, <1>6 DEF Trips
    <2>3. CASE b.state = "Closed" /\ f >= DegradationThreshold
      <3> DEFINE d == [c EXCEPT !.state = "Degraded"]
      <3>1. OnFailure(b, "Transient") = d
        BY <2>2, <2>3, <1>3 DEF OnFailure, c
      <3>2. d \in Breakers /\ d.state = "Degraded" /\ d.cycles = 0 /\ d.failures = f
        BY <1>3, <2>1 DEF Breakers, NoTime, NoKind, FailureKinds
      <3> QED BY <3>1, <3>2, <2>3, <1>6 DEF WellShaped
    <2>4. CASE ~(b.state = "Closed" /\ f >= DegradationThreshold)
      <3>1. OnFailure(b, "Transient") = c
        BY <2>2, <2>4, <1>3 DEF OnFailure, c
      <3> QED BY <3>1, <1>0, <1>1, <1>3, <1>6, <2>1, <2>4 DEF WellShaped
    <2> QED BY <2>3, <2>4
  <1> QED BY <1>1, <1>4, <1>5, <1>6

\* A breaker stays well shaped while time passes.
LEMMA AgedShape ==
    ASSUME NEW b \in Breakers, WellShaped(b)
    PROVE  Aged(b) \in Breakers /\ WellShaped(Aged(b))
  BY BreakerAssumption DEF Breakers, WellShaped, Aged, Lesser, NoTime, NoKind, FailureKinds

-----------------------------------------------------------------------------
\* The holders of b's permits are finitely many.
LEMMA Holders ==
    ASSUME NEW b
    PROVE  /\ IsFiniteSet(InContext(b)) /\ IsFiniteSet(OnTheWay(b))
           /\ Cardinality(InContext(b)) \in Nat /\ Cardinality(OnTheWay(b)) \in Nat
           /\ IsFiniteSet(InContext(b)') /\ IsFiniteSet(OnTheWay(b)')
           /\ Cardinality(InContext(b)') \in Nat /\ Cardinality(OnTheWay(b)') \in Nat
  <1>1. /\ InContext(b) \subseteq Requests /\ OnTheWay(b) \subseteq Requests
        /\ InContext(b)' \subseteq Requests /\ OnTheWay(b)' \subseteq Requests
    BY DEF InContext, OnTheWay
  <1>2. IsFiniteSet(Requests)
    BY RoutingAssumption
  <1>3. /\ IsFiniteSet(InContext(b)) /\ IsFiniteSet(OnTheWay(b))
        /\ IsFiniteSet(InContext(b)') /\ IsFiniteSet(OnTheWay(b)')
    BY <1>1, <1>2, FS_Subset
  <1> QED BY <1>3, FS_CardinalityType

\* The semaphore never holds more than it was made with.
LEMMA AvailBound ==
    ASSUME avail' \in [Backends -> Nat], PermitsExact'
    PROVE  avail' \in [Backends -> 0..MaxInflight]
  <1>1. ASSUME NEW b \in Backends PROVE avail'[b] \in 0..MaxInflight
    <2>1. avail'[b] + Cardinality(InContext(b)') + Cardinality(OnTheWay(b)') = MaxInflight
      BY DEF PermitsExact
    <2> QED BY <2>1, Holders, RoutingAssumption
  <1> QED BY <1>1

\* Steps that touch neither the semaphores nor the contexts' permits.
LEMMA QuietPermits ==
    ASSUME PermitsExact, avail' = avail, permit' = permit,
           \A r \in Requests : pc[r] = "granted" \/ pc'[r] = "granted"
                                  => pc'[r] = pc[r] /\ cand'[r] = cand[r]
    PROVE  PermitsExact'
  <1>1. ASSUME NEW b \in Backends
        PROVE  InContext(b)' = InContext(b) /\ OnTheWay(b)' = OnTheWay(b)
    BY DEF InContext, OnTheWay
  <1> QED BY <1>1 DEF PermitsExact

\* Steps that drop the permit in r's context (if there is one).
LEMMA DropPermit ==
    ASSUME RoutingTypeOK, PermitsExact, NEW r \in Requests,
           permit' = [permit EXCEPT ![r] = NoBackend], avail' = GiveBack(permit[r]),
           \A q \in Requests : pc[q] = "granted" \/ pc'[q] = "granted"
                                  => pc'[q] = pc[q] /\ cand'[q] = cand[q]
    PROVE  PermitsExact' /\ avail' \in [Backends -> Nat]
  <1>1. avail' \in [Backends -> Nat]
    BY DEF GiveBack, RoutingTypeOK
  <1>2. ASSUME NEW b \in Backends
        PROVE  (avail[b] + Cardinality(InContext(b)) + Cardinality(OnTheWay(b)) = MaxInflight)'
    <2>1. OnTheWay(b)' = OnTheWay(b)
      BY DEF OnTheWay
    <2>2. avail[b] + Cardinality(InContext(b)) + Cardinality(OnTheWay(b)) = MaxInflight
      BY DEF PermitsExact
    <2>3. CASE permit[r] = b
      <3>1. InContext(b)' = InContext(b) \ {r} /\ r \in InContext(b)
        BY <2>3, RoutingAssumption DEF InContext, RoutingTypeOK
      <3>2. Cardinality(InContext(b)') = Cardinality(InContext(b)) - 1
        BY <3>1, Holders, FS_RemoveElement
      <3>3. avail'[b] = avail[b] + 1
        BY <2>3 DEF GiveBack
      <3>4. avail[b] \in Nat
        BY DEF RoutingTypeOK
      <3> QED BY <2>1, <2>2, <3>2, <3>3, <3>4, Holders
    <2>4. CASE permit[r] # b
      <3>1. InContext(b)' = InContext(b)
        BY <2>4, RoutingAssumption DEF InContext, RoutingTypeOK
      <3>2. avail'[b] = avail[b]
        BY <2>4 DEF GiveBack
      <3> QED BY <2>1, <2>2, <3>1, <3>2
    <2> QED BY <2>3, <2>4
  <1> QED BY <1>1, <1>2 DEF PermitsExact

\* TakePermit moves one permit from the semaphore to the request.
LEMMA TakeCounts ==
    ASSUME RoutingInv, NEW r \in Requests, TakePermit(r)
    PROVE  PermitsExact' /\ avail' \in [Backends -> Nat]
  <1>0. cand[r] \in Backends /\ avail[cand[r]] \in Nat /\ avail[cand[r]] > 0
    BY DEF RoutingInv, RoutingTypeOK, LoopOK, TakePermit
  <1>1. avail' \in [Backends -> Nat]
    BY <1>0 DEF TakePermit, RoutingInv, RoutingTypeOK
  <1>2. ASSUME NEW b \in Backends
        PROVE  (avail[b] + Cardinality(InContext(b)) + Cardinality(OnTheWay(b)) = MaxInflight)'
    <2>1. InContext(b)' = InContext(b)
      BY DEF InContext, TakePermit
    <2>2. avail[b] + Cardinality(InContext(b)) + Cardinality(OnTheWay(b)) = MaxInflight
      BY DEF PermitsExact, RoutingInv
    <2>3. CASE cand[r] = b
      <3>1. OnTheWay(b)' = OnTheWay(b) \cup {r} /\ r \notin OnTheWay(b)
        BY <2>3 DEF OnTheWay, TakePermit, Goto, RoutingInv, RoutingTypeOK
      <3>2. Cardinality(OnTheWay(b)') = Cardinality(OnTheWay(b)) + 1
        BY <3>1, Holders, FS_AddElement
      <3>3. avail'[b] = avail[b] - 1 /\ avail[b] \in Nat
        BY <2>3 DEF TakePermit, RoutingInv, RoutingTypeOK
      <3> QED BY <2>1, <2>2, <3>2, <3>3, Holders
    <2>4. CASE cand[r] # b
      <3>1. OnTheWay(b)' = OnTheWay(b)
        BY <2>4 DEF OnTheWay, TakePermit, Goto, RoutingInv, RoutingTypeOK
      <3>2. avail'[b] = avail[b]
        BY <2>4 DEF TakePermit, RoutingInv, RoutingTypeOK
      <3> QED BY <2>1, <2>2, <3>1, <3>2
    <2> QED BY <2>3, <2>4
  <1> QED BY <1>1, <1>2 DEF PermitsExact

\* Install moves the new permit into the context and gives the old one back.
LEMMA InstallCounts ==
    ASSUME RoutingInv, NEW r \in Requests, Install(r)
    PROVE  PermitsExact' /\ avail' \in [Backends -> Nat]
  <1>0. cand[r] \in Backends /\ pc[r] = "granted"
    BY DEF RoutingInv, LoopOK, Install
  <1>1. avail' \in [Backends -> Nat]
    BY DEF Install, GiveBack, RoutingInv, RoutingTypeOK
  <1>2. ASSUME NEW b \in Backends
        PROVE  (avail[b] + Cardinality(InContext(b)) + Cardinality(OnTheWay(b)) = MaxInflight)'
    <2> DEFINE old == permit[r]  new == cand[r]
    <2>1. avail[b] + Cardinality(InContext(b)) + Cardinality(OnTheWay(b)) = MaxInflight
      BY DEF PermitsExact, RoutingInv
    <2>2. avail[b] \in Nat /\ avail'[b] = IF b = old THEN avail[b] + 1 ELSE avail[b]
      BY DEF Install, GiveBack, RoutingInv, RoutingTypeOK
    <2>3. Cardinality(OnTheWay(b)')
            = IF b = new THEN Cardinality(OnTheWay(b)) - 1 ELSE Cardinality(OnTheWay(b))
      <3>1. CASE b = new
        <4>1. OnTheWay(b)' = OnTheWay(b) \ {r} /\ r \in OnTheWay(b)
          BY <1>0, <3>1 DEF OnTheWay, Install, Goto, RoutingInv, RoutingTypeOK
        <4> QED BY <3>1, <4>1, Holders, FS_RemoveElement
      <3>2. CASE b # new
        <4>1. OnTheWay(b)' = OnTheWay(b)
          BY <1>0, <3>2 DEF OnTheWay, Install, Goto, RoutingInv, RoutingTypeOK
        <4> QED BY <3>2, <4>1
      <3> QED BY <3>1, <3>2
    <2>4. Cardinality(InContext(b)') =
            CASE b = old /\ b # new -> Cardinality(InContext(b)) - 1
              [] b # old /\ b = new -> Cardinality(InContext(b)) + 1
              [] OTHER -> Cardinality(InContext(b))
      <3>1. CASE b = old /\ b # new
        <4>1. InContext(b)' = InContext(b) \ {r} /\ r \in InContext(b)
          BY <3>1 DEF InContext, Install, RoutingInv, RoutingTypeOK
        <4> QED BY <3>1, <4>1, Holders, FS_RemoveElement
      <3>2. CASE b # old /\ b = new
        <4>1. InContext(b)' = InContext(b) \cup {r} /\ r \notin InContext(b)
          BY <3>2 DEF InContext, Install, RoutingInv, RoutingTypeOK
        <4> QED BY <3>2, <4>1, Holders, FS_AddElement
      <3>3. CASE (b = old) <=> (b = new)
        <4>1. InContext(b)' = InContext(b)
          BY <3>3 DEF InContext, Install, RoutingInv, RoutingTypeOK
        <4> QED BY <3>3, <4>1
      <3> QED BY <3>1, <3>2, <3>3
    <2> HIDE DEF old, new
    <2> QED BY <2>1, <2>2, <2>3, <2>4, Holders
  <1> QED BY <1>1, <1>2 DEF PermitsExact

-----------------------------------------------------------------------------
\* The variables of the candidate loop, without the breakers.
LoopTypeOK ==
    /\ avail \in [Backends -> 0..MaxInflight]
    /\ permit \in [Requests -> Backends \cup {NoBackend}]
    /\ pc \in [Requests -> RoutingSteps]
    /\ cand \in [Requests -> Backends \cup {NoBackend}]
    /\ left \in [Requests -> SUBSET Backends]
    /\ tries \in [Requests -> 0..MaxRetries]

BreakersOK ==
    /\ \A b \in Backends : WellShaped(breaker[b])
    /\ breaker \in [Backends -> Breakers]
    /\ up \in BOOLEAN
    /\ failedProbes \in [Backends -> 0..(BackoffEscalation + 1)]

LoopInv == LoopTypeOK /\ LoopOK /\ PermitsExact

\* The invariant in the two parts that different variables are about.
LEMMA TwoParts == RoutingInv <=> LoopInv /\ BreakersOK
  BY DEF RoutingInv, RoutingTypeOK, LoopInv, LoopTypeOK, BreakersOK, BreakerShape

\* Whatever becomes of an attempt, the loop's invariant is kept.
LEMMA OutcomeStep ==
    ASSUME RoutingInv, NEW r \in Requests, pc[r] = "sent",
           EndAttempt(r) \/ RetryHolding(r) \/ RetryReleasing(r)
    PROVE  LoopInv'
  <1> USE RoutingAssumption DEF RoutingInv, RoutingTypeOK
  <1>1. CASE EndAttempt(r)
    <2>1. PermitsExact'
      BY <1>1, QuietPermits DEF EndAttempt, Goto
    <2> QED BY <1>1, <2>1 DEF EndAttempt, Goto, LoopInv, LoopTypeOK, LoopOK, RoutingSteps
  <1>2. CASE RetryHolding(r)
    <2>1. PermitsExact'
      BY <1>2, QuietPermits DEF RetryHolding, StartSelection, Goto
    <2> QED BY <1>2, <2>1
            DEF RetryHolding, StartSelection, Goto, LoopInv, LoopTypeOK, LoopOK, RoutingSteps
  <1>3. CASE RetryReleasing(r)
    <2>1. PermitsExact' /\ avail' \in [Backends -> Nat]
      BY <1>3, DropPermit DEF RetryReleasing, StartSelection, Goto
    <2>2. avail' \in [Backends -> 0..MaxInflight]
      BY <2>1, AvailBound
    <2> QED BY <1>3, <2>1, <2>2
            DEF RetryReleasing, StartSelection, Goto, LoopInv, LoopTypeOK, LoopOK, RoutingSteps
  <1> QED BY <1>1, <1>2, <1>3

\* Every step of a request keeps the loop's invariant.
LEMMA LoopStep ==
    ASSUME RoutingInv, NEW r \in Requests, RoutingStep(r)
    PROVE  LoopInv'
  <1> USE RoutingAssumption DEF RoutingInv, RoutingTypeOK
  <1>1. CASE Arrive(r)
    <2>1. PermitsExact'
      BY <1>1, QuietPermits DEF Arrive, StartSelection, Goto
    <2> QED BY <1>1, <2>1 DEF Arrive, StartSelection, Goto, LoopInv, LoopTypeOK, LoopOK,
                              RoutingSteps
  <1>2. CASE Skip(r)
    <2>1. PermitsExact'
      BY <1>2, QuietPermits DEF Skip
    <2> QED BY <1>2, <2>1 DEF Skip, LoopInv, LoopTypeOK, LoopOK
  <1>3. CASE Choose(r)
    <2>1. PermitsExact'
      BY <1>3, QuietPermits DEF Choose, Goto
    <2> QED BY <1>3, <2>1 DEF Choose, Goto, LoopInv, LoopTypeOK, LoopOK, RoutingSteps
  <1>4. CASE SkipOther(r)
    <2>1. PermitsExact'
      BY <1>4, QuietPermits DEF SkipOther, Goto
    <2> QED BY <1>4, <2>1 DEF SkipOther, Goto, LoopInv, LoopTypeOK, LoopOK, RoutingSteps
  <1>5. CASE NoPermit(r)
    <2>1. PermitsExact'
      BY <1>5, QuietPermits DEF NoPermit, Goto
    <2> QED BY <1>5, <2>1 DEF NoPermit, Goto, LoopInv, LoopTypeOK, LoopOK, RoutingSteps
  <1>6. CASE TakePermit(r)
    <2>1. PermitsExact' /\ avail' \in [Backends -> 0..MaxInflight]
      BY <1>6, TakeCounts, AvailBound
    <2> QED BY <1>6, <2>1 DEF TakePermit, Goto, LoopInv, LoopTypeOK, LoopOK, RoutingSteps
  <1>7. CASE Install(r)
    <2>1. PermitsExact' /\ avail' \in [Backends -> 0..MaxInflight]
      BY <1>7, InstallCounts, AvailBound
    <2> QED BY <1>7, <2>1 DEF Install, Goto, LoopInv, LoopTypeOK, LoopOK, RoutingSteps
  <1>8. CASE Refuse(r)
    <2>1. PermitsExact'
      BY <1>8, QuietPermits DEF Refuse, Goto
    <2> QED BY <1>8, <2>1 DEF Refuse, Goto, LoopInv, LoopTypeOK, LoopOK, RoutingSteps
  <1>9. CASE RespondOk(r) \/ RespondFail(r) \/ RespondOther(r)
    BY <1>9, OutcomeStep DEF RespondOk, RespondFail, RespondOther
  <1>10. CASE Finish(r)
    <2>1. PermitsExact' /\ avail' \in [Backends -> Nat]
      BY <1>10, DropPermit DEF Finish, Goto
    <2>2. avail' \in [Backends -> 0..MaxInflight]
      BY <2>1, AvailBound
    <2> QED BY <1>10, <2>1, <2>2 DEF Finish, Goto, LoopInv, LoopTypeOK, LoopOK, RoutingSteps
  <1>11. CASE ArriveModels(r)
    <2>1. PermitsExact'
      BY <1>11, QuietPermits DEF ArriveModels, Goto
    <2> QED BY <1>11, <2>1 DEF ArriveModels, Goto, LoopInv, LoopTypeOK, LoopOK, RoutingSteps
  <1>12. CASE ModelsFail(r) \/ ModelsOther(r)
    <2>1. pc[r] = "listing" /\ EndListing(r) /\ UNCHANGED <<avail, permit, left>>
      BY <1>12 DEF ModelsFail, ModelsOther
    <2>2. PermitsExact'
      BY <2>1, QuietPermits DEF EndListing, Goto
    <2> QED BY <2>1, <2>2 DEF EndListing, Goto, LoopInv, LoopTypeOK, LoopOK, RoutingSteps
  <1> QED BY <1>1, <1>2, <1>3, <1>4, <1>5, <1>6, <1>7, <1>8, <1>9, <1>10, <1>11, <1>12
          DEF RoutingStep

\* Every step of a request keeps the breakers well shaped.
LEMMA BreakerStep ==
    ASSUME RoutingInv, NEW r \in Requests, RoutingStep(r)
    PROVE  BreakersOK'
  <1>0. BreakersOK /\ LoopInv
    BY TwoParts
  <1>1. CASE UNCHANGED <<breaker, up, failedProbes>>
    BY <1>0, <1>1 DEF BreakersOK
  <1>2. CASE RespondOk(r) /\ r \notin Streaming
    <2>1. cand[r] \in Backends
      BY <1>0, <1>2 DEF RespondOk, LoopInv, LoopOK
    <2>2. /\ OnSuccess(breaker[cand[r]]) \in Breakers
          /\ WellShaped(OnSuccess(breaker[cand[r]]))
      BY <1>0, <2>1, SuccessShape DEF BreakersOK
    <2>3. /\ breaker' = [breaker EXCEPT ![cand[r]] = OnSuccess(breaker[cand[r]])]
          /\ failedProbes' = [failedProbes EXCEPT ![cand[r]] = 0] /\ up' = up
      BY <1>2 DEF RespondOk
    <2> QED BY <1>0, <2>1, <2>2, <2>3, BreakerAssumption DEF BreakersOK
  <1>3. CASE RespondFail(r) \/ ModelsFail(r)
    <2> DEFINE n == failedProbes[cand[r]]
               m == IF ShouldTransitionToHalfOpen(breaker[cand[r]])
                    THEN Lesser(n + 1, BackoffEscalation + 1) ELSE n
    <2>1. cand[r] \in Backends
      BY <1>0, <1>3 DEF RespondFail, ModelsFail, LoopInv, LoopOK
    <2>2. /\ OnFailure(breaker[cand[r]], "Transient") \in Breakers
          /\ WellShaped(OnFailure(breaker[cand[r]], "Transient"))
      BY <1>0, <2>1, FailureShape DEF BreakersOK
    <2>3. m \in 0..(BackoffEscalation + 1)
      BY <1>0, <2>1, BreakerAssumption DEF BreakersOK, Lesser
    <2>4. /\ breaker' = [breaker EXCEPT ![cand[r]] = OnFailure(breaker[cand[r]], "Transient")]
          /\ failedProbes' = [failedProbes EXCEPT ![cand[r]] = m] /\ up' = up
      BY <1>3 DEF RespondFail, ModelsFail
    <2> HIDE DEF m
    <2> QED BY <1>0, <2>1, <2>2, <2>3, <2>4 DEF BreakersOK
  <1> QED BY <1>1, <1>2, <1>3
          DEF RoutingStep, Arrive, Skip, Choose, SkipOther, NoPermit, TakePermit, Install,
              Refuse, RespondOk, RespondOther, ArriveModels, ModelsOther, Finish

\* The initial state satisfies the invariant.
LEMMA RoutingInvInit == RoutingInit => RoutingInv
  <1> SUFFICES ASSUME RoutingInit PROVE RoutingInv
    OBVIOUS
  <1>1. RoutingTypeOK
    <2>1. NewBreaker \in Breakers
      BY Thresholds DEF Breakers, NewBreaker
    <2>2. 0 \in 0..(BackoffEscalation + 1) /\ 0 \in 0..MaxRetries
            /\ MaxInflight \in 0..MaxInflight
      BY RoutingAssumption, BreakerAssumption
    <2> QED BY <2>1, <2>2 DEF RoutingInit, RoutingTypeOK, RoutingSteps
  <1>2. LoopOK
    BY DEF RoutingInit, LoopOK
  <1>3. BreakerShape
    BY Thresholds DEF RoutingInit, BreakerShape, WellShaped, NewBreaker
  <1>4. PermitsExact
    <2>1. ASSUME NEW b \in Backends PROVE InContext(b) = {} /\ OnTheWay(b) = {}
      BY RoutingAssumption DEF RoutingInit, InContext, OnTheWay
    <2> QED BY <2>1, FS_EmptySet, RoutingAssumption DEF PermitsExact, RoutingInit
  <1> QED BY <1>1, <1>2, <1>3, <1>4 DEF RoutingInv

\* Every step keeps the invariant.
LEMMA RoutingInvStep == RoutingInv /\ [RoutingNext]_routingVars => RoutingInv'
  <1> SUFFICES ASSUME RoutingInv, [RoutingNext]_routingVars PROVE LoopInv' /\ BreakersOK'
    BY TwoParts, PTL
  <1>0. LoopInv /\ BreakersOK
    BY TwoParts
  <1>1. CASE \E r \in Requests : RoutingStep(r)
    BY <1>1, LoopStep, BreakerStep
  <1>2. CASE Tick
    <2>1. LoopInv'
      BY <1>0, <1>2, QuietPermits DEF Tick, LoopInv, LoopTypeOK, LoopOK
    <2>2. ASSUME NEW b \in Backends
          PROVE  Aged(breaker[b]) \in Breakers /\ WellShaped(Aged(breaker[b]))
      BY <1>0, AgedShape DEF BreakersOK
    <2> QED BY <1>0, <1>2, <2>1, <2>2 DEF Tick, BreakersOK
  <1>3. CASE Recover
    BY <1>0, <1>3, QuietPermits DEF Recover, LoopInv, LoopTypeOK, LoopOK, BreakersOK
  <1>4. CASE UNCHANGED routingVars
    BY <1>0, <1>4, QuietPermits DEF routingVars, LoopInv, LoopTypeOK, LoopOK, BreakersOK
  <1> QED BY <1>1, <1>2, <1>3, <1>4 DEF RoutingNext
-----------------------------------------------------------------------------
\* The inductive invariant of the candidate loop and its breakers.
THEOREM RoutingInvariance == RoutingSpec => []RoutingInv
  BY RoutingInvInit, RoutingInvStep, PTL DEF RoutingSpec

\* Every variable of the selection keeps its type: in particular no semaphore
\* is given back more permits than try_acquire took from it.
THEOREM RoutingTypeCorrect == RoutingSpec => []RoutingTypeOK
  BY RoutingInvariance, PTL DEF RoutingInv

\* For any thresholds with degradation below failure, state and counters of
\* every breaker agree, with the reports of lists of models among them.
THEOREM BreakersWellShaped == RoutingSpec => []BreakerShape
  BY RoutingInvariance, PTL DEF RoutingInv

\* No permit is lost or duplicated by retries, rotations and drops.
THEOREM PermitAccounting == RoutingSpec => []PermitsExact
  BY RoutingInvariance, PTL DEF RoutingInv

\* No backend serves more attempts of the candidate loop at once than
\* max_inflight; lists of models, which take no permit, are not counted.
THEOREM LoadRespected == RoutingSpec => []LoadBounded
  <1>1. RoutingInv => LoadBounded
    <2> SUFFICES ASSUME RoutingInv, NEW b \in Backends
                 PROVE  Cardinality({r \in Requests : pc[r] = "sent" /\ cand[r] = b})
                          <= MaxInflight
      BY DEF LoadBounded
    <2> DEFINE S == {r \in Requests : pc[r] = "sent" /\ cand[r] = b}
    <2>1. S \subseteq InContext(b)
      BY DEF RoutingInv, LoopOK, InContext
    <2>2. Cardinality(S) \in Nat /\ Cardinality(S) <= Cardinality(InContext(b))
      BY <2>1, Holders, FS_Subset, FS_CardinalityType
    <2>3. avail[b] + Cardinality(InContext(b)) + Cardinality(OnTheWay(b)) = MaxInflight
      BY DEF RoutingInv, PermitsExact
    <2>4. avail[b] \in Nat
      BY DEF RoutingInv, RoutingTypeOK
    <2> QED BY <2>2, <2>3, <2>4, Holders, RoutingAssumption
  <1> QED BY <1>1, RoutingInvariance, PTL
=============================================================================
