-------------------------- MODULE CachePhaseProofs --------------------------
(***************************************************************************)
(* The invariants of CachePhase for any requests, keys and capacity, and   *)
(* that the request path touches the coalescer by its promise only.        *)
(***************************************************************************)
EXTENDS CachePhase, TLAPS

\* What is stored, and what is on its way into the cache, was captured from an
\* answer that ended well; such an answer stays so.
StoredFinished ==
    /\ \A k \in Keys : cached[k] \in Requests => KeyOf[cached[k]] = k /\ reply[cached[k]] \in Captured
    /\ \A r \in puts : reply[r] \in Captured
    /\ \A r \in Requests : stage[r] = "eos" => reply[r] \in Captured
    /\ \A r \in Requests : reply[r] \in Captured => stage[r] \in {"eos", "closing", "dropping", "end"}

PhaseInv == PhaseTypeOK /\ StoredFinished /\ ServedIsFinished

-----------------------------------------------------------------------------
\* Every step of the request path is a step of the coalescer's promise, or
\* leaves the coalescer alone.
LEMMA CoalescerByPromise == [PhaseNext]_phaseVars => [C!SpecNext]_(C!specVars)
  <1> SUFFICES ASSUME [PhaseNext]_phaseVars PROVE C!SpecNext \/ UNCHANGED coalescer
    BY DEF coalescer, C!specVars
  <1>1. ASSUME NEW r \in Requests, NEW o \in {"ok", "fail"}, Mark(r, o)
        PROVE  C!SpecNext \/ UNCHANGED coalescer
    BY <1>1 DEF Mark, C!SpecNext
  <1>2. ASSUME NEW r \in Requests, RequestStep(r) PROVE C!SpecNext \/ UNCHANGED coalescer
    <2>1. CASE AcquireGuard(r) \/ BecomeLeader(r) \/ BecomeFollower(r) \/ WaitTimedOut(r)
               \/ NoCapacity(r)
      BY <2>1 DEF AcquireGuard, BecomeLeader, BecomeFollower, WaitTimedOut, NoCapacity, C!SpecNext
    <2>2. CASE UpstreamError(r) \/ UpstreamErrorEmpty(r) \/ UpstreamOk(r) \/ UpstreamNotCached(r)
               \/ LogError(r)
      BY <2>2, <1>1 DEF UpstreamError, UpstreamErrorEmpty, UpstreamOk, UpstreamNotCached, LogError
    <2>3. CASE DropContext(r)
      <3>1. CASE IsLeader(r) /\ outcome[KeyOf[r]] = "none"
        BY <2>3, <3>1, <1>1 DEF DropContext
      <3>2. CASE ~(IsLeader(r) /\ outcome[KeyOf[r]] = "none")
        BY <2>3, <3>2 DEF DropContext, C!SpecNext
      <3> QED BY <3>1, <3>2
    <2>4. CASE Probe(r) \/ SemanticHit(r) \/ FollowerLookup(r) \/ FollowerMiss(r)
               \/ UpstreamErrorUnmarked(r) \/ SpawnPut(r) \/ RunPut(r) \/ LogDone(r)
      BY <2>4 DEF Probe, SemanticHit, FollowerLookup, FollowerMiss, UpstreamErrorUnmarked,
                  SpawnPut, RunPut, LogDone
    <2> QED BY <1>2, <2>1, <2>2, <2>3, <2>4 DEF RequestStep
  <1>3. ASSUME NEW k \in Keys, EntryGone(k) PROVE UNCHANGED coalescer
    BY <1>3 DEF EntryGone
  <1>4. CASE UNCHANGED phaseVars
    BY <1>4 DEF phaseVars, coalescer
  <1> QED BY <1>2, <1>3, <1>4 DEF PhaseNext

\* The phases of a request are a use of the coalescer by its promise.
THEOREM UsesPromise == PhaseSpec => C!AbstractSpec
  <1>1. PhaseInit => C!SpecInit
    BY DEF PhaseInit
  <1> QED BY <1>1, CoalescerByPromise, PTL DEF PhaseSpec, C!AbstractSpec

\* Steps of the promise keep its types.
LEMMA PromiseStep ==
    ASSUME C!SpecTypeOK, [C!SpecNext]_(C!specVars)
    PROVE  C!SpecTypeOK'
  <1> USE PhaseConstantsOK DEF C!SpecTypeOK
  <1>1. CASE UNCHANGED <<phase, owner, outcome>>
    BY <1>1
  <1>2. ASSUME NEW r \in Requests,
               \/ C!Ask(r) \/ C!Follow(r) \/ C!GiveUp(r) \/ C!Refuse(r) \/ C!Retire(r)
        PROVE  C!SpecTypeOK'
    BY <1>2 DEF C!Ask, C!Follow, C!GiveUp, C!Refuse, C!Retire, C!Phases
  <1>3. ASSUME NEW r \in Requests, C!Lead(r) PROVE C!SpecTypeOK'
    BY <1>3 DEF C!Lead, C!Phases
  <1>4. ASSUME NEW r \in Requests, NEW o \in {"ok", "fail"}, C!Settle(r, o)
        PROVE  C!SpecTypeOK'
    BY <1>4 DEF C!Settle, C!Outcomes
  <1> QED BY <1>1, <1>2, <1>3, <1>4 DEF C!SpecNext, C!specVars

\* The initial state satisfies the invariant.
LEMMA PhaseInvInit == PhaseInit => PhaseInv
  <1> SUFFICES ASSUME PhaseInit PROVE PhaseInv
    OBVIOUS
  <1> USE PhaseConstantsOK DEF PhaseInit
  <1>1. PhaseTypeOK
    BY DEF PhaseTypeOK, C!SpecInit, C!SpecTypeOK, C!Phases, C!Outcomes, Stages, Replies, Answers
  <1>2. StoredFinished
    BY DEF StoredFinished, Captured
  <1>3. ServedIsFinished
    BY DEF ServedIsFinished
  <1> QED BY <1>1, <1>2, <1>3 DEF PhaseInv

\* The proxy's part of the type invariant.
ProxyTypeOK ==
    /\ stage \in [Requests -> Stages]
    /\ cached \in [Keys -> Requests \cup {NoEntry, Legacy}]
    /\ puts \in SUBSET Requests
    /\ reply \in [Requests -> Replies]
    /\ answer \in [Requests -> Answers]
    /\ source \in [Requests -> Requests \cup {NoEntry}]
    /\ sent \in SUBSET Requests
    /\ firstFail \in SUBSET Keys

\* Every step of a request keeps the invariant.
LEMMA PhaseRequestStep ==
    ASSUME PhaseInv, NEW r \in Requests, RequestStep(r)
    PROVE  ProxyTypeOK' /\ StoredFinished' /\ ServedIsFinished'
  <1> USE PhaseConstantsOK
  <1>0. ProxyTypeOK /\ StoredFinished /\ ServedIsFinished
    BY DEF PhaseInv, PhaseTypeOK, ProxyTypeOK
  <1>k. \A q \in Requests : KeyOf[q] \in Keys
    OBVIOUS
  <1>1. CASE Probe(r)
    <2>1. ProxyTypeOK'
      BY <1>0, <1>k, <1>1 DEF ProxyTypeOK, Stages, Replies, Answers, Probe, At, Enter, Usable,
         ServeFrom
    <2>2. StoredFinished'
      BY <1>0, <1>k, <1>1 DEF ProxyTypeOK, StoredFinished, Captured, Probe, At, Enter, Usable, ServeFrom
    <2>3. ServedIsFinished'
      BY <1>0, <1>k, <1>1 DEF ProxyTypeOK, StoredFinished, Captured, ServedIsFinished, Probe, At, Enter,
         Usable, ServeFrom
    <2> QED BY <2>1, <2>2, <2>3
  <1>2. CASE SemanticHit(r) \/ NoCapacity(r)
    <2>1. ProxyTypeOK'
      BY <1>0, <1>k, <1>2 DEF ProxyTypeOK, Stages, Replies, Answers, SemanticHit, NoCapacity,
         At, Enter, Refused
    <2>2. StoredFinished'
      BY <1>0, <1>k, <1>2 DEF ProxyTypeOK, StoredFinished, Captured, SemanticHit, NoCapacity, At, Enter,
         Refused
    <2>3. ServedIsFinished'
      BY <1>0, <1>k, <1>2 DEF ProxyTypeOK, StoredFinished, Captured, ServedIsFinished, SemanticHit,
         NoCapacity, At, Enter, Refused
    <2> QED BY <2>1, <2>2, <2>3
  <1>3. CASE AcquireGuard(r) \/ SpawnPut(r) \/ LogDone(r) \/ DropContext(r)
    <2>1. ProxyTypeOK'
      BY <1>0, <1>k, <1>3 DEF ProxyTypeOK, Stages, Replies, Answers, AcquireGuard, SpawnPut,
         LogDone, DropContext, At, Enter
    <2>2. StoredFinished'
      BY <1>0, <1>k, <1>3 DEF ProxyTypeOK, StoredFinished, Captured, AcquireGuard, SpawnPut, LogDone,
         DropContext, At, Enter
    <2>3. ServedIsFinished'
      BY <1>0, <1>k, <1>3 DEF ProxyTypeOK, StoredFinished, Captured, ServedIsFinished, AcquireGuard,
         SpawnPut, LogDone, DropContext, At, Enter
    <2> QED BY <2>1, <2>2, <2>3
  <1>4. CASE BecomeLeader(r) \/ WaitTimedOut(r)
    <2>1. ProxyTypeOK'
      BY <1>0, <1>k, <1>4 DEF ProxyTypeOK, Stages, Replies, Answers, BecomeLeader, WaitTimedOut,
         At, Enter, GoUpstream
    <2>2. StoredFinished'
      BY <1>0, <1>k, <1>4 DEF ProxyTypeOK, StoredFinished, Captured, BecomeLeader, WaitTimedOut, At,
         Enter, GoUpstream
    <2>3. ServedIsFinished'
      BY <1>0, <1>k, <1>4 DEF ProxyTypeOK, StoredFinished, Captured, ServedIsFinished, BecomeLeader,
         WaitTimedOut, At, Enter, GoUpstream
    <2> QED BY <2>1, <2>2, <2>3
  <1>5. CASE BecomeFollower(r)
    <2>1. ProxyTypeOK'
      BY <1>0, <1>k, <1>5 DEF ProxyTypeOK, Stages, Replies, Answers, BecomeFollower, At, Enter,
         C!Follow
    <2>2. StoredFinished'
      BY <1>0, <1>k, <1>5 DEF ProxyTypeOK, StoredFinished, Captured, BecomeFollower, At, Enter, C!Follow
    <2>3. ServedIsFinished'
      BY <1>0, <1>k, <1>5 DEF ProxyTypeOK, StoredFinished, Captured, ServedIsFinished, BecomeFollower, At,
         Enter, C!Follow
    <2> QED BY <2>1, <2>2, <2>3
  <1>6. CASE FollowerLookup(r)
    <2>1. ProxyTypeOK'
      BY <1>0, <1>k, <1>6 DEF ProxyTypeOK, Stages, Replies, Answers, FollowerLookup, At, Enter,
         Usable, ServeFrom, GoUpstream
    <2>2. StoredFinished'
      BY <1>0, <1>k, <1>6 DEF ProxyTypeOK, StoredFinished, Captured, FollowerLookup, At, Enter, Usable,
         ServeFrom, GoUpstream
    <2>3. ServedIsFinished'
      BY <1>0, <1>k, <1>6 DEF ProxyTypeOK, StoredFinished, Captured, ServedIsFinished, FollowerLookup, At,
         Enter, Usable, ServeFrom, GoUpstream
    <2> QED BY <2>1, <2>2, <2>3
  <1>7. CASE FollowerMiss(r)
    <2>1. ProxyTypeOK'
      BY <1>0, <1>k, <1>7 DEF ProxyTypeOK, Stages, Replies, Answers, FollowerMiss, At, Enter,
         Refused, GoUpstream
    <2>2. StoredFinished'
      BY <1>0, <1>k, <1>7 DEF ProxyTypeOK, StoredFinished, Captured, FollowerMiss, At, Enter, Refused,
         GoUpstream
    <2>3. ServedIsFinished'
      BY <1>0, <1>k, <1>7 DEF ProxyTypeOK, StoredFinished, Captured, ServedIsFinished, FollowerMiss, At,
         Enter, Refused, GoUpstream
    <2> QED BY <2>1, <2>2, <2>3
  <1>8. CASE UpstreamError(r) \/ UpstreamErrorUnmarked(r) \/ UpstreamErrorEmpty(r)
    <2>1. ProxyTypeOK'
      BY <1>0, <1>k, <1>8 DEF ProxyTypeOK, Stages, Replies, Answers, UpstreamError,
         UpstreamErrorUnmarked, UpstreamErrorEmpty, At, Enter, Fails, Replied
    <2>2. StoredFinished'
      BY <1>0, <1>k, <1>8 DEF ProxyTypeOK, StoredFinished, Captured, UpstreamError, UpstreamErrorUnmarked,
         UpstreamErrorEmpty, At, Enter, Fails, Replied
    <2>3. ServedIsFinished'
      BY <1>0, <1>k, <1>8 DEF ProxyTypeOK, StoredFinished, Captured, ServedIsFinished, UpstreamError,
         UpstreamErrorUnmarked, UpstreamErrorEmpty, At, Enter, Fails, Replied
    <2> QED BY <2>1, <2>2, <2>3
  <1>9. CASE UpstreamOk(r) \/ UpstreamNotCached(r)
    <2>1. ProxyTypeOK'
      BY <1>0, <1>k, <1>9 DEF ProxyTypeOK, Stages, Replies, Answers, Captured,
         UpstreamOk, UpstreamNotCached, At, Enter, Replied
    <2>2. StoredFinished'
      BY <1>0, <1>k, <1>9 DEF ProxyTypeOK, StoredFinished, Captured, UpstreamOk, UpstreamNotCached, At,
         Enter, Replied
    <2>3. ServedIsFinished'
      BY <1>0, <1>k, <1>9 DEF ProxyTypeOK, StoredFinished, Captured, ServedIsFinished, UpstreamOk,
         UpstreamNotCached, At, Enter, Replied
    <2> QED BY <2>1, <2>2, <2>3
  <1>10. CASE RunPut(r)
    <2>1. ProxyTypeOK'
      BY <1>0, <1>k, <1>10 DEF ProxyTypeOK, Stages, Replies, Answers, RunPut
    <2>2. StoredFinished'
      BY <1>0, <1>k, <1>10 DEF ProxyTypeOK, StoredFinished, Captured, RunPut
    <2>3. ServedIsFinished'
      BY <1>0, <1>k, <1>10 DEF ProxyTypeOK, StoredFinished, Captured, ServedIsFinished, RunPut
    <2> QED BY <2>1, <2>2, <2>3
  <1>11. CASE LogError(r)
    <2>1. ProxyTypeOK'
      BY <1>0, <1>k, <1>11 DEF ProxyTypeOK, Stages, Replies, Answers, LogError, At, Enter, Fails
    <2>2. StoredFinished'
      BY <1>0, <1>k, <1>11 DEF ProxyTypeOK, StoredFinished, Captured, LogError, At, Enter, Fails
    <2>3. ServedIsFinished'
      BY <1>0, <1>k, <1>11 DEF ProxyTypeOK, StoredFinished, Captured, ServedIsFinished, LogError, At,
         Enter, Fails
    <2> QED BY <2>1, <2>2, <2>3
  <1> QED
    BY <1>1, <1>2, <1>3, <1>4, <1>5, <1>6, <1>7, <1>8, <1>9, <1>10, <1>11 DEF RequestStep

\* Every step keeps the invariant.
LEMMA PhaseInvStep == PhaseInv /\ [PhaseNext]_phaseVars => PhaseInv'
  <1> SUFFICES ASSUME PhaseInv, [PhaseNext]_phaseVars PROVE PhaseInv'
    OBVIOUS
  <1>1. C!SpecTypeOK'
    BY CoalescerByPromise, PromiseStep DEF PhaseInv, PhaseTypeOK
  <1>2. SUFFICES ProxyTypeOK' /\ StoredFinished' /\ ServedIsFinished'
    BY <1>1 DEF PhaseInv, PhaseTypeOK, ProxyTypeOK
  <1>3. ASSUME NEW k \in Keys, EntryGone(k)
        PROVE  ProxyTypeOK' /\ StoredFinished' /\ ServedIsFinished'
    BY <1>3, PhaseConstantsOK
       DEF EntryGone, coalescer, PhaseInv, PhaseTypeOK, ProxyTypeOK, StoredFinished,
           ServedIsFinished
  <1>4. CASE UNCHANGED phaseVars
    BY <1>4 DEF phaseVars, PhaseInv, PhaseTypeOK, ProxyTypeOK, StoredFinished,
                ServedIsFinished
  <1> QED BY <1>1, <1>3, <1>4, PhaseRequestStep DEF PhaseNext

\* The strengthened invariant always holds.
LEMMA PhaseInvariance == PhaseSpec => []PhaseInv
  BY PhaseInvInit, PhaseInvStep, PTL DEF PhaseSpec

\* Requests, cache entries and answers keep their types.
THEOREM PhaseTyped == PhaseSpec => []PhaseTypeOK
  <1>1. PhaseInv => PhaseTypeOK
    BY DEF PhaseInv
  <1> QED BY <1>1, PhaseInvariance, PTL

\* Whoever is answered from the cache gets what was captured from a successful,
\* finished answer to a request for the same key.
THEOREM CacheServesFinished == PhaseSpec => []ServedIsFinished
  <1>1. PhaseInv => ServedIsFinished
    BY DEF PhaseInv
  <1> QED BY <1>1, PhaseInvariance, PTL
=============================================================================
