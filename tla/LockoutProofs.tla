--------------------------- MODULE LockoutProofs ---------------------------
(***************************************************************************)
(* The two registries of lockouts, for any number of concurrent callers.   *)
(* Per model (ModelLockout): no lockout is longer than its failures earned.*)
(* Per client (ClientGate): failed attempts are bounded, and so is the     *)
(* store of answers behind the registry, which keeps what it promised.     *)
(***************************************************************************)
EXTENDS ModelLockout, ClientGate, FiniteSetTheorems, SequenceTheorems, TLAPS
-----------------------------------------------------------------------------
(* The lockout of a model.                                                 *)

\* A call's reading of the clock is never ahead of the clock.
ReadingsPast == \A c \in Callers : call[c].at <= now

\* The registry's count is of failures that were counted.
CountsPast == fails.count <= reports

LockoutInv == LockoutTypeOK /\ LockEarned /\ ReadingsPast /\ CountsPast

\* The steps are as many as their last index, and they never get shorter.
LEMMA StepFacts ==
    /\ Len(LockSteps) \in Nat /\ Len(LockSteps) >= 1
    /\ \A i \in 1..Len(LockSteps) : LockSteps[i] \in Nat
    /\ \A i, j \in 1..Len(LockSteps) : i <= j => LockSteps[i] <= LockSteps[j]
  <1>1. LockSteps \in Seq(Nat) /\ LockSteps # <<>>
    BY LockoutAssumption
  <1>2. Len(LockSteps) \in Nat /\ Len(LockSteps) >= 1 /\ DOMAIN LockSteps = 1..Len(LockSteps)
    BY <1>1
  <1>3. \A i \in 1..Len(LockSteps) : LockSteps[i] \in Nat
    BY <1>1, <1>2
  <1> QED BY <1>2, <1>3, LockoutAssumption

\* What has been earned is a length of time.
LEMMA EarnedType == ASSUME LockoutTypeOK PROVE Earned \in Nat
  BY StepFacts DEF LockoutTypeOK, Earned

\* Steps that count no failure leave it as it is.
LEMMA EarnedSame == reports' = reports => Earned' = Earned
  BY DEF Earned

\* The step that record_failure picks is one of the steps.
LEMMA CountStep ==
    ASSUME LockoutInv, NEW c \in Callers, CountFailure(c)
    PROVE  LockoutInv'
  <1> DEFINE count == IF fails.count = 0 \/ Expired(c) THEN 1
                      ELSE Least(fails.count + 1, Len(LockSteps))
             step == Least(Least(count - 1, call[c].level), Len(LockSteps) - 1)
             until == call[c].at + LockSteps[step + 1]
             window == IF fails.count = 0 THEN call[c].base ELSE fails.window
  <1>1. /\ call[c].at \in 0..MaxNow /\ call[c].base \in Nat /\ call[c].level \in Nat
        /\ fails.count \in 0..Len(LockSteps) /\ fails.window \in Nat /\ now \in 0..MaxNow
        /\ call[c].at <= now /\ reports \in 0..Len(LockSteps) /\ fails.count <= reports
    BY DEF LockoutInv, LockoutTypeOK, ReadingsPast, CountsPast
  <1>r. reports' = Least(reports + 1, Len(LockSteps))
    BY DEF CountFailure
  <1>2. /\ count \in 1..Len(LockSteps) /\ count <= reports'
        /\ reports' \in 1..Len(LockSteps) /\ reports <= reports'
    BY <1>1, <1>r, StepFacts DEF Least
  <1> HIDE DEF count
  <1>3. step \in 0..(Len(LockSteps) - 1) /\ step + 1 <= count
    BY <1>1, <1>2, StepFacts DEF Least
  <1> HIDE DEF step
  <1>4. step + 1 \in 1..Len(LockSteps) /\ step + 1 <= reports'
    BY <1>2, <1>3, StepFacts
  <1>5. LockSteps[step + 1] \in Nat /\ LockSteps[step + 1] <= Earned' /\ Earned' \in Nat
    BY <1>2, <1>4, StepFacts DEF Earned
  <1>e. Earned \in Nat /\ Earned <= Earned'
    BY <1>1, <1>2, StepFacts DEF Earned
  <1>6. until \in Nat /\ until <= now + Earned'
    <2> DEFINE length == LockSteps[step + 1]
    <2>1. length \in Nat /\ length <= Earned' /\ Earned' \in Nat
      BY <1>5
    <2> HIDE DEF length
    <2>2. MaxNow \in Nat
      BY LockoutAssumption
    <2>3. call[c].at + length \in Nat /\ call[c].at + length <= now + Earned'
      BY <1>1, <2>1, <2>2
    <2> QED BY <2>3 DEF length
  <1>7. window \in Nat
    BY <1>1
  <1>8. /\ fails' = [count |-> count, last |-> call[c].at, window |-> window]
        /\ call' = [call EXCEPT ![c].until = until]
        /\ pc' = [pc EXCEPT ![c] = "check"] /\ now' = now /\ lock' = lock
    BY DEF CountFailure, Then, count, step
  <1> HIDE DEF until, window
  <1>9. LockoutTypeOK'
    <2>1. reports' \in 0..Len(LockSteps) /\ count \in 0..Len(LockSteps)
      BY <1>2, StepFacts
    <2>2. fails' \in [count : 0..Len(LockSteps), last : 0..MaxNow, window : Nat]
      BY <1>1, <1>7, <1>8, <2>1
    <2>3. call' \in [Callers -> [at : 0..MaxNow, base : Nat, level : Nat, until : Nat]]
      BY <1>6, <1>8 DEF LockoutInv, LockoutTypeOK
    <2> QED BY <1>8, <2>1, <2>2, <2>3 DEF LockoutInv, LockoutTypeOK
  <1>10. LockEarned'
    <2>1. lock' <= now' + Earned'
      BY <1>1, <1>5, <1>8, <1>e DEF LockoutInv, LockoutTypeOK, LockEarned, NoLock
    <2>2. ASSUME NEW d \in Callers, pc'[d] \in {"check", "insert"}
          PROVE  call'[d].until <= now' + Earned'
      <3>1. CASE d = c
        BY <1>6, <1>8, <3>1 DEF LockoutInv, LockoutTypeOK
      <3>2. CASE d # c
        <4>1. call'[d].until = call[d].until /\ call[d].until \in Nat
              /\ call[d].until <= now + Earned
          BY <1>8, <2>2, <3>2 DEF LockoutInv, LockoutTypeOK, LockEarned
        <4> QED BY <1>1, <1>5, <1>8, <1>e, <4>1
      <3> QED BY <3>1, <3>2
    <2> QED BY <2>1, <2>2 DEF LockEarned
  <1>11. ReadingsPast' /\ CountsPast'
    BY <1>2, <1>8 DEF LockoutInv, LockoutTypeOK, ReadingsPast, CountsPast
  <1> QED BY <1>9, <1>10, <1>11 DEF LockoutInv

\* The initial state satisfies the invariant.
LEMMA LockoutInvInit == LockoutInit => LockoutInv
  BY StepFacts, LockoutAssumption
     DEF LockoutInit, LockoutInv, LockoutTypeOK, LockEarned, ReadingsPast, CountsPast, Earned,
         NoLock, NoFails, NoCall

\* A call that returns forgets its locals.
LEMMA ReturnStep ==
    ASSUME LockoutInv, NEW c \in Callers, Return(c), now' = now,
           lock' \in Nat \cup {NoLock}, lock' <= now + Earned,
           reports' = reports, fails' = fails \/ fails' = NoFails
    PROVE  LockoutInv'
  <1>0. now \in 0..MaxNow
    BY DEF LockoutInv, LockoutTypeOK
  <1>1. LockoutTypeOK'
    BY <1>0, StepFacts, LockoutAssumption
       DEF LockoutInv, LockoutTypeOK, Return, Then, NoCall, NoFails
  <1>2. LockEarned'
    BY EarnedSame DEF LockoutInv, LockoutTypeOK, LockEarned, Return, Then
  <1>3. ReadingsPast' /\ CountsPast'
    BY <1>0 DEF LockoutInv, LockoutTypeOK, ReadingsPast, CountsPast, Return, Then, NoCall, NoFails
  <1> QED BY <1>1, <1>2, <1>3 DEF LockoutInv

\* Every step of a caller keeps the invariant.
LEMMA CallerKeeps ==
    ASSUME LockoutInv, NEW c \in Callers, CallerStep(c)
    PROVE  LockoutInv'
  <1>0. /\ now \in 0..MaxNow /\ Earned \in Nat /\ lock \in Nat \cup {NoLock}
        /\ lock <= now + Earned /\ NoLock <= now + Earned
    BY EarnedType, LockoutAssumption DEF LockoutInv, LockoutTypeOK, LockEarned, NoLock
  <1>1. CASE Report(c)
    BY <1>0, <1>1, LockoutAssumption, EarnedSame
       DEF Report, Then, LockoutInv, LockoutTypeOK, LockEarned, ReadingsPast, CountsPast
  <1>2. CASE CountFailure(c)
    BY <1>2, CountStep
  <1>3. CASE CheckLonger(c)
    <2>1. CASE Return(c) /\ UNCHANGED <<now, lock, fails, reports>>
      BY <1>0, <2>1, ReturnStep
    <2>2. CASE Then(c, "insert") /\ pc[c] = "check" /\ UNCHANGED <<now, lock, fails, call, reports>>
      BY <1>0, <2>2, EarnedSame DEF Then, LockoutInv, LockoutTypeOK, LockEarned, ReadingsPast, CountsPast
    <2> QED BY <1>3, <2>1, <2>2 DEF CheckLonger
  <1>4. CASE InsertLock(c)
    <2>1. call[c].until \in Nat /\ call[c].until <= now + Earned
      BY <1>4 DEF InsertLock, LockoutInv, LockoutTypeOK, LockEarned
    <2> QED BY <1>4, <2>1, ReturnStep DEF InsertLock
  <1>5. CASE FindExpired(c)
    BY <1>0, <1>5, EarnedSame
       DEF FindExpired, Then, LockoutInv, LockoutTypeOK, LockEarned, ReadingsPast, CountsPast
  <1>6. CASE RemoveExpired(c)
    BY <1>0, <1>6, ReturnStep DEF RemoveExpired
  <1>7. CASE Clear(c)
    BY <1>0, <1>7, EarnedSame
       DEF Clear, Then, LockoutInv, LockoutTypeOK, LockEarned, ReadingsPast, CountsPast
  <1>8. CASE ClearFails(c)
    BY <1>0, <1>8, ReturnStep DEF ClearFails
  <1>9. CASE Cleanup(c)
    <2>1. /\ lock' \in Nat \cup {NoLock} /\ lock' <= now + Earned /\ now' = now
          /\ call' = [call EXCEPT ![c].at = now] /\ pc' = [pc EXCEPT ![c] = "clean"]
          /\ fails' = fails /\ reports' = reports
      BY <1>0, <1>9 DEF Cleanup, Then
    <2>2. LockoutTypeOK'
      <3>1. call' \in [Callers -> [at : 0..MaxNow, base : Nat, level : Nat, until : Nat]]
        BY <1>0, <2>1 DEF LockoutInv, LockoutTypeOK
      <3> QED BY <1>0, <2>1, <3>1 DEF LockoutInv, LockoutTypeOK
    <2>3. ASSUME NEW d \in Callers
          PROVE  /\ call'[d].at <= now'
                 /\ pc'[d] \in {"check", "insert"} => call'[d].until <= now' + Earned
      <3>1. CASE d = c
        BY <1>0, <2>1, <3>1 DEF LockoutInv, LockoutTypeOK
      <3>2. CASE d # c
        <4>1. call'[d] = call[d] /\ pc'[d] = pc[d]
          BY <2>1, <3>2 DEF LockoutInv, LockoutTypeOK
        <4> QED BY <2>1, <4>1 DEF LockoutInv, LockEarned, ReadingsPast, CountsPast
      <3> QED BY <3>1, <3>2
    <2>4. LockEarned' /\ ReadingsPast' /\ CountsPast'
      BY <2>1, <2>3, EarnedSame DEF LockoutInv, LockEarned, ReadingsPast, CountsPast
    <2> QED BY <2>2, <2>4 DEF LockoutInv
  <1>10. CASE CleanupFails(c)
    BY <1>0, <1>10, ReturnStep DEF CleanupFails
  <1> QED BY <1>1, <1>2, <1>3, <1>4, <1>5, <1>6, <1>7, <1>8, <1>9, <1>10 DEF CallerStep

\* Every step keeps the invariant.
LEMMA LockoutInvStep == LockoutInv /\ [LockoutNext]_lockoutVars => LockoutInv'
  <1> SUFFICES ASSUME LockoutInv, [LockoutNext]_lockoutVars PROVE LockoutInv'
    OBVIOUS
  <1>1. CASE \E c \in Callers : CallerStep(c)
    BY <1>1, CallerKeeps
  <1>2. CASE Tick
    <2>1. /\ now \in 0..MaxNow /\ now' = now + 1 /\ now' \in 0..MaxNow /\ Earned \in Nat
          /\ MaxNow \in Nat /\ UNCHANGED <<lock, fails, pc, call, reports>>
      BY <1>2, EarnedType, LockoutAssumption DEF Tick, LockoutInv, LockoutTypeOK
    <2>2. LockoutTypeOK'
      BY <2>1 DEF LockoutInv, LockoutTypeOK
    <2>3. lock' <= now' + Earned
      BY <2>1 DEF LockoutInv, LockoutTypeOK, LockEarned, NoLock
    <2>4. ASSUME NEW c \in Callers
          PROVE  /\ call'[c].at <= now'
                 /\ pc'[c] \in {"check", "insert"} => call'[c].until <= now' + Earned
      <3>1. call[c].at \in Nat /\ call[c].until \in Nat
        BY <2>1 DEF LockoutInv, LockoutTypeOK
      <3> QED BY <2>1, <3>1 DEF LockoutInv, LockEarned, ReadingsPast, CountsPast
    <2>5. LockEarned' /\ ReadingsPast' /\ CountsPast'
      BY <2>1, <2>3, <2>4, EarnedSame DEF LockoutInv, LockEarned, ReadingsPast, CountsPast
    <2> QED BY <2>2, <2>5 DEF LockoutInv
  <1>3. CASE UNCHANGED lockoutVars
    BY <1>3, EarnedSame
       DEF lockoutVars, LockoutInv, LockoutTypeOK, LockEarned, ReadingsPast, CountsPast
  <1> QED BY <1>1, <1>2, <1>3 DEF LockoutNext

\* The strengthened invariant always holds.
LEMMA LockoutInvariance == LockoutSpec => []LockoutInv
  BY LockoutInvInit, LockoutInvStep, PTL DEF LockoutSpec

\* The fails map, the lockouts and the callers keep their types.
THEOREM LockoutTyped == LockoutSpec => []LockoutTypeOK
  <1>1. LockoutInv => LockoutTypeOK
    BY DEF LockoutInv
  <1> QED BY <1>1, LockoutInvariance, PTL

\* Whatever the interleaving of record_failure, is_locked, clear and cleanup,
\* no lockout reaches further than the failures counted so far have earned.
THEOREM LockoutsEarned == LockoutSpec => []LockEarned
  <1>1. LockoutInv => LockEarned
    BY DEF LockoutInv
  <1> QED BY <1>1, LockoutInvariance, PTL
-----------------------------------------------------------------------------
(* The gate of a client.                                                   *)

\* The requests past check_lockout whose failure may still be recorded, and
\* those between the length and the insert of save.
Late == {r \in Requests : req[r].at \in {"checked", "failed"}}
Saving == {r \in Requests : req[r].at = "saving"}

\* As long as no lockout is set, the limit is not reached; once one is set,
\* only the requests already past the check add to the attempts.
AttemptsCovered ==
    IF lockedFor = NotLocked THEN Len(attempts) < MaxAttempts
    ELSE Len(attempts) + Cardinality(Late) < MaxAttempts + Cardinality(Requests)

\* The answers held and those about to be inserted.
StoreCovered == Cardinality(Held) + Cardinality(Saving) < MaxEntries + Cardinality(Requests)

GateInv == GateTypeOK /\ AttemptsCovered /\ StoreCovered /\ SavedIsThere

\* The constants as numbers, and the sets that are counted.
LEMMA GateFacts ==
    /\ MaxAttempts \in Nat /\ MaxAttempts > 0 /\ Lockout \in Nat /\ Lockout > 0
    /\ Window \in Nat /\ Window > 0 /\ MaxEntries \in Nat /\ MaxEntries > 0
    /\ AttemptWindow \in Nat
    /\ IsFiniteSet(Requests) /\ IsFiniteSet(IdemKeys) /\ Cardinality(Requests) \in Nat
    /\ Idle \in [at : Stages, key : IdemKeys] /\ Idle.at = "idle"
  <1>1. IsFiniteSet(Requests) /\ IsFiniteSet(IdemKeys)
    BY GateAssumption, FS_Subset, Requests \in SUBSET (Requests \union IdemKeys),
       IdemKeys \in SUBSET (Requests \union IdemKeys)
  <1>2. Cardinality(Requests) \in Nat
    BY <1>1, FS_CardinalityType
  <1>3. (CHOOSE i \in IdemKeys : TRUE) \in IdemKeys
    BY GateAssumption
  <1>4. Idle \in [at : Stages, key : IdemKeys] /\ Idle.at = "idle"
    BY <1>3 DEF Idle, Stages
  <1> QED BY <1>1, <1>2, <1>4, GateAssumption

\* Popping from the front leaves a sequence of attempts that is no longer.
LEMMA RecentFacts ==
    ASSUME NEW S, NEW ages \in Seq(S)
    PROVE  Recent(ages) \in Seq(S) /\ Len(Recent(ages)) <= Len(ages)
  <1> DEFINE n == Cardinality(Popped(ages))
             len == Len(ages)
  <1>1. len \in Nat /\ \A i \in 1 .. len : ages[i] \in S
    BY LenProperties
  <1>2. Popped(ages) \in SUBSET (1 .. len)
    BY DEF Popped
  <1> HIDE DEF len
  <1>3. IsFiniteSet(1 .. len) /\ Cardinality(1 .. len) = len
    BY <1>1, FS_Interval
  <1>4. IsFiniteSet(Popped(ages)) /\ n <= len
    BY <1>2, <1>3, FS_Subset
  <1>5. n \in Nat
    BY <1>4, FS_CardinalityType
  <1> HIDE DEF n
  <1>6. /\ SubSeq(ages, n + 1, len) \in Seq(S)
        /\ Len(SubSeq(ages, n + 1, len)) = IF n + 1 <= len THEN len - (n + 1) + 1 ELSE 0
    <2>1. n + 1 \in Int /\ len \in Int /\ \A i \in (n + 1) .. len : ages[i] \in S
      BY <1>1, <1>5
    <2> QED BY <2>1, SubSeqProperties
  <1>7. (IF n + 1 <= len THEN len - (n + 1) + 1 ELSE 0) <= len
    BY <1>1, <1>4, <1>5
  <1> QED BY <1>6, <1>7 DEF Recent, n, len

\* The counted sets are finite.
LEMMA CountedSets ==
    /\ IsFiniteSet(Late) /\ Cardinality(Late) \in Nat /\ Cardinality(Late) <= Cardinality(Requests)
    /\ IsFiniteSet(Saving) /\ Cardinality(Saving) \in Nat
    /\ Cardinality(Saving) <= Cardinality(Requests)
    /\ IsFiniteSet(Held) /\ Cardinality(Held) \in Nat
  <1>1. Late \in SUBSET Requests /\ Saving \in SUBSET Requests /\ Held \in SUBSET IdemKeys
    BY DEF Late, Saving, Held
  <1> QED BY <1>1, GateFacts, FS_Subset, FS_CardinalityType

\* The same in the next state, and a set that does not grow.
LEMMA CountedSetsNext ==
    /\ IsFiniteSet(Late') /\ Cardinality(Late') \in Nat
    /\ Cardinality(Late') <= Cardinality(Requests)
    /\ IsFiniteSet(Saving') /\ Cardinality(Saving') \in Nat
    /\ Cardinality(Saving') <= Cardinality(Requests)
    /\ IsFiniteSet(Held') /\ Cardinality(Held') \in Nat
    /\ (Late' \subseteq Late => Cardinality(Late') <= Cardinality(Late))
    /\ (Saving' \subseteq Saving => Cardinality(Saving') <= Cardinality(Saving))
    /\ (Held' \subseteq Held => Cardinality(Held') <= Cardinality(Held))
  <1>1. Late' \in SUBSET Requests /\ Saving' \in SUBSET Requests /\ Held' \in SUBSET IdemKeys
    BY DEF Late, Saving, Held
  <1>2. IsFiniteSet(Late) /\ IsFiniteSet(Saving) /\ IsFiniteSet(Held)
    BY CountedSets
  <1>3. /\ (Late' \subseteq Late => Cardinality(Late') <= Cardinality(Late))
        /\ (Saving' \subseteq Saving => Cardinality(Saving') <= Cardinality(Saving))
        /\ (Held' \subseteq Held => Cardinality(Held') <= Cardinality(Held))
    BY <1>2, FS_Subset
  <1> QED BY <1>1, <1>3, GateFacts, FS_Subset, FS_CardinalityType

\* A step of a request that leaves the registry and the store alone, and
\* neither passes check_lockout nor the length check of save.
LEMMA GateQuiet ==
    ASSUME GateInv, GateTypeOK', UNCHANGED <<registry, store>>,
           Late' \subseteq Late, Saving' \subseteq Saving
    PROVE  GateInv'
  <1>1. /\ attempts' = attempts /\ lockedFor' = lockedFor
        /\ entries' = entries /\ last' = last /\ clobbered' = clobbered /\ Held' = Held
    BY DEF registry, store, Held
  <1>2. Len(attempts) \in Nat
    BY DEF GateInv, GateTypeOK
  <1>3. AttemptsCovered'
    BY <1>1, <1>2, CountedSets, CountedSetsNext, GateFacts DEF GateInv, AttemptsCovered
  <1>4. StoreCovered'
    BY <1>1, CountedSets, CountedSetsNext, GateFacts DEF GateInv, StoreCovered
  <1>5. SavedIsThere'
    BY <1>1 DEF GateInv, SavedIsThere
  <1> QED BY <1>3, <1>4, <1>5 DEF GateInv

\* A request that goes to another stage, or ends.
LEMMA ToFacts ==
    ASSUME GateTypeOK, NEW r \in Requests, NEW v \in [at : Stages, key : IdemKeys],
           req' = [req EXCEPT ![r] = v]
    PROVE  /\ req' \in [Requests -> [at : Stages, key : IdemKeys]]
           /\ req'[r] = v /\ \A q \in Requests : q # r => req'[q] = req[q]
           /\ (v.at \notin {"checked", "failed"} => Late' = Late \ {r})
           /\ (v.at # "saving" => Saving' = Saving \ {r})
           /\ (v.at \in {"checked", "failed"} => Late' = Late \union {r})
           /\ (v.at = "saving" => Saving' = Saving \union {r})
  <1>1. /\ req' \in [Requests -> [at : Stages, key : IdemKeys]]
        /\ req'[r] = v /\ \A q \in Requests : q # r => req'[q] = req[q]
    BY DEF GateTypeOK
  <1> QED BY <1>1 DEF Late, Saving

\* What the actions write is such a stage.
LEMMA StageFacts ==
    ASSUME GateTypeOK, NEW r \in Requests
    PROVE  /\ req[r] \in [at : Stages, key : IdemKeys]
           /\ \A stage \in Stages : To(r, stage) =>
                 \E v \in [at : Stages, key : IdemKeys] :
                    v.at = stage /\ v.key = req[r].key /\ req' = [req EXCEPT ![r] = v]
           /\ (Ends(r) => req' = [req EXCEPT ![r] = Idle])
  <1>1. req[r] \in [at : Stages, key : IdemKeys] /\ req \in [Requests -> [at : Stages, key : IdemKeys]]
    BY DEF GateTypeOK
  <1>2. ASSUME NEW stage \in Stages, To(r, stage)
        PROVE  \E v \in [at : Stages, key : IdemKeys] :
                  v.at = stage /\ v.key = req[r].key /\ req' = [req EXCEPT ![r] = v]
    <2> DEFINE v == [at |-> stage, key |-> req[r].key]
    <2>1. v \in [at : Stages, key : IdemKeys] /\ v.at = stage /\ v.key = req[r].key
      BY <1>1
    <2>2. req' = [req EXCEPT ![r] = v]
      <3>1. req' = [req EXCEPT ![r] = [req[r] EXCEPT !.at = stage]]
        BY <1>2 DEF To
      <3>2. [req[r] EXCEPT !.at = stage] = v
        BY <1>1
      <3> QED BY <3>1, <3>2
    <2> HIDE DEF v
    <2> QED BY <2>1, <2>2
  <1> QED BY <1>1, <1>2 DEF Ends

\* authorize_client, the idempotency check and requests that end unanswered.
LEMMA GateQuietSteps ==
    ASSUME GateInv, NEW r \in Requests, Authorize(r) \/ CheckIdem(r) \/ NoAnswer(r)
    PROVE  GateInv'
  <1>1. GateTypeOK /\ UNCHANGED <<known, registry, store>>
    BY DEF GateInv, Authorize, CheckIdem, NoAnswer
  <1>2. PICK v \in [at : Stages, key : IdemKeys] :
           /\ req' = [req EXCEPT ![r] = v] /\ v.at # "saving" /\ v.at # "checked"
           /\ (v.at = "failed" => req[r].at = "checked")
    <2>1. CASE Authorize(r)
      BY <1>1, <2>1, StageFacts DEF Authorize, Stages
    <2>2. CASE CheckIdem(r)
      BY <1>1, <2>2, StageFacts, GateFacts DEF CheckIdem, Stages
    <2>3. CASE NoAnswer(r)
      BY <1>1, <2>3, StageFacts, GateFacts DEF NoAnswer
    <2> QED BY <2>1, <2>2, <2>3
  <1>3. Late' \subseteq Late /\ Saving' \subseteq Saving
    BY <1>1, <1>2, ToFacts DEF Late, Saving
  <1>4. GateTypeOK'
    BY <1>1, <1>2, ToFacts DEF GateTypeOK, registry, store
  <1> QED BY <1>1, <1>3, <1>4, GateQuiet

\* check_lockout lets a request pass only when no lockout is running, and
\* one that is over is cleared with its attempts.
LEMMA CheckLockoutStep ==
    ASSUME GateInv, NEW r \in Requests, CheckLockout(r)
    PROVE  GateInv'
  <1>1. /\ GateTypeOK /\ UNCHANGED <<known, store>> /\ lockedFor' = NotLocked
        /\ attempts' = IF lockedFor = NotLocked THEN Recent(attempts) ELSE << >>
    BY DEF GateInv, CheckLockout
  <1>2. PICK i \in IdemKeys : req' = [req EXCEPT ![r] = [at |-> "checked", key |-> i]]
    BY DEF CheckLockout
  <1> DEFINE v == [at |-> "checked", key |-> i]
  <1>3. v \in [at : Stages, key : IdemKeys] /\ v.at = "checked" /\ req' = [req EXCEPT ![r] = v]
    BY <1>2 DEF Stages
  <1> HIDE DEF v
  <1>4. Saving' \subseteq Saving /\ req' \in [Requests -> [at : Stages, key : IdemKeys]]
    <2>1. v.at # "saving"
      BY <1>3
    <2>2. Saving' = Saving \ {r} /\ req' \in [Requests -> [at : Stages, key : IdemKeys]]
      BY <1>1, <1>3, <2>1, ToFacts
    <2> QED BY <2>2
  <1>5. /\ attempts' \in Seq(0 .. AttemptWindow + 1) /\ Len(attempts') < MaxAttempts
    <2>1. attempts \in Seq(0 .. AttemptWindow + 1) /\ Len(attempts) \in Nat
      BY <1>1 DEF GateTypeOK
    <2>2. CASE lockedFor = NotLocked
      <3>1. Len(attempts) < MaxAttempts
        BY <2>2 DEF GateInv, AttemptsCovered
      <3>2. /\ attempts' = Recent(attempts) /\ Recent(attempts) \in Seq(0 .. AttemptWindow + 1)
            /\ Len(Recent(attempts)) <= Len(attempts)
        BY <1>1, <2>1, <2>2, RecentFacts
      <3>3. Len(Recent(attempts)) \in Nat
        BY <3>2
      <3> QED BY <2>1, <3>1, <3>2, <3>3, GateFacts
    <2>3. CASE lockedFor # NotLocked
      BY <1>1, <2>3, GateFacts
    <2> QED BY <2>2, <2>3
  <1>6. GateTypeOK'
    BY <1>1, <1>4, <1>5, GateFacts DEF GateTypeOK, store, NotLocked
  <1>7. AttemptsCovered'
    BY <1>1, <1>5 DEF AttemptsCovered
  <1>8. StoreCovered' /\ SavedIsThere'
    <2>1. entries' = entries /\ last' = last /\ clobbered' = clobbered /\ Held' = Held
      BY <1>1 DEF store, Held
    <2>2. StoreCovered'
      BY <1>4, <2>1, CountedSets, CountedSetsNext, GateFacts DEF GateInv, StoreCovered
    <2> QED BY <2>1, <2>2 DEF GateInv, SavedIsThere
  <1> QED BY <1>6, <1>7, <1>8 DEF GateInv

\* A failure is recorded: before the lockout the count stays below the limit
\* or reaches it and sets the lockout, and then one request less is late.
LEMMA RecordFailedStep ==
    ASSUME GateInv, NEW r \in Requests, RecordFailedAttempt(r)
    PROVE  GateInv'
  <1>1. /\ GateTypeOK /\ UNCHANGED <<known, store>> /\ req[r].at = "failed"
        /\ attempts' = Append(Recent(attempts), 0)
        /\ lockedFor' = IF Len(attempts') >= MaxAttempts THEN Lockout ELSE lockedFor
        /\ req' = [req EXCEPT ![r] = Idle]
    BY DEF GateInv, RecordFailedAttempt, Ends
  <1>2. /\ Late' = Late \ {r} /\ Saving' \subseteq Saving
        /\ req' \in [Requests -> [at : Stages, key : IdemKeys]]
    BY <1>1, ToFacts, GateFacts
  <1>3. r \in Late
    BY <1>1 DEF Late
  <1>4. Cardinality(Late') = Cardinality(Late) - 1
    BY <1>2, <1>3, CountedSets, FS_RemoveElement
  <1>5. /\ attempts' \in Seq(0 .. AttemptWindow + 1) /\ Len(attempts) \in Nat
        /\ Len(attempts') \in Nat /\ Len(attempts') <= Len(attempts) + 1
    <2>1. attempts \in Seq(0 .. AttemptWindow + 1) /\ Len(attempts) \in Nat
      BY <1>1 DEF GateTypeOK
    <2>2. Recent(attempts) \in Seq(0 .. AttemptWindow + 1) /\ Len(Recent(attempts)) <= Len(attempts)
      BY <2>1, RecentFacts
    <2>3. 0 \in 0 .. AttemptWindow + 1
      BY GateFacts
    <2>4. /\ Append(Recent(attempts), 0) \in Seq(0 .. AttemptWindow + 1)
          /\ Len(Append(Recent(attempts), 0)) = Len(Recent(attempts)) + 1
          /\ Len(Recent(attempts)) \in Nat
      BY <2>2, <2>3, AppendProperties, LenProperties
    <2> QED BY <1>1, <2>1, <2>2, <2>4
  <1>6. GateTypeOK'
    <2>1. lockedFor' \in NotLocked .. Lockout
      BY <1>1, GateFacts DEF GateTypeOK, NotLocked
    <2> QED BY <1>1, <1>2, <1>5, <2>1 DEF GateTypeOK, store
  <1>7. AttemptsCovered'
    <2>1. CASE lockedFor = NotLocked
      <3>1. Len(attempts) < MaxAttempts
        BY <2>1 DEF GateInv, AttemptsCovered
      <3>2. CASE Len(attempts') >= MaxAttempts
        BY <1>1, <1>4, <1>5, <3>1, <3>2, CountedSets, GateFacts DEF AttemptsCovered, NotLocked
      <3>3. CASE ~(Len(attempts') >= MaxAttempts)
        BY <1>1, <1>5, <2>1, <3>3, GateFacts DEF AttemptsCovered
      <3> QED BY <3>2, <3>3
    <2>2. CASE lockedFor # NotLocked
      <3>1. Len(attempts) + Cardinality(Late) < MaxAttempts + Cardinality(Requests)
        BY <2>2 DEF GateInv, AttemptsCovered
      <3>2. lockedFor' # NotLocked
        BY <1>1, <2>2, GateFacts DEF NotLocked
      <3> QED BY <1>4, <1>5, <3>1, <3>2, CountedSets, GateFacts DEF AttemptsCovered
    <2> QED BY <2>1, <2>2
  <1>8. StoreCovered' /\ SavedIsThere'
    <2>1. entries' = entries /\ last' = last /\ clobbered' = clobbered /\ Held' = Held
      BY <1>1 DEF store, Held
    <2>2. StoreCovered'
      BY <1>2, <2>1, CountedSets, CountedSetsNext, GateFacts DEF GateInv, StoreCovered
    <2> QED BY <2>1, <2>2 DEF GateInv, SavedIsThere
  <1> QED BY <1>6, <1>7, <1>8 DEF GateInv

\* A success forgets the client.
LEMMA RecordSuccessStep ==
    ASSUME GateInv, NEW r \in Requests, RecordSuccess(r)
    PROVE  GateInv'
  <1>1. /\ GateTypeOK /\ UNCHANGED <<known, store>> /\ attempts' = << >> /\ lockedFor' = NotLocked
        /\ To(r, "cleared")
    BY DEF GateInv, RecordSuccess
  <1>2. PICK v \in [at : Stages, key : IdemKeys] : v.at = "cleared" /\ req' = [req EXCEPT ![r] = v]
    BY <1>1, StageFacts DEF Stages
  <1>3. Saving' \subseteq Saving /\ req' \in [Requests -> [at : Stages, key : IdemKeys]]
    <2>1. v.at # "saving"
      BY <1>2
    <2>2. Saving' = Saving \ {r} /\ req' \in [Requests -> [at : Stages, key : IdemKeys]]
      BY <1>1, <1>2, <2>1, ToFacts
    <2> QED BY <2>2
  <1>4. attempts' \in Seq(0 .. AttemptWindow + 1) /\ Len(attempts') = 0
    BY <1>1
  <1>5. GateTypeOK' /\ AttemptsCovered'
    BY <1>1, <1>3, <1>4, GateFacts DEF GateTypeOK, AttemptsCovered, store, NotLocked
  <1>6. StoreCovered' /\ SavedIsThere'
    <2>1. entries' = entries /\ last' = last /\ clobbered' = clobbered /\ Held' = Held
      BY <1>1 DEF store, Held
    <2>2. StoreCovered'
      BY <1>3, <2>1, CountedSets, CountedSetsNext, GateFacts DEF GateInv, StoreCovered
    <2> QED BY <2>1, <2>2 DEF GateInv, SavedIsThere
  <1> QED BY <1>5, <1>6 DEF GateInv

\* The steps that leave the registry and the late requests alone.
LEMMA RegistryStill ==
    ASSUME GateInv, UNCHANGED registry, Late' \subseteq Late
    PROVE  AttemptsCovered'
  <1>1. attempts' = attempts /\ lockedFor' = lockedFor /\ Len(attempts) \in Nat
    BY DEF registry, GateInv, GateTypeOK
  <1> QED BY <1>1, CountedSets, CountedSetsNext, GateFacts DEF GateInv, AttemptsCovered

\* The check removes an expired answer by its key, or a fresh one that has
\* taken its place: then the key is clobbered.
LEMMA RemoveStaleStep ==
    ASSUME GateInv, NEW r \in Requests, RemoveStale(r)
    PROVE  GateInv'
  <1> DEFINE k == req[r].key
  <1>1. /\ GateTypeOK /\ UNCHANGED <<known, registry, last>> /\ To(r, "serving")
        /\ entries' = [entries EXCEPT ![k] = None]
        /\ clobbered' = IF entries[k] \in 0 .. Window - 1 THEN clobbered \union {k} ELSE clobbered
    BY DEF GateInv, RemoveStale
  <1>2. k \in IdemKeys
    BY <1>1 DEF GateTypeOK
  <1> HIDE DEF k
  <1>3. PICK v \in [at : Stages, key : IdemKeys] : v.at = "serving" /\ req' = [req EXCEPT ![r] = v]
    BY <1>1, StageFacts DEF Stages
  <1>4. v.at \notin {"checked", "failed"} /\ v.at # "saving"
    BY <1>3
  <1>5. /\ Late' = Late \ {r} /\ Saving' = Saving \ {r}
        /\ req' \in [Requests -> [at : Stages, key : IdemKeys]]
    BY <1>1, <1>3, <1>4, ToFacts
  <1>6. Late' \subseteq Late /\ Saving' \subseteq Saving
    BY <1>5
  <1>7. /\ entries' \in [IdemKeys -> None .. Window] /\ entries'[k] = None
        /\ \A i \in IdemKeys : i # k => entries'[i] = entries[i]
    BY <1>1, <1>2, GateFacts DEF GateTypeOK, None
  <1>8. GateTypeOK'
    BY <1>1, <1>2, <1>5, <1>7 DEF GateTypeOK, registry
  <1>9. Held' \subseteq Held
    BY <1>1, <1>2, <1>7 DEF Held
  <1>10. StoreCovered'
    BY <1>6, <1>9, CountedSets, CountedSetsNext, GateFacts DEF GateInv, StoreCovered
  <1>11. SavedIsThere'
    <2>1. SUFFICES ASSUME NEW i \in IdemKeys, last[i] \in 0 .. Window - 1
                   PROVE  entries'[i] = last[i] \/ i \in clobbered'
      BY <1>1 DEF SavedIsThere
    <2>2. entries[i] = last[i] \/ i \in clobbered
      BY <2>1 DEF GateInv, SavedIsThere
    <2>3. clobbered \subseteq clobbered'
      BY <1>1
    <2>4. CASE i # k
      BY <1>7, <2>2, <2>3, <2>4
    <2>5. CASE i = k /\ entries[i] = last[i]
      BY <1>1, <2>1, <2>5
    <2>6. CASE i \in clobbered
      BY <2>3, <2>6
    <2> QED BY <2>2, <2>4, <2>5, <2>6
  <1> QED BY <1>1, <1>6, <1>8, <1>10, <1>11, RegistryStill DEF GateInv

\* The length is read: whoever goes on has seen room.
LEMMA HasRoomStep ==
    ASSUME GateInv, NEW r \in Requests, HasRoom(r)
    PROVE  GateInv'
  <1>1. GateTypeOK /\ UNCHANGED <<known, registry, store>> /\ req[r].at = "serving"
    BY DEF GateInv, HasRoom
  <1>2. CASE Cardinality(Held) >= MaxEntries
    <2>1. req' = [req EXCEPT ![r] = Idle]
      BY <1>2 DEF HasRoom, Ends
    <2>2. /\ Late' = Late \ {r} /\ Saving' = Saving \ {r}
          /\ req' \in [Requests -> [at : Stages, key : IdemKeys]]
      BY <1>1, <2>1, ToFacts, GateFacts
    <2>3. Late' \subseteq Late /\ Saving' \subseteq Saving
      BY <2>2
    <2>4. GateTypeOK'
      BY <1>1, <2>2 DEF GateTypeOK, registry, store
    <2> QED BY <1>1, <2>3, <2>4, GateQuiet
  <1>3. CASE ~(Cardinality(Held) >= MaxEntries)
    <2>1. PICK v \in [at : Stages, key : IdemKeys] : v.at = "saving" /\ req' = [req EXCEPT ![r] = v]
      BY <1>1, <1>3, StageFacts DEF HasRoom, Stages
    <2>2. v.at \notin {"checked", "failed"}
      BY <2>1
    <2>3. Late' = Late \ {r} /\ req' \in [Requests -> [at : Stages, key : IdemKeys]]
      BY <1>1, <2>1, <2>2, ToFacts
    <2>4. Late' \subseteq Late
      BY <2>3
    <2>5. entries' = entries /\ last' = last /\ clobbered' = clobbered /\ Held' = Held
      BY <1>1 DEF store, Held
    <2>6. StoreCovered'
      BY <1>3, <2>5, CountedSets, CountedSetsNext, GateFacts DEF StoreCovered
    <2>7. GateTypeOK' /\ SavedIsThere'
      BY <1>1, <2>3, <2>5 DEF GateTypeOK, SavedIsThere, GateInv, registry
    <2> QED BY <1>1, <2>4, <2>6, <2>7, RegistryStill DEF GateInv
  <1> QED BY <1>2, <1>3

\* The insert adds one answer at most, and one request less is saving.
LEMMA SaveStep ==
    ASSUME GateInv, NEW r \in Requests, Save(r)
    PROVE  GateInv'
  <1> DEFINE k == req[r].key
  <1>1. /\ GateTypeOK /\ UNCHANGED <<known, registry>> /\ req[r].at = "saving"
        /\ entries' = [entries EXCEPT ![k] = 0] /\ last' = [last EXCEPT ![k] = 0]
        /\ clobbered' = clobbered \ {k} /\ req' = [req EXCEPT ![r] = Idle]
    BY DEF GateInv, Save, Ends
  <1>2. k \in IdemKeys
    BY <1>1 DEF GateTypeOK
  <1> HIDE DEF k
  <1>3. /\ Late' = Late \ {r} /\ Saving' = Saving \ {r}
        /\ req' \in [Requests -> [at : Stages, key : IdemKeys]]
    BY <1>1, ToFacts, GateFacts
  <1>4. Late' \subseteq Late
    BY <1>3
  <1>5. /\ entries' \in [IdemKeys -> None .. Window] /\ last' \in [IdemKeys -> None .. Window]
        /\ entries'[k] = 0 /\ last'[k] = 0
        /\ \A i \in IdemKeys : i # k => entries'[i] = entries[i] /\ last'[i] = last[i]
    BY <1>1, <1>2, GateFacts DEF GateTypeOK, None
  <1>6. GateTypeOK'
    BY <1>1, <1>3, <1>5 DEF GateTypeOK, registry
  <1>7. StoreCovered'
    <2>0. r \in Saving
      BY <1>1 DEF Saving
    <2>1. Cardinality(Saving') = Cardinality(Saving) - 1
      BY <1>3, <2>0, CountedSets, FS_RemoveElement
    <2>2. Held' = Held \union {k}
      BY <1>2, <1>5 DEF Held, None
    <2>3. Cardinality(Held') <= Cardinality(Held) + 1
      <3>1. \/ Cardinality(Held \union {k}) = Cardinality(Held)
            \/ Cardinality(Held \union {k}) = Cardinality(Held) + 1
        BY CountedSets, FS_AddElement
      <3>2. Cardinality(Held) \in Nat
        BY CountedSets
      <3> QED BY <2>2, <3>1, <3>2
    <2> QED BY <2>1, <2>3, CountedSets, CountedSetsNext, GateFacts DEF GateInv, StoreCovered
  <1>8. SavedIsThere'
    BY <1>1, <1>5 DEF GateInv, SavedIsThere
  <1> QED BY <1>1, <1>4, <1>6, <1>7, <1>8, RegistryStill DEF GateInv

\* The background task removes what has expired and nothing else.
LEMMA CleanupStep ==
    ASSUME GateInv, CleanupExpired
    PROVE  GateInv'
  <1>1. /\ GateTypeOK /\ UNCHANGED <<known, registry, req, last, clobbered>>
        /\ entries' = [i \in IdemKeys |-> IF entries[i] < Window THEN entries[i] ELSE None]
    BY DEF GateInv, CleanupExpired
  <1>2. Late' = Late /\ Saving' = Saving
    BY <1>1 DEF Late, Saving
  <1>3. entries' \in [IdemKeys -> None .. Window]
    BY <1>1, GateFacts DEF GateTypeOK, None
  <1>4. GateTypeOK'
    BY <1>1, <1>3 DEF GateTypeOK, registry
  <1>5. Held' \subseteq Held
    BY <1>1 DEF Held
  <1>6. StoreCovered'
    BY <1>2, <1>5, CountedSets, CountedSetsNext, GateFacts DEF GateInv, StoreCovered
  <1>7. SavedIsThere'
    <2>1. SUFFICES ASSUME NEW i \in IdemKeys, last[i] \in 0 .. Window - 1
                   PROVE  entries'[i] = last[i] \/ i \in clobbered
      BY <1>1 DEF SavedIsThere
    <2>2. entries[i] = last[i] \/ i \in clobbered
      BY <2>1 DEF GateInv, SavedIsThere
    <2> QED BY <1>1, <2>1, <2>2, GateFacts
  <1> QED BY <1>1, <1>2, <1>4, <1>6, <1>7, RegistryStill DEF GateInv

\* An age stays in its range, and only what is not there has none.
LEMMA AgedFacts ==
    ASSUME NEW cap \in Nat, NEW age \in -1 .. cap
    PROVE  /\ Aged(age, cap) \in -1 .. cap
           /\ (age \in 0 .. cap => Aged(age, cap) \in 0 .. cap)
           /\ (Aged(age, cap) = -1 <=> age = -1)
           /\ (Aged(age, cap) \in 0 .. cap - 1 => age \in 0 .. cap - 1)
  BY DEF Aged

\* A tick ages the last answer saved and the one stored alike.
LEMMA GateTickStep ==
    ASSUME GateInv, GateTick
    PROVE  GateInv'
  <1>1. /\ GateTypeOK /\ UNCHANGED <<known, req, clobbered>>
        /\ attempts' = [n \in DOMAIN attempts |-> Aged(attempts[n], AttemptWindow + 1)]
        /\ lockedFor' = IF lockedFor > 0 THEN lockedFor - 1 ELSE lockedFor
        /\ entries' = [i \in IdemKeys |-> Aged(entries[i], Window)]
        /\ last' = [i \in IdemKeys |-> Aged(last[i], Window)]
    BY DEF GateInv, GateTick
  <1>2. Late' = Late /\ Saving' = Saving
    BY <1>1 DEF Late, Saving
  <1>3. \A i \in IdemKeys : entries[i] \in -1 .. Window /\ last[i] \in -1 .. Window
    BY <1>1 DEF GateTypeOK, None
  <1>4. /\ \A i \in IdemKeys : Aged(entries[i], Window) \in -1 .. Window
        /\ \A i \in IdemKeys : Aged(last[i], Window) \in -1 .. Window
        /\ \A i \in IdemKeys : Aged(entries[i], Window) = -1 <=> entries[i] = -1
        /\ \A i \in IdemKeys : Aged(last[i], Window) \in 0 .. Window - 1 => last[i] \in 0 .. Window - 1
    <2>1. ASSUME NEW i \in IdemKeys
          PROVE  /\ Aged(entries[i], Window) \in -1 .. Window
                 /\ Aged(last[i], Window) \in -1 .. Window
                 /\ (Aged(entries[i], Window) = -1 <=> entries[i] = -1)
                 /\ (Aged(last[i], Window) \in 0 .. Window - 1 => last[i] \in 0 .. Window - 1)
      <3>1. Window \in Nat /\ entries[i] \in -1 .. Window /\ last[i] \in -1 .. Window
        BY <1>3, GateFacts
      <3> QED BY <3>1, AgedFacts
    <2> QED BY <2>1
  <1>5. entries' \in [IdemKeys -> None .. Window] /\ last' \in [IdemKeys -> None .. Window]
    BY <1>1, <1>4 DEF None
  <1>6. attempts' \in Seq(0 .. AttemptWindow + 1) /\ Len(attempts') = Len(attempts)
    <2> DEFINE len == Len(attempts)
               cap == AttemptWindow + 1
    <2>1. len \in Nat /\ DOMAIN attempts = 1 .. len /\ \A n \in 1 .. len : attempts[n] \in 0 .. cap
      BY <1>1, LenProperties DEF GateTypeOK
    <2>2. cap \in Nat
      BY GateFacts
    <2> HIDE DEF len, cap
    <2>3. \A n \in 1 .. len : Aged(attempts[n], cap) \in 0 .. cap
      <3> SUFFICES ASSUME NEW n \in 1 .. len PROVE Aged(attempts[n], cap) \in 0 .. cap
        OBVIOUS
      <3>1. attempts[n] \in 0 .. cap /\ attempts[n] \in -1 .. cap
        BY <2>1, <2>2
      <3> QED BY <2>2, <3>1, AgedFacts
    <2>4. attempts' = [n \in 1 .. len |-> Aged(attempts[n], cap)]
      BY <1>1, <2>1 DEF cap
    <2>5. attempts' \in Seq(0 .. cap) /\ Len(attempts') = len
      BY <2>1, <2>3, <2>4
    <2> QED BY <2>5 DEF len, cap
  <1>7. /\ lockedFor' \in NotLocked .. Lockout
        /\ (lockedFor' = NotLocked <=> lockedFor = NotLocked)
    BY <1>1, GateFacts DEF GateTypeOK, NotLocked
  <1>8. GateTypeOK'
    BY <1>1, <1>5, <1>6, <1>7 DEF GateTypeOK
  <1>9. AttemptsCovered'
    BY <1>2, <1>6, <1>7 DEF GateInv, AttemptsCovered
  <1>10. Held' = Held
    BY <1>1, <1>4 DEF Held, None
  <1>11. StoreCovered'
    BY <1>2, <1>10 DEF GateInv, StoreCovered
  <1>12. SavedIsThere'
    <2>1. SUFFICES ASSUME NEW i \in IdemKeys, last'[i] \in 0 .. Window - 1
                   PROVE  entries'[i] = last'[i] \/ i \in clobbered
      BY <1>1 DEF SavedIsThere
    <2>2. last[i] \in 0 .. Window - 1
      BY <1>1, <1>4, <2>1
    <2>3. entries[i] = last[i] \/ i \in clobbered
      BY <2>2 DEF GateInv, SavedIsThere
    <2> QED BY <1>1, <2>3
  <1> QED BY <1>8, <1>9, <1>11, <1>12 DEF GateInv

LEMMA GateStarts == Init => GateInv
  <1> SUFFICES ASSUME Init PROVE GateInv
    OBVIOUS
  <1>1. GateTypeOK
    BY GateFacts DEF Init, GateTypeOK, None, NotLocked
  <1>2. Held = {} /\ Saving = {} /\ Late = {} /\ Cardinality({}) = 0
    BY GateFacts, FS_EmptySet DEF Init, Held, Saving, Late
  <1>3. Len(attempts) = 0 /\ lockedFor = NotLocked
    BY DEF Init
  <1>4. AttemptsCovered /\ StoreCovered
    BY <1>2, <1>3, GateFacts DEF AttemptsCovered, StoreCovered
  <1>5. SavedIsThere
    BY DEF Init, SavedIsThere, None
  <1> QED BY <1>1, <1>4, <1>5 DEF GateInv

LEMMA GateKept == GateInv /\ [Next]_vars => GateInv'
  <1> SUFFICES ASSUME GateInv, [Next]_vars PROVE GateInv'
    OBVIOUS
  <1>1. CASE \E r \in Requests :
                \/ CheckLockout(r) \/ Authorize(r) \/ RecordFailedAttempt(r) \/ RecordSuccess(r)
                \/ CheckIdem(r) \/ RemoveStale(r) \/ HasRoom(r) \/ Save(r) \/ NoAnswer(r)
    BY <1>1, CheckLockoutStep, GateQuietSteps, RecordFailedStep, RecordSuccessStep,
       RemoveStaleStep, HasRoomStep, SaveStep
  <1>2. CASE FlipKey \/ UNCHANGED vars
    <2>1. GateTypeOK /\ UNCHANGED <<registry, req, store>> /\ known' \in BOOLEAN
      BY <1>2 DEF GateInv, GateTypeOK, FlipKey, vars, registry, store
    <2>2. Late' = Late /\ Saving' = Saving
      BY <2>1 DEF Late, Saving
    <2>3. GateTypeOK'
      BY <2>1 DEF GateTypeOK, registry, store
    <2> QED BY <2>1, <2>2, <2>3, GateQuiet
  <1> QED BY <1>1, <1>2, CleanupStep, GateTickStep DEF Next

LEMMA GateInvariance == Spec => []GateInv
  BY GateStarts, GateKept, PTL DEF Spec

\* The registry of client_lockout.rs, the store of idempotency.rs and the
\* requests between them keep their types: no lockout is longer than
\* lockout_duration, no attempt and no answer older than it is kept for.
THEOREM GateTyped == Spec => []GateTypeOK
  <1>1. GateInv => GateTypeOK
    BY DEF GateInv
  <1> QED BY <1>1, GateInvariance, PTL

\* However many requests of a client fail at once, client_lockout.rs keeps at
\* most max_attempts failures and one for each other request in flight.
THEOREM FewAttempts == Spec => []AttemptsBounded
  <1>1. GateInv => AttemptsBounded
    <2> SUFFICES ASSUME GateInv PROVE AttemptsBounded
      OBVIOUS
    <2>1. Len(attempts) \in Nat
      BY DEF GateInv, GateTypeOK
    <2> QED BY <2>1, CountedSets, GateFacts DEF GateInv, AttemptsCovered, AttemptsBounded
  <1> QED BY <1>1, GateInvariance, PTL

\* An answer saved by idempotency.rs is there for its window and is the last
\* one saved, unless a check that saw its predecessor expire removed it.
THEOREM AnswersKept == Spec => []SavedIsThere
  <1>1. GateInv => SavedIsThere
    BY DEF GateInv
  <1> QED BY <1>1, GateInvariance, PTL

\* Concurrent saves take the store of idempotency.rs over its capacity by no
\* more than the other requests in flight.
THEOREM StoreStaysSmall == Spec => []StoreBounded
  <1>1. GateInv => StoreBounded
    BY CountedSets, GateFacts DEF GateInv, StoreCovered, StoreBounded
  <1> QED BY <1>1, GateInvariance, PTL
=============================================================================
