-------------------------- MODULE CoalescerProofs --------------------------
(***************************************************************************)
(* Proofs about Coalescer for any set of requests and keys, any number of  *)
(* shards and workers and any max_inflight.                                *)
(*                                                                         *)
(* The argument: because entries never leave the shared map, the entry a   *)
(* request holds is the map's entry for its key (HeldOK, EntryOK), which   *)
(* makes the leader of a key unique.  The counter equals the number of     *)
(* slot holders (SlotsExact), so a request that saw a previous value below *)
(* max_inflight makes at most max_inflight admitted requests (Admission).  *)
(***************************************************************************)
EXTENDS Coalescer, FiniteSetTheorems, TLAPS

NoArc       == {"idle", "get", "reserve", "unreserve", "entry", "timedOut", "rejected"}
FollowSteps == {"check", "register", "wait", "recheck", "occupied", "follower"}
LeaderSteps == {"leader", "failing", "notify", "dropFailing", "dropNotify", "release", "done"}

\* What a request holds, by the step it is at.
HeldOK ==
    \A r \in Requests :
        /\ pc[r] \in NoArc => held[r] = NoEntry
        /\ pc[r] \in FollowSteps => held[r] \in Requests \ {r}
        /\ pc[r] \in LeaderSteps => held[r] = r
        /\ pc[r] = "clone" => held[r] \in Requests /\ (held[r] # r => held[r] \in completed)
        /\ pc[r] = "follower" => held[r] \in completed
        /\ held[r] # NoEntry => inflight[KeyOf[r]] = held[r]

\* The map's entry for a key was created by a request for that key, which leads it.
EntryOK ==
    \A k \in Keys :
        inflight[k] # NoEntry => /\ held[inflight[k]] = inflight[k]
                                 /\ KeyOf[inflight[k]] = k

\* The flags of an entry against the step of its leader.
FlagsOK ==
    \A r \in Requests :
        /\ pc[r] \in {"notify", "dropNotify", "release", "done"} => r \in completed
        /\ pc[r] \in {"failing", "dropFailing"} => r \in failed
        /\ r \in completed \cup failed => held[r] = r /\ pc[r] \in LeaderSteps
        /\ verdict[r] = "fail" => r \in failed

\* A map copy in progress has a shard left to read.
CopyOK == \A r \in Requests : pc[r] \notin LeaderSteps \cup {"follower"} => copied[r] < NumShards

\* Requests whose reservation passed the capacity check.
Admitted == {r \in Requests : pc[r] \in {"entry", "occupied"} \/ Leading(r)}

Admission == Cardinality(Admitted) <= MaxInflight

CoalescerInv == TypeOK /\ HeldOK /\ EntryOK /\ FlagsOK /\ CopyOK /\ SlotsExact /\ Admission
-----------------------------------------------------------------------------
(* Counting slots                                                          *)

\* Slot holders and admitted requests are finite in number, the latter among
\* the former.
LEMMA SlotSets ==
    /\ IsFiniteSet(SlotHolders) /\ Cardinality(SlotHolders) \in Nat
    /\ IsFiniteSet(Admitted) /\ Cardinality(Admitted) \in Nat
    /\ Cardinality(Admitted) <= Cardinality(SlotHolders)
<1>1. SlotHolders \in SUBSET Requests /\ Admitted \in SUBSET SlotHolders
  BY DEF SlotHolders, Admitted
<1>2. IsFiniteSet(SlotHolders)
  BY <1>1, FS_Subset, ConstantsOK
<1>3. IsFiniteSet(Admitted) /\ Cardinality(Admitted) <= Cardinality(SlotHolders)
  BY <1>1, <1>2, FS_Subset
<1> QED
  BY <1>2, <1>3, FS_CardinalityType

\* fetch_add: the new holder makes the count exact again, and it is admitted
\* only when that count is within max_inflight.
LEMMA ReserveCounts ==
    ASSUME CoalescerInv, NEW r \in Requests, Reserve(r)
    PROVE  SlotsExact' /\ inflight_count' \in Nat /\ Admission'
<1> USE DEF CoalescerInv
<1>1. r \notin SlotHolders /\ SlotHolders' = SlotHolders \cup {r}
  <2>1. pc' = [pc EXCEPT ![r] = IF inflight_count >= MaxInflight THEN "unreserve" ELSE "entry"]
        /\ held' = held /\ pc[r] = "reserve" /\ held[r] = NoEntry
    BY DEF Reserve, Goto, HeldOK, NoArc
  <2>2. r \notin SlotHolders
    BY <2>1, ConstantsOK DEF SlotHolders, Leading
  <2>3. \A q \in Requests : q \in SlotHolders' <=> q \in SlotHolders \cup {r}
    BY <2>1, ConstantsOK DEF SlotHolders, Leading, TypeOK
  <2> QED
    BY <2>2, <2>3 DEF SlotHolders
<1>2. Cardinality(SlotHolders') = Cardinality(SlotHolders) + 1
  BY <1>1, SlotSets, FS_AddElement
<1>3. SlotsExact' /\ inflight_count' \in Nat
  BY <1>2 DEF Reserve, SlotsExact, TypeOK
<1>4. CASE inflight_count >= MaxInflight
  <2>1. \A q \in Requests : q \in Admitted' <=> q \in Admitted
    BY <1>4, ConstantsOK DEF Reserve, Goto, Admitted, Leading, TypeOK, HeldOK, NoArc
  <2>2. Admitted' = Admitted
    BY <2>1 DEF Admitted
  <2> QED
    BY <1>3, <2>2 DEF Admission
<1>5. CASE ~(inflight_count >= MaxInflight)
  <2>1. Admitted' \in SUBSET SlotHolders'
    BY DEF Admitted, SlotHolders
  <2>2. IsFiniteSet(SlotHolders')
    BY <1>1, SlotSets, FS_AddElement
  <2>3. Cardinality(Admitted') <= Cardinality(SlotHolders')
    BY <2>1, <2>2, FS_Subset
  <2>4. Cardinality(Admitted') \in Nat
    BY <2>1, <2>2, FS_Subset, FS_CardinalityType
  <2>5. Cardinality(SlotHolders') <= MaxInflight
    BY <1>2, <1>5, ConstantsOK DEF SlotsExact, TypeOK
  <2> QED
    BY <1>3, <2>3, <2>4, <2>5, <1>2, SlotSets, ConstantsOK DEF Admission
<1> QED
  BY <1>4, <1>5

\* A step that takes no slot and admits nobody keeps the admission bound.
LEMMA AdmissionShrinks ==
    ASSUME Admission, Admitted' \subseteq Admitted
    PROVE  Admission'
<1>1. IsFiniteSet(Admitted') /\ Cardinality(Admitted') <= Cardinality(Admitted)
  BY SlotSets, FS_Subset
<1>2. Cardinality(Admitted') \in Nat
  BY <1>1, FS_CardinalityType
<1> QED
  BY <1>1, <1>2, SlotSets, ConstantsOK DEF Admission

\* fetch_sub in the refusal, in the lost race and at the end of Drop: the
\* request that pays back was a holder and is none afterwards.
LEMMA PayBackCounts ==
    ASSUME CoalescerInv, NEW r \in Requests, Unreserve(r) \/ ReleaseSlot(r) \/ Release(r)
    PROVE  SlotsExact' /\ inflight_count' \in Nat /\ Admission'
<1> USE DEF CoalescerInv
<1>1. /\ pc[r] \in {"unreserve", "occupied", "release"}
      /\ pc' = [pc EXCEPT ![r] = IF pc[r] = "unreserve" THEN "rejected"
                                 ELSE IF pc[r] = "occupied" THEN "check" ELSE "done"]
      /\ held' = held /\ inflight_count' = inflight_count - 1
  BY DEF Unreserve, ReleaseSlot, Release, Goto
<1>2. pc[r] # "release" => held[r] # r
  BY <1>1, ConstantsOK DEF HeldOK, NoArc, FollowSteps
<1>3. pc[r] = "release" => held[r] = r
  BY DEF HeldOK, LeaderSteps
<1>4. r \in SlotHolders
  BY <1>1, <1>3 DEF SlotHolders, Leading
<1>5. SlotHolders' = SlotHolders \ {r}
  <2>1. \A q \in Requests : q \in SlotHolders' <=> q \in SlotHolders \ {r}
    BY <1>1, <1>2, <1>3 DEF SlotHolders, Leading, TypeOK
  <2> QED
    BY <2>1 DEF SlotHolders
<1>6. Admitted' \subseteq Admitted
  BY <1>1, <1>2, <1>3 DEF Admitted, Leading, TypeOK
<1>7. Cardinality(SlotHolders') = Cardinality(SlotHolders) - 1
  BY <1>4, <1>5, SlotSets, FS_RemoveElement
<1>8. Cardinality(SlotHolders') \in Nat
  BY <1>5, SlotSets, FS_RemoveElement, FS_CardinalityType
<1> QED
  BY <1>1, <1>6, <1>7, <1>8, AdmissionShrinks DEF SlotsExact, TypeOK

\* The steps that leave inflight_count alone.
Quiet(r) ==
    \/ Begin(r) \/ Get(r) \/ Check(r) \/ Register(r) \/ Wake(r) \/ TimeOut(r) \/ Recheck(r)
    \/ CloneShard(r) \/ EntryOccupied(r) \/ EntryVacant(r)
    \/ MarkCompleted(r) \/ MarkFailed(r) \/ Drop(r) \/ StoreCompleted(r) \/ Notify(r)

\* They neither make nor unmake a slot holder, and admit nobody.
LEMMA QuietCounts ==
    ASSUME CoalescerInv, NEW r \in Requests, Quiet(r)
    PROVE  SlotsExact' /\ inflight_count' \in Nat /\ Admission'
<1>1. /\ \A q \in Requests : q \in SlotHolders' <=> q \in SlotHolders
      /\ \A q \in Requests : q \in Admitted' => q \in Admitted
      /\ inflight_count' = inflight_count
  <2> USE ConstantsOK DEF CoalescerInv, SlotHolders, Admitted, Leading, TypeOK, HeldOK,
                          Goto, LetGo, NoArc, FollowSteps, LeaderSteps
  <2>1. CASE Begin(r)
    BY <2>1 DEF Begin
  <2>2. CASE Get(r)
    BY <2>2 DEF Get, EntryOK
  <2>3. CASE Check(r)
    BY <2>3 DEF Check
  <2>4. CASE Register(r)
    BY <2>4 DEF Register
  <2>5. CASE Wake(r)
    BY <2>5 DEF Wake
  <2>6. CASE TimeOut(r)
    BY <2>6 DEF TimeOut
  <2>7. CASE Recheck(r)
    BY <2>7 DEF Recheck
  <2>8. CASE CloneShard(r)
    BY <2>8 DEF CloneShard
  <2>9. CASE EntryOccupied(r)
    BY <2>9 DEF EntryOccupied
  <2>10. CASE EntryVacant(r)
    BY <2>10 DEF EntryVacant
  <2>11. CASE MarkCompleted(r)
    BY <2>11 DEF MarkCompleted
  <2>12. CASE MarkFailed(r)
    BY <2>12 DEF MarkFailed
  <2>13. CASE Drop(r)
    BY <2>13 DEF Drop
  <2>14. CASE StoreCompleted(r)
    BY <2>14 DEF StoreCompleted
  <2>15. CASE Notify(r)
    BY <2>15 DEF Notify
  <2> QED
    BY <2>1, <2>2, <2>3, <2>4, <2>5, <2>6, <2>7, <2>8, <2>9, <2>10, <2>11, <2>12, <2>13, <2>14, <2>15 DEF Quiet
<1>2. SlotHolders' = SlotHolders /\ Admitted' \subseteq Admitted
  BY <1>1 DEF SlotHolders, Admitted
<1> QED
  BY <1>1, <1>2, AdmissionShrinks DEF CoalescerInv, SlotsExact, TypeOK
-----------------------------------------------------------------------------
(* The shape of a request's state                                          *)

\* Any step keeps what a request holds, the map's entries, the flags and the
\* copies in order; the counter's type is the counting lemmas' business.
LEMMA ShapeStep ==
    ASSUME CoalescerInv, NEW r \in Requests, Begin(r) \/ Acquire(r) \/ Guard(r),
           inflight_count' \in Nat
    PROVE  TypeOK' /\ HeldOK' /\ EntryOK' /\ FlagsOK' /\ CopyOK'
<1> USE ConstantsOK DEF CoalescerInv, Goto, LetGo
<1>1. CASE Begin(r)
  <2>1. TypeOK'
    BY <1>1 DEF Begin, TypeOK, Steps, Parked
  <2>2. HeldOK'
    BY <1>1 DEF Begin, TypeOK, HeldOK, EntryOK, FlagsOK, NoArc, FollowSteps, LeaderSteps
  <2>3. EntryOK'
    BY <1>1 DEF Begin, TypeOK, HeldOK, EntryOK, NoArc, FollowSteps, LeaderSteps
  <2>4. FlagsOK'
    BY <1>1 DEF Begin, TypeOK, HeldOK, FlagsOK, NoArc, FollowSteps, LeaderSteps
  <2>5. CopyOK'
    BY <1>1 DEF Begin, TypeOK, CopyOK, LeaderSteps
  <2> QED
    BY <2>1, <2>2, <2>3, <2>4, <2>5
<1>2. CASE Get(r)
  <2>1. TypeOK'
    BY <1>2 DEF Get, TypeOK, Steps, Parked
  <2>2. HeldOK'
    BY <1>2 DEF Get, TypeOK, HeldOK, EntryOK, FlagsOK, NoArc, FollowSteps, LeaderSteps
  <2>3. EntryOK'
    BY <1>2 DEF Get, TypeOK, HeldOK, EntryOK, NoArc, FollowSteps, LeaderSteps
  <2>4. FlagsOK'
    BY <1>2 DEF Get, TypeOK, HeldOK, FlagsOK, NoArc, FollowSteps, LeaderSteps
  <2>5. CopyOK'
    BY <1>2 DEF Get, TypeOK, CopyOK, LeaderSteps
  <2> QED
    BY <2>1, <2>2, <2>3, <2>4, <2>5
<1>3. CASE Check(r)
  <2>1. TypeOK'
    BY <1>3 DEF Check, TypeOK, Steps, Parked
  <2>2. HeldOK'
    BY <1>3 DEF Check, TypeOK, HeldOK, EntryOK, FlagsOK, NoArc, FollowSteps, LeaderSteps
  <2>3. EntryOK'
    BY <1>3 DEF Check, TypeOK, HeldOK, EntryOK, NoArc, FollowSteps, LeaderSteps
  <2>4. FlagsOK'
    BY <1>3 DEF Check, TypeOK, HeldOK, FlagsOK, NoArc, FollowSteps, LeaderSteps
  <2>5. CopyOK'
    BY <1>3 DEF Check, TypeOK, CopyOK, LeaderSteps
  <2> QED
    BY <2>1, <2>2, <2>3, <2>4, <2>5
<1>4. CASE Register(r)
  <2>1. TypeOK'
    BY <1>4 DEF Register, TypeOK, Steps, Parked
  <2>2. HeldOK'
    BY <1>4 DEF Register, TypeOK, HeldOK, EntryOK, FlagsOK, NoArc, FollowSteps, LeaderSteps
  <2>3. EntryOK'
    BY <1>4 DEF Register, TypeOK, HeldOK, EntryOK, NoArc, FollowSteps, LeaderSteps
  <2>4. FlagsOK'
    BY <1>4 DEF Register, TypeOK, HeldOK, FlagsOK, NoArc, FollowSteps, LeaderSteps
  <2>5. CopyOK'
    BY <1>4 DEF Register, TypeOK, CopyOK, LeaderSteps
  <2> QED
    BY <2>1, <2>2, <2>3, <2>4, <2>5
<1>5. CASE Wake(r)
  <2>1. TypeOK'
    BY <1>5 DEF Wake, TypeOK, Steps, Parked
  <2>2. HeldOK'
    BY <1>5 DEF Wake, TypeOK, HeldOK, EntryOK, FlagsOK, NoArc, FollowSteps, LeaderSteps
  <2>3. EntryOK'
    BY <1>5 DEF Wake, TypeOK, HeldOK, EntryOK, NoArc, FollowSteps, LeaderSteps
  <2>4. FlagsOK'
    BY <1>5 DEF Wake, TypeOK, HeldOK, FlagsOK, NoArc, FollowSteps, LeaderSteps
  <2>5. CopyOK'
    BY <1>5 DEF Wake, TypeOK, CopyOK, LeaderSteps
  <2> QED
    BY <2>1, <2>2, <2>3, <2>4, <2>5
<1>6. CASE TimeOut(r)
  <2>1. TypeOK'
    BY <1>6 DEF TimeOut, TypeOK, Steps, Parked
  <2>2. HeldOK'
    BY <1>6 DEF TimeOut, TypeOK, HeldOK, EntryOK, FlagsOK, NoArc, FollowSteps, LeaderSteps
  <2>3. EntryOK'
    BY <1>6 DEF TimeOut, TypeOK, HeldOK, EntryOK, NoArc, FollowSteps, LeaderSteps
  <2>4. FlagsOK'
    BY <1>6 DEF TimeOut, TypeOK, HeldOK, FlagsOK, NoArc, FollowSteps, LeaderSteps
  <2>5. CopyOK'
    BY <1>6 DEF TimeOut, TypeOK, CopyOK, LeaderSteps
  <2> QED
    BY <2>1, <2>2, <2>3, <2>4, <2>5
<1>7. CASE Recheck(r)
  <2>1. TypeOK'
    BY <1>7 DEF Recheck, TypeOK, Steps, Parked
  <2>2. HeldOK'
    BY <1>7 DEF Recheck, TypeOK, HeldOK, EntryOK, FlagsOK, NoArc, FollowSteps, LeaderSteps
  <2>3. EntryOK'
    BY <1>7 DEF Recheck, TypeOK, HeldOK, EntryOK, NoArc, FollowSteps, LeaderSteps
  <2>4. FlagsOK'
    BY <1>7 DEF Recheck, TypeOK, HeldOK, FlagsOK, NoArc, FollowSteps, LeaderSteps
  <2>5. CopyOK'
    BY <1>7 DEF Recheck, TypeOK, CopyOK, LeaderSteps
  <2> QED
    BY <2>1, <2>2, <2>3, <2>4, <2>5
<1>8. CASE CloneShard(r)
  <2>1. TypeOK'
    BY <1>8 DEF CloneShard, TypeOK, Steps, Parked, CopyOK, LeaderSteps
  <2>2. HeldOK'
    BY <1>8 DEF CloneShard, TypeOK, HeldOK, EntryOK, FlagsOK, NoArc, FollowSteps, LeaderSteps
  <2>3. EntryOK'
    BY <1>8 DEF CloneShard, TypeOK, HeldOK, EntryOK, NoArc, FollowSteps, LeaderSteps
  <2>4. FlagsOK'
    BY <1>8 DEF CloneShard, TypeOK, HeldOK, FlagsOK, NoArc, FollowSteps, LeaderSteps
  <2>5. CopyOK'
    BY <1>8 DEF CloneShard, TypeOK, CopyOK, LeaderSteps
  <2> QED
    BY <2>1, <2>2, <2>3, <2>4, <2>5
<1>9. CASE Reserve(r)
  <2>1. TypeOK'
    BY <1>9 DEF Reserve, TypeOK, Steps, Parked
  <2>2. HeldOK'
    BY <1>9 DEF Reserve, TypeOK, HeldOK, EntryOK, FlagsOK, NoArc, FollowSteps, LeaderSteps
  <2>3. EntryOK'
    BY <1>9 DEF Reserve, TypeOK, HeldOK, EntryOK, NoArc, FollowSteps, LeaderSteps
  <2>4. FlagsOK'
    BY <1>9 DEF Reserve, TypeOK, HeldOK, FlagsOK, NoArc, FollowSteps, LeaderSteps
  <2>5. CopyOK'
    BY <1>9 DEF Reserve, TypeOK, CopyOK, LeaderSteps
  <2> QED
    BY <2>1, <2>2, <2>3, <2>4, <2>5
<1>10. CASE Unreserve(r)
  <2>1. TypeOK'
    BY <1>10 DEF Unreserve, TypeOK, Steps, Parked
  <2>2. HeldOK'
    BY <1>10 DEF Unreserve, TypeOK, HeldOK, EntryOK, FlagsOK, NoArc, FollowSteps, LeaderSteps
  <2>3. EntryOK'
    BY <1>10 DEF Unreserve, TypeOK, HeldOK, EntryOK, NoArc, FollowSteps, LeaderSteps
  <2>4. FlagsOK'
    BY <1>10 DEF Unreserve, TypeOK, HeldOK, FlagsOK, NoArc, FollowSteps, LeaderSteps
  <2>5. CopyOK'
    BY <1>10 DEF Unreserve, TypeOK, CopyOK, LeaderSteps
  <2> QED
    BY <2>1, <2>2, <2>3, <2>4, <2>5
<1>11. CASE EntryOccupied(r)
  <2>1. TypeOK'
    BY <1>11 DEF EntryOccupied, TypeOK, Steps, Parked
  <2>2. HeldOK'
    BY <1>11 DEF EntryOccupied, TypeOK, HeldOK, EntryOK, FlagsOK, NoArc, FollowSteps, LeaderSteps
  <2>3. EntryOK'
    BY <1>11 DEF EntryOccupied, TypeOK, HeldOK, EntryOK, NoArc, FollowSteps, LeaderSteps
  <2>4. FlagsOK'
    BY <1>11 DEF EntryOccupied, TypeOK, HeldOK, FlagsOK, NoArc, FollowSteps, LeaderSteps
  <2>5. CopyOK'
    BY <1>11 DEF EntryOccupied, TypeOK, CopyOK, LeaderSteps
  <2> QED
    BY <2>1, <2>2, <2>3, <2>4, <2>5
<1>12. CASE ReleaseSlot(r)
  <2>1. TypeOK'
    BY <1>12 DEF ReleaseSlot, TypeOK, Steps, Parked
  <2>2. HeldOK'
    BY <1>12 DEF ReleaseSlot, TypeOK, HeldOK, EntryOK, FlagsOK, NoArc, FollowSteps, LeaderSteps
  <2>3. EntryOK'
    BY <1>12 DEF ReleaseSlot, TypeOK, HeldOK, EntryOK, NoArc, FollowSteps, LeaderSteps
  <2>4. FlagsOK'
    BY <1>12 DEF ReleaseSlot, TypeOK, HeldOK, FlagsOK, NoArc, FollowSteps, LeaderSteps
  <2>5. CopyOK'
    BY <1>12 DEF ReleaseSlot, TypeOK, CopyOK, LeaderSteps
  <2> QED
    BY <2>1, <2>2, <2>3, <2>4, <2>5
<1>13. CASE EntryVacant(r)
  <2>1. TypeOK'
    BY <1>13 DEF EntryVacant, TypeOK, Steps, Parked
  <2>2. HeldOK'
    BY <1>13 DEF EntryVacant, TypeOK, HeldOK, EntryOK, FlagsOK, NoArc, FollowSteps, LeaderSteps
  <2>3. EntryOK'
    BY <1>13 DEF EntryVacant, TypeOK, HeldOK, EntryOK, NoArc, FollowSteps, LeaderSteps
  <2>4. FlagsOK'
    BY <1>13 DEF EntryVacant, TypeOK, HeldOK, FlagsOK, NoArc, FollowSteps, LeaderSteps
  <2>5. CopyOK'
    BY <1>13 DEF EntryVacant, TypeOK, CopyOK, LeaderSteps
  <2> QED
    BY <2>1, <2>2, <2>3, <2>4, <2>5
<1>14. CASE MarkCompleted(r)
  <2>1. TypeOK'
    BY <1>14 DEF MarkCompleted, TypeOK, Steps, Parked, FirstMark
  <2>2. HeldOK'
    BY <1>14 DEF MarkCompleted, TypeOK, HeldOK, EntryOK, FlagsOK, NoArc, FollowSteps, LeaderSteps, FirstMark
  <2>3. EntryOK'
    BY <1>14 DEF MarkCompleted, TypeOK, HeldOK, EntryOK, NoArc, FollowSteps, LeaderSteps, FirstMark
  <2>4. FlagsOK'
    BY <1>14 DEF MarkCompleted, TypeOK, HeldOK, FlagsOK, NoArc, FollowSteps, LeaderSteps, FirstMark
  <2>5. CopyOK'
    BY <1>14 DEF MarkCompleted, TypeOK, CopyOK, LeaderSteps, FirstMark
  <2> QED
    BY <2>1, <2>2, <2>3, <2>4, <2>5
<1>15. CASE MarkFailed(r)
  <2>1. TypeOK'
    BY <1>15 DEF MarkFailed, TypeOK, Steps, Parked, FirstMark
  <2>2. HeldOK'
    BY <1>15 DEF MarkFailed, TypeOK, HeldOK, EntryOK, FlagsOK, NoArc, FollowSteps, LeaderSteps, FirstMark
  <2>3. EntryOK'
    BY <1>15 DEF MarkFailed, TypeOK, HeldOK, EntryOK, NoArc, FollowSteps, LeaderSteps, FirstMark
  <2>4. FlagsOK'
    BY <1>15 DEF MarkFailed, TypeOK, HeldOK, FlagsOK, NoArc, FollowSteps, LeaderSteps, FirstMark
  <2>5. CopyOK'
    BY <1>15 DEF MarkFailed, TypeOK, CopyOK, LeaderSteps, FirstMark
  <2> QED
    BY <2>1, <2>2, <2>3, <2>4, <2>5
<1>16. CASE Drop(r)
  <2>1. TypeOK'
    BY <1>16 DEF Drop, TypeOK, Steps, Parked, FirstMark
  <2>2. HeldOK'
    BY <1>16 DEF Drop, TypeOK, HeldOK, EntryOK, FlagsOK, NoArc, FollowSteps, LeaderSteps, FirstMark
  <2>3. EntryOK'
    BY <1>16 DEF Drop, TypeOK, HeldOK, EntryOK, NoArc, FollowSteps, LeaderSteps, FirstMark
  <2>4. FlagsOK'
    BY <1>16 DEF Drop, TypeOK, HeldOK, FlagsOK, NoArc, FollowSteps, LeaderSteps, FirstMark
  <2>5. CopyOK'
    BY <1>16 DEF Drop, TypeOK, CopyOK, LeaderSteps, FirstMark
  <2> QED
    BY <2>1, <2>2, <2>3, <2>4, <2>5
<1>17. CASE StoreCompleted(r)
  <2>1. TypeOK'
    BY <1>17 DEF StoreCompleted, TypeOK, Steps, Parked
  <2>2. HeldOK'
    BY <1>17 DEF StoreCompleted, TypeOK, HeldOK, EntryOK, FlagsOK, NoArc, FollowSteps, LeaderSteps
  <2>3. EntryOK'
    BY <1>17 DEF StoreCompleted, TypeOK, HeldOK, EntryOK, NoArc, FollowSteps, LeaderSteps
  <2>4. FlagsOK'
    BY <1>17 DEF StoreCompleted, TypeOK, HeldOK, FlagsOK, NoArc, FollowSteps, LeaderSteps
  <2>5. CopyOK'
    BY <1>17 DEF StoreCompleted, TypeOK, CopyOK, LeaderSteps
  <2> QED
    BY <2>1, <2>2, <2>3, <2>4, <2>5
<1>18. CASE Notify(r)
  <2>1. TypeOK'
    BY <1>18 DEF Notify, TypeOK, Steps, Parked
  <2>2. HeldOK'
    BY <1>18 DEF Notify, TypeOK, HeldOK, EntryOK, FlagsOK, NoArc, FollowSteps, LeaderSteps
  <2>3. EntryOK'
    BY <1>18 DEF Notify, TypeOK, HeldOK, EntryOK, NoArc, FollowSteps, LeaderSteps
  <2>4. FlagsOK'
    BY <1>18 DEF Notify, TypeOK, HeldOK, FlagsOK, NoArc, FollowSteps, LeaderSteps
  <2>5. CopyOK'
    BY <1>18 DEF Notify, TypeOK, CopyOK, LeaderSteps
  <2> QED
    BY <2>1, <2>2, <2>3, <2>4, <2>5
<1>19. CASE Release(r)
  <2>1. TypeOK'
    BY <1>19 DEF Release, TypeOK, Steps, Parked
  <2>2. HeldOK'
    BY <1>19 DEF Release, TypeOK, HeldOK, EntryOK, FlagsOK, NoArc, FollowSteps, LeaderSteps
  <2>3. EntryOK'
    BY <1>19 DEF Release, TypeOK, HeldOK, EntryOK, NoArc, FollowSteps, LeaderSteps
  <2>4. FlagsOK'
    BY <1>19 DEF Release, TypeOK, HeldOK, FlagsOK, NoArc, FollowSteps, LeaderSteps
  <2>5. CopyOK'
    BY <1>19 DEF Release, TypeOK, CopyOK, LeaderSteps
  <2> QED
    BY <2>1, <2>2, <2>3, <2>4, <2>5
<1> QED
  BY <1>1, <1>2, <1>3, <1>4, <1>5, <1>6, <1>7, <1>8, <1>9, <1>10, <1>11, <1>12, <1>13, <1>14, <1>15, <1>16, <1>17, <1>18, <1>19 DEF Acquire, Guard

\* The invariant is inductive.
LEMMA InvStep ==
    ASSUME CoalescerInv, [Next]_coalescerVars
    PROVE  CoalescerInv'
<1>1. CASE UNCHANGED coalescerVars
  <2>1. SlotHolders' = SlotHolders /\ Admitted' = Admitted
    BY <1>1 DEF coalescerVars, SlotHolders, Admitted, Leading
  <2>2. SlotsExact' /\ Admission'
    BY <1>1, <2>1 DEF coalescerVars, SlotsExact, Admission, CoalescerInv
  <2>3. TypeOK' /\ HeldOK' /\ EntryOK' /\ FlagsOK' /\ CopyOK'
    BY <1>1 DEF coalescerVars, CoalescerInv, TypeOK, HeldOK, EntryOK, FlagsOK, CopyOK
  <2> QED
    BY <2>2, <2>3 DEF CoalescerInv
<1>2. ASSUME NEW r \in Requests, Begin(r) \/ Acquire(r) \/ Guard(r)
      PROVE  CoalescerInv'
  <2>1. Quiet(r) \/ Reserve(r) \/ (Unreserve(r) \/ ReleaseSlot(r) \/ Release(r))
    BY <1>2 DEF Acquire, Guard, Quiet
  <2>2. SlotsExact' /\ inflight_count' \in Nat /\ Admission'
    BY <2>1, QuietCounts, ReserveCounts, PayBackCounts
  <2>3. TypeOK' /\ HeldOK' /\ EntryOK' /\ FlagsOK' /\ CopyOK'
    BY <1>2, <2>2, ShapeStep
  <2> QED
    BY <2>2, <2>3 DEF CoalescerInv
<1> QED
  BY <1>1, <1>2 DEF Next

\* It holds initially: nobody holds anything.
LEMMA InvInit == Init => CoalescerInv
<1> SUFFICES ASSUME Init PROVE CoalescerInv
  OBVIOUS
<1>1. SlotHolders = {} /\ Admitted = {}
  BY ConstantsOK DEF Init, SlotHolders, Admitted, Leading
<1>2. SlotsExact /\ Admission
  BY <1>1, FS_EmptySet, ConstantsOK DEF Init, SlotsExact, Admission
<1>3. TypeOK
  BY ConstantsOK DEF Init, TypeOK, Steps, Parked
<1>4. HeldOK /\ EntryOK /\ FlagsOK /\ CopyOK
  BY ConstantsOK DEF Init, HeldOK, EntryOK, FlagsOK, CopyOK, NoArc, FollowSteps, LeaderSteps
<1> QED
  BY <1>2, <1>3, <1>4 DEF CoalescerInv

\* The inductive invariant holds in every reachable state.
THEOREM Invariance == Spec => []CoalescerInv
  BY InvInit, InvStep, PTL DEF Spec
-----------------------------------------------------------------------------
(* What follows from it                                                    *)

\* Type correctness: in particular inflight_count never drops below zero.
THEOREM TypeCorrect == Spec => []TypeOK
<1>1. CoalescerInv => TypeOK
  BY DEF CoalescerInv
<1> QED
  BY <1>1, Invariance, PTL

\* However get and entry calls interleave, a key has one leader at a time.
THEOREM UniqueLeader == Spec => []OneLeaderPerKey
<1>1. CoalescerInv => OneLeaderPerKey
  BY ConstantsOK DEF CoalescerInv, HeldOK, OneLeaderPerKey, Leading, TypeOK
<1> QED
  BY <1>1, Invariance, PTL

\* The slot counter never leaks and never pays back twice.
THEOREM SlotAccounting == Spec => []SlotsExact
<1>1. CoalescerInv => SlotsExact
  BY DEF CoalescerInv
<1> QED
  BY <1>1, Invariance, PTL

\* There are never more than max_inflight leaders.
THEOREM CapacityRespected == Spec => []LeadersBounded
<1>1. ASSUME CoalescerInv PROVE LeadersBounded
  <2> DEFINE L == {r \in Requests : Leading(r)}
  <2>1. L \in SUBSET Admitted
    BY DEF Admitted
  <2>2. Cardinality(L) <= Cardinality(Admitted) /\ Cardinality(L) \in Nat
    BY <2>1, SlotSets, FS_Subset, FS_CardinalityType
  <2> QED
    BY <1>1, <2>2, SlotSets, ConstantsOK DEF CoalescerInv, Admission, LeadersBounded
<1> QED
  BY <1>1, Invariance, PTL

\* A follower of a failed leader is told so.
THEOREM OutcomeVisible == Spec => []FailureSeen
<1>1. CoalescerInv => FailureSeen
  BY DEF CoalescerInv, FlagsOK, FailureSeen
<1> QED
  BY <1>1, Invariance, PTL

\* However a leader ends, the entry it leaves behind is settled.
THEOREM NoOrphans == Spec => []NoOrphanEntry
<1>1. CoalescerInv => NoOrphanEntry
  BY DEF CoalescerInv, FlagsOK, NoOrphanEntry
<1> QED
  BY <1>1, Invariance, PTL

(***************************************************************************)
(* Coalescer implements CoalescerSpec: every step of a request is one step *)
(* of the abstract coalescer or leaves the abstract state as it is.        *)
(***************************************************************************)

\* The abstract state does not move.
Still(r) ==
    /\ inflight' = inflight
    /\ PhaseOf(r)' = PhaseOf(r)
    /\ \A k \in Keys : OutcomeOf(k)' = OutcomeOf(k)

\* A step of one request leaves the others where they are.
LEMMA OthersKeepPhase ==
    ASSUME CoalescerInv, NEW r \in Requests, Begin(r) \/ Acquire(r) \/ Guard(r),
           NEW q \in Requests \ {r}
    PROVE  PhaseOf(q)' = PhaseOf(q)
<1>1. pc'[q] = pc[q] /\ held'[q] = held[q]
  BY DEF CoalescerInv, TypeOK, Acquire, Guard, Goto, LetGo, Begin, Get, Check, Register, Wake,
     TimeOut, Recheck, CloneShard, Reserve, Unreserve, EntryOccupied, ReleaseSlot, EntryVacant,
     MarkCompleted, MarkFailed, Drop, StoreCompleted, Notify, Release
<1> QED
  BY <1>1 DEF PhaseOf, Leading

\* Lookups, checks, waiting, reservations and wake-ups are invisible.
LEMMA InvisibleSteps ==
    ASSUME CoalescerInv, NEW r \in Requests,
           \/ Get(r) \/ Check(r) \/ Register(r) \/ Wake(r) \/ Recheck(r) \/ Reserve(r)
           \/ EntryOccupied(r) \/ ReleaseSlot(r) \/ Notify(r)
    PROVE  Still(r)
<1>1. inflight' = inflight /\ completed' = completed /\ failed' = failed
  BY DEF Get, Check, Register, Wake, Recheck, Reserve, EntryOccupied, ReleaseSlot, Notify
<1>2. \A k \in Keys : OutcomeOf(k)' = OutcomeOf(k)
  BY <1>1 DEF OutcomeOf
<1>3. PhaseOf(r)' = PhaseOf(r)
  <2> USE ConstantsOK DEF CoalescerInv, TypeOK, HeldOK, EntryOK, NoArc, FollowSteps,
          LeaderSteps, PhaseOf, Leading, Parked, Goto, LetGo
  <2>1. CASE Get(r)
    BY <2>1 DEF Get
  <2>2. CASE Check(r)
    BY <2>2 DEF Check
  <2>3. CASE Register(r)
    BY <2>3 DEF Register
  <2>4. CASE Wake(r)
    BY <2>4 DEF Wake
  <2>5. CASE Recheck(r)
    BY <2>5 DEF Recheck
  <2>6. CASE Reserve(r)
    BY <2>6 DEF Reserve
  <2>7. CASE EntryOccupied(r)
    BY <2>7 DEF EntryOccupied
  <2>8. CASE ReleaseSlot(r)
    BY <2>8 DEF ReleaseSlot
  <2>9. CASE Notify(r)
    BY <2>9 DEF Notify
  <2> QED
    BY <2>1, <2>2, <2>3, <2>4, <2>5, <2>6, <2>7, <2>8, <2>9
<1> QED
  BY <1>1, <1>2, <1>3 DEF Still

\* What one request's step must do to count as an abstract step.
Moves(r, from, to) ==
    /\ PhaseOf(r) = from /\ PhaseOf(r)' = to
    /\ inflight' = inflight
    /\ \A k \in Keys : OutcomeOf(k)' = OutcomeOf(k)

\* The steps that only change the request's phase.
LEMMA PhaseSteps ==
    ASSUME CoalescerInv, NEW r \in Requests
    PROVE  /\ Begin(r) => Moves(r, "idle", "pending")
           /\ TimeOut(r) => /\ Moves(r, "pending", "timedOut")
                            /\ inflight[KeyOf[r]] \notin {NoEntry, r}
           /\ Unreserve(r) => Moves(r, "pending", "rejected")
           /\ CloneShard(r) => \/ Still(r)
                               \/ /\ Moves(r, "pending", "follower")
                                  /\ OutcomeOf(KeyOf[r]) # "none"
           /\ Release(r) => /\ Moves(r, "leader", "done")
                            /\ OutcomeOf(KeyOf[r]) # "none"
<1> USE ConstantsOK DEF CoalescerInv, TypeOK, HeldOK, EntryOK, FlagsOK, NoArc, FollowSteps,
        LeaderSteps, PhaseOf, OutcomeOf, Leading, Parked, Goto, LetGo, Moves, Still
<1>1. Begin(r) => Moves(r, "idle", "pending")
  BY DEF Begin
<1>2. TimeOut(r) => Moves(r, "pending", "timedOut") /\ inflight[KeyOf[r]] \notin {NoEntry, r}
  BY DEF TimeOut
<1>3. Unreserve(r) => Moves(r, "pending", "rejected")
  BY DEF Unreserve
<1>4. CloneShard(r) => \/ Still(r)
                       \/ Moves(r, "pending", "follower") /\ OutcomeOf(KeyOf[r]) # "none"
  BY DEF CloneShard
<1>5. Release(r) => Moves(r, "leader", "done") /\ OutcomeOf(KeyOf[r]) # "none"
  BY DEF Release
<1> QED
  BY <1>1, <1>2, <1>3, <1>4, <1>5
\* The leader's marks settle its own key, or repeat what was announced.
Settles(r, o) ==
    /\ PhaseOf(r) = "leader" /\ PhaseOf(r)' = "leader"
    /\ inflight' = inflight
    /\ OutcomeOf(KeyOf[r]) = "none" \/ o = "fail"
    /\ OutcomeOf(KeyOf[r])' = o
    /\ \A k \in Keys \ {KeyOf[r]} : OutcomeOf(k)' = OutcomeOf(k)

\* mark_completed, mark_failed and Drop settle the outcome or change nothing.
LEMMA MarkSteps ==
    ASSUME CoalescerInv, NEW r \in Requests,
           MarkCompleted(r) \/ MarkFailed(r) \/ Drop(r) \/ StoreCompleted(r)
    PROVE  Still(r) \/ \E o \in {"ok", "fail"} : Settles(r, o)
<1>1. /\ held[r] = r /\ inflight[KeyOf[r]] = r /\ held' = held /\ inflight' = inflight
      /\ pc[r] \in LeaderSteps \ {"done"} /\ pc'[r] \in LeaderSteps \ {"done"}
  BY ConstantsOK DEF CoalescerInv, TypeOK, HeldOK, LeaderSteps, Goto, MarkCompleted, MarkFailed,
     Drop, StoreCompleted
<1>2. \A k \in Keys \ {KeyOf[r]} : inflight[k] # r
  BY <1>1, ConstantsOK DEF CoalescerInv, TypeOK, EntryOK
<1>3. /\ completed \in SUBSET Requests /\ failed \in SUBSET Requests
      /\ completed' \in {completed, completed \cup {r}}
      /\ failed' \in {failed, failed \cup {r}}
  BY DEF CoalescerInv, TypeOK, MarkCompleted, MarkFailed, Drop, StoreCompleted
<1>4. \A k \in Keys \ {KeyOf[r]} : OutcomeOf(k)' = OutcomeOf(k)
  BY <1>1, <1>2, <1>3 DEF OutcomeOf
<1>5. PhaseOf(r) = "leader" /\ PhaseOf(r)' = "leader"
  BY <1>1 DEF PhaseOf, Leading
<1>6. OutcomeOf(KeyOf[r])' = OutcomeOf(KeyOf[r]) \/ OutcomeOf(KeyOf[r]) = "none" \/ OutcomeOf(KeyOf[r])' = "fail"
  BY <1>1, <1>3 DEF OutcomeOf
<1>7. OutcomeOf(KeyOf[r])' = OutcomeOf(KeyOf[r]) \/ OutcomeOf(KeyOf[r])' \in {"ok", "fail"}
  BY <1>1, <1>3 DEF OutcomeOf
<1>8. CASE OutcomeOf(KeyOf[r])' = OutcomeOf(KeyOf[r])
  BY <1>1, <1>4, <1>5, <1>8, ConstantsOK DEF Still
<1>9. CASE OutcomeOf(KeyOf[r])' # OutcomeOf(KeyOf[r])
  BY <1>1, <1>4, <1>5, <1>6, <1>7, <1>9 DEF Settles
<1> QED
  BY <1>8, <1>9

\* Inserting the entry takes the key, and one of max_inflight places.
LEMMA LeadStep ==
    ASSUME CoalescerInv, NEW r \in Requests, EntryVacant(r)
    PROVE  /\ PhaseOf(r) = "pending" /\ PhaseOf(r)' = "leader"
           /\ inflight[KeyOf[r]] = NoEntry /\ inflight' = [inflight EXCEPT ![KeyOf[r]] = r]
           /\ \A k \in Keys : OutcomeOf(k)' = OutcomeOf(k)
           /\ Cardinality({q \in Requests : PhaseOf(q) = "leader"}) < MaxInflight
<1>1. /\ pc[r] = "entry" /\ held[r] = NoEntry /\ r \notin completed
      /\ pc'[r] = "clone" /\ held'[r] = r /\ completed' = completed /\ failed' = failed
      /\ inflight[KeyOf[r]] = NoEntry /\ inflight' = [inflight EXCEPT ![KeyOf[r]] = r]
  BY ConstantsOK DEF CoalescerInv, TypeOK, HeldOK, FlagsOK, NoArc, EntryVacant, Goto
<1>2. PhaseOf(r) = "pending" /\ PhaseOf(r)' = "leader"
  BY <1>1, ConstantsOK DEF PhaseOf, Leading, Parked
<1>3. \A k \in Keys : OutcomeOf(k)' = OutcomeOf(k)
  BY <1>1, ConstantsOK DEF OutcomeOf, CoalescerInv, TypeOK
<1>4. Cardinality({q \in Requests : PhaseOf(q) = "leader"}) < MaxInflight
  <2> DEFINE L == {q \in Requests : PhaseOf(q) = "leader"}
  <2>1. \A q \in Requests : PhaseOf(q) = "leader" => Leading(q)
    BY DEF CoalescerInv, HeldOK, LeaderSteps, PhaseOf, Leading
  <2>2. r \in Admitted /\ L \in SUBSET (Admitted \ {r})
    BY <1>1, <1>2, <2>1 DEF Admitted
  <2>3. IsFiniteSet(Admitted \ {r}) /\ Cardinality(Admitted \ {r}) = Cardinality(Admitted) - 1
    BY <2>2, SlotSets, FS_RemoveElement
  <2>4. Cardinality(L) <= Cardinality(Admitted \ {r}) /\ Cardinality(L) \in Nat
    BY <2>2, <2>3, FS_Subset, FS_CardinalityType
  <2> QED
    BY <2>3, <2>4, SlotSets, ConstantsOK DEF CoalescerInv, Admission
<1> QED
  BY <1>1, <1>2, <1>3, <1>4
-----------------------------------------------------------------------------
\* One step of the coalescer is at most one step of its promise.
LEMMA StepSimulation ==
    ASSUME CoalescerInv, [Next]_coalescerVars
    PROVE  [Promised!SpecNext]_Promised!specVars
<1>1. CASE UNCHANGED coalescerVars
  BY <1>1 DEF coalescerVars, Promised!specVars, Leading, phaseBar, outcomeBar, PhaseOf, OutcomeOf
<1>2. ASSUME NEW r \in Requests, Begin(r) \/ Acquire(r) \/ Guard(r)
      PROVE  [Promised!SpecNext]_Promised!specVars
  <2>1. phaseBar' = [phaseBar EXCEPT ![r] = PhaseOf(r)'] /\ phaseBar[r] = PhaseOf(r)
    BY <1>2, OthersKeepPhase DEF phaseBar
  <2>2. (\A k \in Keys : OutcomeOf(k)' = OutcomeOf(k)) => outcomeBar' = outcomeBar
    BY DEF outcomeBar
  <2>3. \A k \in Keys : outcomeBar[k] = OutcomeOf(k)
    BY DEF outcomeBar
  <2>k. KeyOf[r] \in Keys
    BY ConstantsOK
  <2>4. CASE Still(r)
    <3>1. phaseBar' = phaseBar /\ outcomeBar' = outcomeBar /\ inflight' = inflight
      BY <2>1, <2>2, <2>4 DEF Still, phaseBar
    <3> QED
      BY <3>1 DEF Promised!specVars
  <2>5. CASE Moves(r, "idle", "pending")
    <3>1. Promised!Ask(r)
      BY <2>1, <2>2, <2>5 DEF Moves, Promised!Ask
    <3> QED
      BY <3>1 DEF Promised!SpecNext
  <2>6. CASE Moves(r, "pending", "timedOut") /\ inflight[KeyOf[r]] \notin {NoEntry, r}
    <3>1. Promised!GiveUp(r)
      BY <2>1, <2>2, <2>6 DEF Moves, Promised!GiveUp
    <3> QED
      BY <3>1 DEF Promised!SpecNext
  <2>7. CASE Moves(r, "pending", "rejected")
    <3>1. Promised!Refuse(r)
      BY <2>1, <2>2, <2>7 DEF Moves, Promised!Refuse
    <3> QED
      BY <3>1 DEF Promised!SpecNext
  <2>8. CASE Moves(r, "pending", "follower") /\ OutcomeOf(KeyOf[r]) # "none"
    <3>1. Promised!Follow(r)
      BY <2>1, <2>2, <2>3, <2>k, <2>8 DEF Moves, Promised!Follow
    <3> QED
      BY <3>1 DEF Promised!SpecNext
  <2>9. CASE Moves(r, "leader", "done") /\ OutcomeOf(KeyOf[r]) # "none"
    <3>1. Promised!Retire(r)
      BY <2>1, <2>2, <2>3, <2>k, <2>9 DEF Moves, Promised!Retire
    <3> QED
      BY <3>1 DEF Promised!SpecNext
  <2>10. ASSUME NEW o \in {"ok", "fail"}, Settles(r, o)
         PROVE  [Promised!SpecNext]_Promised!specVars
    <3>1. outcomeBar' = [outcomeBar EXCEPT ![KeyOf[r]] = o]
      BY <2>10, <2>k DEF Settles, outcomeBar
    <3>2. phaseBar' = phaseBar /\ phaseBar[r] = "leader"
      BY <2>1, <2>10 DEF Settles, phaseBar
    <3>3. outcomeBar[KeyOf[r]] = "none" \/ o = "fail"
      BY <2>3, <2>10, <2>k DEF Settles
    <3>4. Promised!Settle(r, o)
      BY <2>10, <3>1, <3>2, <3>3 DEF Settles, Promised!Settle
    <3> QED
      BY <3>4 DEF Promised!SpecNext
  <2>11. CASE EntryVacant(r)
    <3>1. {q \in Requests : phaseBar[q] = "leader"} = {q \in Requests : PhaseOf(q) = "leader"}
      BY DEF phaseBar
    <3>2. /\ phaseBar[r] = "pending" /\ phaseBar' = [phaseBar EXCEPT ![r] = "leader"] /\ outcomeBar' = outcomeBar
          /\ inflight[KeyOf[r]] = NoEntry /\ inflight' = [inflight EXCEPT ![KeyOf[r]] = r]
          /\ Cardinality({q \in Requests : phaseBar[q] = "leader"}) < MaxInflight
      BY <2>1, <2>2, <2>11, <3>1, LeadStep
    <3>3. Promised!Cardinality(Promised!Leaders) = Cardinality({q \in Requests : phaseBar[q] = "leader"})
      BY DEF Promised!Leaders, Promised!Cardinality, Cardinality
    <3>4. Promised!Lead(r)
      BY <3>2, <3>3 DEF Promised!Lead
    <3> QED
      BY <3>4 DEF Promised!SpecNext
  <2>12. \/ Still(r) \/ EntryVacant(r) \/ \E o \in {"ok", "fail"} : Settles(r, o)
         \/ Moves(r, "idle", "pending") \/ Moves(r, "pending", "rejected")
         \/ Moves(r, "pending", "timedOut") /\ inflight[KeyOf[r]] \notin {NoEntry, r}
         \/ Moves(r, "pending", "follower") /\ OutcomeOf(KeyOf[r]) # "none"
         \/ Moves(r, "leader", "done") /\ OutcomeOf(KeyOf[r]) # "none"
    BY <1>2, InvisibleSteps, PhaseSteps, MarkSteps DEF Acquire, Guard
  <2> QED
    BY <2>4, <2>5, <2>6, <2>7, <2>8, <2>9, <2>10, <2>11, <2>12
<1> QED
  BY <1>1, <1>2 DEF Next

\* The initial state is the promise's initial state.
LEMMA InitSimulation == Init => Promised!SpecInit
  BY ConstantsOK DEF Init, Promised!SpecInit, phaseBar, outcomeBar, PhaseOf,
     OutcomeOf, Leading, Parked

\* RequestCoalescer keeps its promise for any number of requests, keys, shards
\* and workers: the abstract coalescer allows every behaviour it has.
THEOREM KeepsPromise == Spec => ImplementsPromise
<1>1. CoalescerInv /\ [Next]_coalescerVars => [Promised!SpecNext]_Promised!specVars
  BY StepSimulation
<1> QED
  BY <1>1, Invariance, InitSimulation, PTL DEF Spec, ImplementsPromise, Promised!AbstractSpec
=============================================================================
