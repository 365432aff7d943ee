----------------------------- MODULE ClientGate -----------------------------
(***************************************************************************)
(* What a request of one client passes before and after it is worked on    *)
(* (crab-proxy, phases/request_filter.rs and phases/logging.rs): the       *)
(* lockout after failed authorisations (client_lockout.rs) and the store   *)
(* of answers for retries under an idempotency key (idempotency.rs).       *)
(*                                                                         *)
(* The registry and the store are DashMaps: one call on an entry is a      *)
(* step, and what a call does after it has let go of the entry is another. *)
(* Time is kept as ages and remaining times, so it has no bound.           *)
(***************************************************************************)
EXTENDS Integers, Sequences, FiniteSets

CONSTANTS
    Requests,
    IdemKeys,      \* idempotency keys
    MaxAttempts,   \* max_attempts of the lockout
    AttemptWindow, \* attempt_window, in ticks
    Lockout,       \* lockout_duration
    Window,        \* window of the idempotency store
    MaxEntries     \* capacity of the idempotency store

ASSUME GateAssumption ==
    /\ {MaxAttempts, Lockout, Window, MaxEntries} \subseteq Nat \ {0}
    /\ AttemptWindow \in Nat /\ IdemKeys # {} /\ IsFiniteSet(Requests \union IdemKeys)

VARIABLES
    known,         \* whether the client's key is in the key table
    attempts,      \* ages of the failed attempts, the oldest first
    lockedFor,     \* time left of the lockout; 0 over, NotLocked none set
    req,           \* per request: stage and idempotency key
    entries,       \* per idempotency key: age of the answer stored, or None
    last,          \* history: age of the last answer saved, or None
    clobbered      \* history: keys whose fresh answer a stale check removed

vars == <<known, attempts, lockedFor, req, entries, last, clobbered>>

NotLocked == -1
None == -1
Aged(age, cap) == IF age \in 0 .. cap - 1 THEN age + 1 ELSE age

Idle == [at |-> "idle", key |-> CHOOSE i \in IdemKeys : TRUE]
Stages == {"idle", "checked", "failed", "known", "cleared", "expired", "serving", "saving"}

GateTypeOK ==
    /\ known \in BOOLEAN
    /\ attempts \in Seq(0 .. AttemptWindow + 1)
    /\ lockedFor \in NotLocked .. Lockout
    /\ req \in [Requests -> [at : Stages, key : IdemKeys]]
    /\ entries \in [IdemKeys -> None .. Window]
    /\ last \in [IdemKeys -> None .. Window]
    /\ clobbered \in SUBSET IdemKeys

Init ==
    /\ known \in BOOLEAN
    /\ attempts = << >>
    /\ lockedFor = NotLocked
    /\ req = [r \in Requests |-> Idle]
    /\ entries = [i \in IdemKeys |-> None]
    /\ last = [i \in IdemKeys |-> None]
    /\ clobbered = {}

store == <<entries, last, clobbered>>
registry == <<attempts, lockedFor>>
To(r, stage) == req' = [req EXCEPT ![r].at = stage]
Ends(r) == req' = [req EXCEPT ![r] = Idle]

(***************************************************************************)
(* Lockout.                                                                *)
(***************************************************************************)
\* Attempts are popped from the front as long as they are older than the
\* window.
Popped(ages) == {n \in 1 .. Len(ages) : \A m \in 1 .. n : ages[m] > AttemptWindow}
Recent(ages) == SubSeq(ages, Cardinality(Popped(ages)) + 1, Len(ages))

\* Variant: a locked client that tries again starts the lockout anew.
CheckLockoutSlides(r) ==
    /\ req[r].at = "idle"
    /\ IF lockedFor > 0
       THEN lockedFor' = Lockout /\ UNCHANGED <<attempts, req>>
       ELSE /\ lockedFor' = NotLocked
            /\ attempts' = IF lockedFor = NotLocked THEN Recent(attempts) ELSE << >>
            /\ \E i \in IdemKeys : req' = [req EXCEPT ![r] = [at |-> "checked", key |-> i]]
    /\ UNCHANGED <<known, store>>

\* check_lockout: a client that is locked out is answered 429 and nothing
\* else happens; a lockout that is over is cleared with its attempts.
CheckLockout(r) ==
    /\ req[r].at = "idle"
    /\ lockedFor <= 0
    /\ lockedFor' = NotLocked
    /\ attempts' = IF lockedFor = NotLocked THEN Recent(attempts) ELSE << >>
    /\ \E i \in IdemKeys : req' = [req EXCEPT ![r] = [at |-> "checked", key |-> i]]
    /\ UNCHANGED <<known, store>>

\* authorize_client: the key is looked up.
Authorize(r) ==
    /\ req[r].at = "checked"
    /\ To(r, IF known THEN "known" ELSE "failed")
    /\ UNCHANGED <<known, registry, store>>

\* Variant: only an attempt that makes the count exact locks.
RecordFailedAttemptExact(r) ==
    /\ req[r].at = "failed"
    /\ attempts' = Append(Recent(attempts), 0)
    /\ lockedFor' = IF Len(attempts') = MaxAttempts + 1 THEN Lockout ELSE lockedFor
    /\ Ends(r)
    /\ UNCHANGED <<known, store>>

\* Variant: a failure adds a lockout to the one there is.
RecordFailedAttemptAdds(r) ==
    /\ req[r].at = "failed"
    /\ attempts' = Append(Recent(attempts), 0)
    /\ lockedFor' = IF Len(attempts') >= MaxAttempts
                    THEN Lockout + (IF lockedFor = NotLocked THEN 0 ELSE lockedFor) ELSE lockedFor
    /\ Ends(r)
    /\ UNCHANGED <<known, store>>

\* record_failed_attempt, and the answer 401 or 429.
RecordFailedAttempt(r) ==
    /\ req[r].at = "failed"
    /\ attempts' = Append(Recent(attempts), 0)
    /\ lockedFor' = IF Len(attempts') >= MaxAttempts THEN Lockout ELSE lockedFor
    /\ Ends(r)
    /\ UNCHANGED <<known, store>>

\* record_success forgets the client.
RecordSuccess(r) ==
    /\ req[r].at = "known"
    /\ attempts' = << >> /\ lockedFor' = NotLocked
    /\ To(r, "cleared")
    /\ UNCHANGED <<known, store>>

\* A management call, or a control plane refresh between its clear and its
\* insert: the key leaves or enters the table.
FlipKey ==
    /\ known' = ~known
    /\ UNCHANGED <<registry, req, store>>

(***************************************************************************)
(* Idempotency.                                                            *)
(***************************************************************************)
\* IdempotencyStore::check: a fresh answer is sent and the request is over.
\* One that has expired is removed, by key, after the entry was let go.
CheckIdem(r) ==
    /\ req[r].at = "cleared"
    /\ LET age == entries[req[r].key]
       IN  IF age = None THEN To(r, "serving")
           ELSE IF age < Window THEN Ends(r) ELSE To(r, "expired")
    /\ UNCHANGED <<known, registry, store>>

RemoveStale(r) ==
    /\ req[r].at = "expired"
    /\ entries' = [entries EXCEPT ![req[r].key] = None]
    /\ clobbered' = IF entries[req[r].key] \in 0 .. Window - 1
                    THEN clobbered \union {req[r].key} ELSE clobbered
    /\ To(r, "serving")
    /\ UNCHANGED <<known, registry, last>>

Held == {i \in IdemKeys : entries[i] # None}

\* Variant: the capacity is not looked at.
HasRoomAlways(r) ==
    /\ req[r].at = "serving"
    /\ To(r, "saving")
    /\ UNCHANGED <<known, registry, store>>

\* IdempotencyStore::save, called in the logging phase: a full store drops
\* the answer.  The length is read before the entry is inserted.
HasRoom(r) ==
    /\ req[r].at = "serving"
    /\ IF Cardinality(Held) >= MaxEntries THEN Ends(r) ELSE To(r, "saving")
    /\ UNCHANGED <<known, registry, store>>

Save(r) ==
    /\ req[r].at = "saving"
    /\ entries' = [entries EXCEPT ![req[r].key] = 0]
    /\ last' = [last EXCEPT ![req[r].key] = 0]
    /\ clobbered' = clobbered \ {req[r].key}
    /\ Ends(r)
    /\ UNCHANGED <<known, registry>>

\* A limit refuses the request, or it ends without an upstream status, or
\* with an error: nothing is saved.
NoAnswer(r) ==
    /\ req[r].at \in {"cleared", "serving"}
    /\ Ends(r)
    /\ UNCHANGED <<known, registry, store>>

\* Variant: the last moment of the window counts as expired.
CleanupExpiredEarly ==
    /\ entries' = [i \in IdemKeys |-> IF entries[i] + 1 < Window THEN entries[i] ELSE None]
    /\ UNCHANGED <<known, registry, req, last, clobbered>>

CleanupExpired ==
    /\ entries' = [i \in IdemKeys |-> IF entries[i] < Window THEN entries[i] ELSE None]
    /\ UNCHANGED <<known, registry, req, last, clobbered>>

GateTick ==
    /\ attempts' = [n \in DOMAIN attempts |-> Aged(attempts[n], AttemptWindow + 1)]
    /\ lockedFor' = IF lockedFor > 0 THEN lockedFor - 1 ELSE lockedFor
    /\ entries' = [i \in IdemKeys |-> Aged(entries[i], Window)]
    /\ last' = [i \in IdemKeys |-> Aged(last[i], Window)]
    /\ UNCHANGED <<known, req, clobbered>>

Next ==
    \/ \E r \in Requests :
          \/ CheckLockout(r) \/ Authorize(r) \/ RecordFailedAttempt(r) \/ RecordSuccess(r)
          \/ CheckIdem(r) \/ RemoveStale(r) \/ HasRoom(r) \/ Save(r) \/ NoAnswer(r)
    \/ FlipKey \/ CleanupExpired \/ GateTick

Spec == Init /\ [][Next]_vars

\* Time passes.  Requests need not come, and those there are need not end.
FairSpec == Spec /\ WF_vars(GateTick)

(***************************************************************************)
(* Properties.                                                             *)
(***************************************************************************)
\* The registry holds at most max_attempts failures of a client, and one more
\* for every other request that was past check_lockout when the limit was
\* reached: no later one is let as far as the key table.
AttemptsBounded == Len(attempts) <= MaxAttempts + Cardinality(Requests) - 1

\* An answer that was saved is there for the whole window, and it is the last
\* one saved; the only thing that can take it away is a check that saw its
\* predecessor expire and removes by key (idempotency.rs).
SavedIsThere ==
    \A i \in IdemKeys : last[i] \in 0 .. Window - 1 => entries[i] = last[i] \/ i \in clobbered

\* The store is over its capacity by no more than the other requests that
\* were between the length and the insert of save (idempotency.rs).
StoreBounded == Cardinality(Held) <= MaxEntries + Cardinality(Requests) - 1

\* A lockout ends, however often the client tries meanwhile.
LockoutEnds == lockedFor > 0 ~> lockedFor <= 0
=============================================================================
