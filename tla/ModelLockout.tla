---------------------------- MODULE ModelLockout ----------------------------
(***************************************************************************)
(* ModelLockoutRegistry (crates/crab-proxy/src/model_lockout.rs) for one   *)
(* (profile, backend, model) key: keys do not interact.  One step per      *)
(* access of the two DashMaps, so that record_failure, is_locked, clear    *)
(* and cleanup interleave as the worker threads run them.                  *)
(*                                                                         *)
(* Callers are the threads of control that use the registry: a response    *)
(* handler, upstream_peer's candidate loop, the management API and the     *)
(* periodic cleanup; each makes one call after another.                    *)
(***************************************************************************)
EXTENDS Integers, Sequences

CONSTANTS Callers,
          LockSteps,     \* LOCKOUT_BACKOFF_STEPS, in ticks
          Cooldowns,     \* the base_cooldown arguments the callers pass
          Levels,        \* the max_backoff_level arguments (4, and 1 for MiMo)
          MaxNow         \* bound on the clock

ASSUME LockoutAssumption ==
    /\ LockSteps \in Seq(Nat) /\ LockSteps # <<>>
    /\ \A i, j \in DOMAIN LockSteps : i <= j => LockSteps[i] <= LockSteps[j]
    /\ Cooldowns \subseteq Nat /\ Levels \subseteq Nat /\ MaxNow \in Nat

VARIABLES now,      \* the clock
          lock,     \* `until` of the entry in `locks`, or NoLock
          fails,    \* the entry in `failure_states`, or NoFails
          pc,       \* the caller's next step
          call,     \* record_failure's arguments and locals
          reports   \* history: failures counted so far, up to the number of steps

lockoutVars == <<now, lock, fails, pc, call, reports>>

NoLock == -1
NoFails == [count |-> 0, last |-> 0, window |-> 0]
NoCall == [at |-> 0, base |-> 0, level |-> 0, until |-> 0]

LockoutTypeOK ==
    /\ now \in 0..MaxNow
    /\ lock \in Nat \cup {NoLock}
    /\ fails \in [count : 0..Len(LockSteps), last : 0..MaxNow, window : Nat]
    /\ pc \in [Callers -> {"idle", "count", "check", "insert", "expired", "clear", "clean"}]
    /\ call \in [Callers -> [at : 0..MaxNow, base : Nat, level : Nat, until : Nat]]
    /\ reports \in 0..Len(LockSteps)

LockoutInit ==
    /\ now = 0 /\ lock = NoLock /\ fails = NoFails /\ reports = 0
    /\ pc = [c \in Callers |-> "idle"]
    /\ call = [c \in Callers |-> NoCall]

Then(c, step) == pc' = [pc EXCEPT ![c] = step]
Return(c) == Then(c, "idle") /\ call' = [call EXCEPT ![c] = NoCall]
Least(m, n) == IF m <= n THEN m ELSE n

\* record_failure reads the clock ...
Report(c) == \E base \in Cooldowns, level \in Levels :
    /\ pc[c] = "idle"
    /\ call' = [call EXCEPT ![c] = [at |-> now, base |-> base, level |-> level, until |-> 0]]
    /\ Then(c, "count")
    /\ UNCHANGED <<now, lock, fails, reports>>

\* ... counts the failure under the entry's lock.  The window is the one the
\* first failure brought; duration_since saturates at zero.  A count beyond the
\* last step locks for as long as the last one, so it is capped there.
Expired(c) == call[c].at - fails.last > fails.window

\* Variant: last_failure_at is set to the end of the lockout.
CountFailureDatedAhead(c) ==
    LET count == IF fails.count = 0 \/ Expired(c) THEN 1
                 ELSE Least(fails.count + 1, Len(LockSteps))
        step == Least(Least(count - 1, call[c].level), Len(LockSteps) - 1)
        end == call[c].at + LockSteps[step + 1]
    IN  /\ pc[c] = "count"
        /\ fails' = [count |-> count, last |-> end,
                     window |-> IF fails.count = 0 THEN call[c].base ELSE fails.window]
        /\ call' = [call EXCEPT ![c].until = end]
        /\ Then(c, "check")
        /\ reports' = Least(reports + 1, Len(LockSteps))
        /\ UNCHANGED <<now, lock>>

CountFailure(c) ==
    LET count == IF fails.count = 0 \/ Expired(c) THEN 1
                 ELSE Least(fails.count + 1, Len(LockSteps))
        step == Least(Least(count - 1, call[c].level), Len(LockSteps) - 1)
    IN  /\ pc[c] = "count"
        /\ fails' = [count |-> count, last |-> call[c].at,
                     window |-> IF fails.count = 0 THEN call[c].base ELSE fails.window]
        /\ call' = [call EXCEPT ![c].until = call[c].at + LockSteps[step + 1]]
        /\ Then(c, "check")
        /\ reports' = Least(reports + 1, Len(LockSteps))
        /\ UNCHANGED <<now, lock>>

\* ... leaves a longer lockout alone ...
CheckLonger(c) ==
    /\ pc[c] = "check"
    /\ IF lock > call[c].until
       THEN Return(c)
       ELSE Then(c, "insert") /\ UNCHANGED call
    /\ UNCHANGED <<now, lock, fails, reports>>

\* Variant: the new lockout is added to the one in place.
InsertLockExtends(c) ==
    /\ pc[c] = "insert"
    /\ lock' = IF lock = NoLock THEN call[c].until ELSE lock + call[c].until - call[c].at
    /\ Return(c)
    /\ UNCHANGED <<now, fails, reports>>

\* ... and, with no lock held in between, writes its own.
InsertLock(c) ==
    /\ pc[c] = "insert"
    /\ lock' = call[c].until
    /\ Return(c)
    /\ UNCHANGED <<now, fails, reports>>

\* is_locked: a lock that runs or an empty map is only read; an expired entry is
\* released and then removed by its key.
FindExpired(c) ==
    /\ pc[c] = "idle" /\ lock # NoLock /\ lock <= now
    /\ Then(c, "expired")
    /\ UNCHANGED <<now, lock, fails, call, reports>>

RemoveExpired(c) ==
    /\ pc[c] = "expired"
    /\ lock' = NoLock
    /\ Return(c)
    /\ UNCHANGED <<now, fails, reports>>

\* clear, from the management API: the lock, then the failure state.
Clear(c) ==
    /\ pc[c] = "idle"
    /\ lock' = NoLock
    /\ Then(c, "clear")
    /\ UNCHANGED <<now, fails, call, reports>>

ClearFails(c) ==
    /\ pc[c] = "clear"
    /\ fails' = NoFails
    /\ Return(c)
    /\ UNCHANGED <<now, lock, reports>>

\* cleanup, every five minutes: one retain per map, with one reading of the clock.
Cleanup(c) ==
    /\ pc[c] = "idle"
    /\ lock' = IF lock <= now THEN NoLock ELSE lock
    /\ call' = [call EXCEPT ![c].at = now]
    /\ Then(c, "clean")
    /\ UNCHANGED <<now, fails, reports>>

CleanupFails(c) ==
    /\ pc[c] = "clean"
    /\ fails' = IF call[c].at - fails.last > 2 * fails.window THEN NoFails ELSE fails
    /\ Return(c)
    /\ UNCHANGED <<now, lock, reports>>

Tick == now < MaxNow /\ now' = now + 1 /\ UNCHANGED <<lock, fails, pc, call, reports>>

CallerStep(c) ==
    \/ Report(c) \/ CountFailure(c) \/ CheckLonger(c) \/ InsertLock(c) \/ FindExpired(c)
    \/ RemoveExpired(c) \/ Clear(c) \/ ClearFails(c) \/ Cleanup(c) \/ CleanupFails(c)

LockoutNext == (\E c \in Callers : CallerStep(c)) \/ Tick

LockoutSpec == LockoutInit /\ [][LockoutNext]_lockoutVars
-----------------------------------------------------------------------------
\* The step that the failures counted so far can have led to.
Earned == IF reports = 0 THEN 0 ELSE LockSteps[reports]

\* A model is locked for the n-th backoff step only after n failures: no
\* lockout, written or about to be, reaches further than its failures have
\* earned it, however record_failure, is_locked, clear and cleanup interleave
\* and whatever base_cooldown the callers pass (model_lockout.rs:96).
LockEarned ==
    /\ lock <= now + Earned
    /\ \A c \in Callers : pc[c] \in {"check", "insert"} => call[c].until <= now + Earned

\* "Don't override a longer lockout": an entry is never replaced by a shorter
\* one (record_failure's check before its insert).
NeverShortened == [][lock' # NoLock => lock' >= lock]_lockoutVars

\* "When a model is locked out, upstream_peer skips it": a lockout that is still
\* running ends by its own time or by clear, never by a reader (is_locked).
KeptUntilExpiry ==
    [][(lock > now /\ lock' = NoLock)
          => \E c \in Callers : pc[c] = "idle" /\ pc'[c] = "clear"]_lockoutVars

\* "Model-level lockout for 401: long cooldown": the lockout that a failure
\* leaves behind lasts at least the cooldown its caller asked for.
CooldownHonoured ==
    [][\A c \in Callers : (pc[c] = "insert" /\ pc'[c] = "idle")
                             => lock' >= call[c].at + call[c].base]_lockoutVars
=============================================================================
