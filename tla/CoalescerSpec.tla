--------------------------- MODULE CoalescerSpec ---------------------------
(***************************************************************************)
(* What request coalescing promises to its callers, without atomics, locks *)
(* or wake-ups: every key is owned by at most one request (its leader),    *)
(* the leader settles the key's outcome, and everybody else who asked for  *)
(* the key follows a settled outcome, gives up waiting, or is refused.     *)
(*                                                                         *)
(* Coalescer.tla shows that RequestCoalescer of                            *)
(* crab-cache/src/coalescing.rs implements this; CachePhase.tla uses it in *)
(* place of the detailed coalescer.                                        *)
(***************************************************************************)
EXTENDS Naturals, FiniteSets

CONSTANTS Requests,     \* calls of acquire
          Keys,         \* cache keys
          KeyOf,        \* the key each request asks for
          NoEntry,      \* "the map has no entry for this key"
          MaxInflight   \* max_inflight

VARIABLES phase,        \* where each request stands
          owner,        \* owner[k]: the request that leads key k, or NoEntry
          outcome       \* outcome[k]: what the leader of k announced

specVars == <<phase, owner, outcome>>

Phases   == {"idle", "pending", "leader", "follower", "timedOut", "rejected", "done"}
Outcomes == {"none", "ok", "fail"}

Leaders == {r \in Requests : phase[r] = "leader"}

SpecTypeOK ==
    /\ phase   \in [Requests -> Phases]
    /\ owner   \in [Keys -> Requests \cup {NoEntry}]
    /\ outcome \in [Keys -> Outcomes]

SpecInit ==
    /\ phase   = [r \in Requests |-> "idle"]
    /\ owner   = [k \in Keys |-> NoEntry]
    /\ outcome = [k \in Keys |-> "none"]

\* A request calls acquire.
Ask(r) ==
    /\ phase[r] = "idle"
    /\ phase' = [phase EXCEPT ![r] = "pending"]
    /\ UNCHANGED <<owner, outcome>>

\* The key is free and a slot is left: the request becomes the key's leader.
Lead(r) ==
    /\ phase[r] = "pending"
    /\ owner[KeyOf[r]] = NoEntry
    /\ Cardinality(Leaders) < MaxInflight
    /\ phase' = [phase EXCEPT ![r] = "leader"]
    /\ owner' = [owner EXCEPT ![KeyOf[r]] = r]
    /\ UNCHANGED outcome

\* The leader announces an outcome; a failure may still follow a success.
Settle(r, o) ==
    /\ phase[r] = "leader"
    /\ outcome[KeyOf[r]] = "none" \/ o = "fail"
    /\ outcome' = [outcome EXCEPT ![KeyOf[r]] = o]
    /\ UNCHANGED <<phase, owner>>

\* A request follows a key whose outcome is known.
Follow(r) ==
    /\ phase[r] = "pending"
    /\ outcome[KeyOf[r]] # "none"
    /\ phase' = [phase EXCEPT ![r] = "follower"]
    /\ UNCHANGED <<owner, outcome>>

\* Waiting for somebody else's key took too long.
GiveUp(r) ==
    /\ phase[r] = "pending"
    /\ owner[KeyOf[r]] \notin {NoEntry, r}
    /\ phase' = [phase EXCEPT ![r] = "timedOut"]
    /\ UNCHANGED <<owner, outcome>>

\* The coalescer has no slot for another leader.
Refuse(r) ==
    /\ phase[r] = "pending"
    /\ phase' = [phase EXCEPT ![r] = "rejected"]
    /\ UNCHANGED <<owner, outcome>>

\* The leader's guard is gone; it never leaves its key unsettled.
Retire(r) ==
    /\ phase[r] = "leader"
    /\ outcome[KeyOf[r]] # "none"
    /\ phase' = [phase EXCEPT ![r] = "done"]
    /\ UNCHANGED <<owner, outcome>>

SpecNext ==
    \E r \in Requests :
        \/ Ask(r) \/ Lead(r) \/ Follow(r) \/ GiveUp(r) \/ Refuse(r) \/ Retire(r)
        \/ \E o \in {"ok", "fail"} : Settle(r, o)

AbstractSpec == SpecInit /\ [][SpecNext]_specVars
=============================================================================
