------------------------------ MODULE Admission ------------------------------
(***************************************************************************)
(* How a request gets past request_filter.rs's limits and gives back what  *)
(* it took: the slot of its client key (client_key_limiter.rs), a permit   *)
(* of the global semaphore and the slot of its DeepSeek user id            *)
(* (upstream_user_id_limiter.rs), while the management API creates,        *)
(* patches and revokes the key.                                            *)
(*                                                                         *)
(* One client token and one (tier, user id) pair: others do not interact   *)
(* with them but for the semaphore.  Slots are Arcs: a request keeps the   *)
(* one it took when the map holds another.                                 *)
(***************************************************************************)
EXTENDS Integers, FiniteSets

CONSTANTS Requests, Managers,
          Slots,        \* client key slots that exist at a time
          UserSlots,    \* user id slots that exist at a time
          NoSlot,
          Names,        \* names the management API gives to the key
          Limits,       \* values of max_concurrent (0: unlimited)
          MaxLimit,     \* no smaller than any of them
          UserLimit,    \* per-user limit of the tier (0: unlimited)
          Permits,      \* size of request_semaphore
          MaxKeys       \* bound on the number of keys created for the token

ASSUME AdmissionAssumption ==
    /\ NoSlot \notin Slots \cup UserSlots
    /\ Limits \subseteq 0..MaxLimit /\ MaxLimit \in Nat
    /\ UserLimit \in Nat /\ Permits \in Nat /\ MaxKeys \in Nat
    /\ IsFiniteSet(Requests)

VARIABLES key,       \* runtime.keys[token], or NoKey
          created,   \* number of keys created: their ids
          current,   \* the slot in ClientKeyLimiter.slots, or NoSlot
          slot,      \* the slots: identity, limit and inflight
          sem,       \* free permits of request_semaphore
          active,    \* the gauge gateway_active_requests
          userMap,   \* the slot in UpstreamUserIdLimiter.slots, or NoSlot
          userSlot,  \* inflight of each user id slot
          total,     \* the tier's total
          req,       \* the requests
          mgr,       \* the management calls
          calm       \* history: no two management calls have overlapped

admissionVars == <<key, created, current, slot, sem, active, userMap, userSlot, total, req, mgr,
                   calm>>

NoKey == [id |-> 0, name |-> "none", max |-> 0]
KeyRecord == [id : 1..MaxKeys, name : Names, max : Limits]
Fresh == [pc |-> "new", arc |-> NoSlot, permit |-> FALSE, user |-> NoSlot]

Stages == {"new", "key", "get", "cas", "refused", "permit", "domain", "user", "ucas",
           "utotal", "serve", "end", "usub", "usubtotal", "ucheck", "uremove", "out"}

AdmissionTypeOK ==
    /\ key \in KeyRecord \cup {NoKey}
    /\ created \in 0..MaxKeys
    /\ current \in Slots \cup {NoSlot}
    /\ slot \in [Slots -> [key : KeyRecord \cup {NoKey}, inflight : Nat]]
    /\ sem \in 0..Permits
    /\ active \in Int
    /\ userMap \in UserSlots \cup {NoSlot}
    /\ userSlot \in [UserSlots -> Nat]
    /\ total \in Nat
    /\ req \in [Requests -> [pc : Stages, arc : Slots \cup {NoSlot}, permit : BOOLEAN,
                             user : UserSlots \cup {NoSlot}]]
    /\ mgr \in [Managers -> [pc : {"idle", "insert", "sync", "drop"},
                             key : KeyRecord \cup {NoKey}]]
    /\ calm \in BOOLEAN

AdmissionInit ==
    /\ key = NoKey /\ created = 0
    /\ current = NoSlot
    /\ slot = [s \in Slots |-> [key |-> NoKey, inflight |-> 0]]
    /\ sem = Permits /\ active = 0
    /\ userMap = NoSlot /\ userSlot = [u \in UserSlots |-> 0] /\ total = 0
    /\ req = [r \in Requests |-> Fresh]
    /\ mgr = [m \in Managers |-> [pc |-> "idle", key |-> NoKey]]
    /\ calm = TRUE

clientVars == <<key, created, current, slot>>
userVars == <<userMap, userSlot, total>>
mgmtVars == <<mgr, calm>>

To(r, stage) == req' = [req EXCEPT ![r].pc = stage]
-----------------------------------------------------------------------------
(* ClientKeyLimiter.                                                       *)

\* A slot that neither the map nor a request refers to.
Unused(s) == s # current /\ \A r \in Requests : req[r].arc # s

\* Variant: the new slot starts from zero.
SyncKeyAfresh(k) ==
    \/ /\ current # NoSlot /\ slot[current].key.id = k.id /\ slot[current].key.name = k.name
       /\ slot' = [slot EXCEPT ![current].key = k]
       /\ UNCHANGED current
    \/ \E s \in Slots :
       /\ Unused(s)
       /\ current # NoSlot => slot[current].key.id # k.id \/ slot[current].key.name # k.name
       /\ slot' = [slot EXCEPT ![s] = [key |-> k, inflight |-> 0]]
       /\ current' = s

\* sync_key: a slot of the same id and name gets the limit; one of another
\* name is replaced by a slot that starts with its inflight count.
SyncKey(k) ==
    \/ /\ current # NoSlot /\ slot[current].key.id = k.id /\ slot[current].key.name = k.name
       /\ slot' = [slot EXCEPT ![current].key = k]
       /\ UNCHANGED current
    \/ \E s \in Slots :
       /\ Unused(s)
       /\ current # NoSlot => slot[current].key.id # k.id \/ slot[current].key.name # k.name
       /\ slot' = [slot EXCEPT ![s] =
             [key |-> k, inflight |-> IF current = NoSlot THEN 0 ELSE slot[current].inflight]]
       /\ current' = s

\* The request holds the entry of runtime.keys, so nobody writes it; while a
\* refusal is sent, too.
Reads(r) == req[r].pc \in {"get", "cas", "refused"}
Writable == \A r \in Requests : ~Reads(r)

\* Lockout, authorization, rate limit and project id let the request pass or
\* end it.
Enter(r) ==
    /\ req[r].pc = "new"
    /\ To(r, "key") \/ To(r, "end")
    /\ UNCHANGED <<clientVars, sem, active, userVars, mgmtVars>>

\* try_acquire for a key that is stored; others have no limit of their own.
FindKey(r) ==
    /\ req[r].pc = "key"
    /\ \/ key = NoKey /\ To(r, "permit") /\ UNCHANGED <<current, slot>>
       \/ key # NoKey /\ To(r, "get") /\ SyncKey(key)
    /\ UNCHANGED <<key, created, sem, active, userVars, mgmtVars>>

GetSlot(r) ==
    /\ req[r].pc = "get" /\ current # NoSlot
    /\ req' = [req EXCEPT ![r].pc = "cas", ![r].arc = current]
    /\ UNCHANGED <<clientVars, sem, active, userVars, mgmtVars>>

\* expect("slot just synced") panics; unwinding drops the request.
SlotGone(r) ==
    /\ req[r].pc = "get" /\ current = NoSlot
    /\ To(r, "end")
    /\ UNCHANGED <<clientVars, sem, active, userVars, mgmtVars>>

Full(s) == slot[s].key.max > 0 /\ slot[s].inflight >= slot[s].key.max

\* The compare-and-exchange loop.
TakeSlot(r) ==
    LET s == req[r].arc
    IN  /\ req[r].pc = "cas"
        /\ ~Full(s)
        /\ slot' = [slot EXCEPT ![s].inflight = @ + 1]
        /\ To(r, "permit")
        /\ UNCHANGED <<key, created, current, sem, active, userVars, mgmtVars>>

RefuseSlot(r) ==
    LET s == req[r].arc
    IN  /\ req[r].pc = "cas"
        /\ Full(s)
        /\ req' = [req EXCEPT ![r].pc = "refused", ![r].arc = NoSlot]
        /\ UNCHANGED <<clientVars, sem, active, userVars, mgmtVars>>

SendRefusal(r) ==
    /\ req[r].pc = "refused"
    /\ To(r, "end")
    /\ UNCHANGED <<clientVars, sem, active, userVars, mgmtVars>>

\* The global semaphore; the gauge is raised once the permit is there.
TakePermit(r) ==
    /\ req[r].pc = "permit"
    /\ \/ /\ sem > 0
          /\ sem' = sem - 1 /\ active' = active + 1
          /\ req' = [req EXCEPT ![r].pc = "domain", ![r].permit = TRUE]
       \/ sem = 0 /\ To(r, "end") /\ UNCHANGED <<sem, active>>
    /\ UNCHANGED <<clientVars, userVars, mgmtVars>>

\* Domain quota, body and pipeline: a refusal, a request for DeepSeek, or any
\* other request.
Prepare(r) ==
    /\ req[r].pc = "domain"
    /\ \E stage \in {"end", "user", "serve"} : To(r, stage)
    /\ UNCHANGED <<clientVars, sem, active, userVars, mgmtVars>>
-----------------------------------------------------------------------------
(* UpstreamUserIdLimiter.                                                  *)

\* sync_slot: the slot in the map, or a new one.
SyncUser(r) ==
    /\ req[r].pc = "user"
    /\ \/ /\ userMap # NoSlot
          /\ req' = [req EXCEPT ![r].pc = "ucas", ![r].user = userMap]
          /\ UNCHANGED <<userMap, userSlot>>
       \/ \E u \in UserSlots :
          /\ userMap = NoSlot /\ \A q \in Requests : req[q].user # u
          /\ userMap' = u /\ userSlot' = [userSlot EXCEPT ![u] = 0]
          /\ req' = [req EXCEPT ![r].pc = "ucas", ![r].user = u]
    /\ UNCHANGED <<clientVars, sem, active, total, mgmtVars>>

\* The limiter has been enabled; a disabled one hands out guards of no slot.
TakeUser(r) ==
    LET u == req[r].user
    IN  /\ req[r].pc = "ucas"
        /\ \/ /\ UserLimit = 0 \/ userSlot[u] < UserLimit
              /\ userSlot' = [userSlot EXCEPT ![u] = @ + 1]
              /\ To(r, "utotal")
           \/ /\ UserLimit > 0 /\ userSlot[u] >= UserLimit
              /\ req' = [req EXCEPT ![r].pc = "end", ![r].user = NoSlot]
              /\ UNCHANGED userSlot
        /\ UNCHANGED <<clientVars, sem, active, userMap, total, mgmtVars>>

CountUser(r) ==
    /\ req[r].pc = "utotal"
    /\ total' = total + 1
    /\ To(r, "serve")
    /\ UNCHANGED <<clientVars, sem, active, userMap, userSlot, mgmtVars>>

\* The request is answered, or its client hangs up.
Serve(r) ==
    /\ req[r].pc = "serve"
    /\ To(r, "end")
    /\ UNCHANGED <<clientVars, sem, active, userVars, mgmtVars>>

\* Variant: the guard lowers the slot that the map holds.
FinishCurrent(r) ==
    /\ req[r].pc = "end"
    /\ active' = active - 1
    /\ sem' = IF req[r].permit THEN sem + 1 ELSE sem
    /\ slot' = IF req[r].arc = NoSlot \/ current = NoSlot THEN slot
               ELSE [slot EXCEPT ![current].inflight = @ - 1]
    /\ req' = [req EXCEPT ![r] =
          [Fresh EXCEPT !.pc = IF req[r].user = NoSlot THEN "out" ELSE "usub",
                        !.user = req[r].user]]
    /\ UNCHANGED <<key, created, current, userVars, mgmtVars>>

\* Variant: a permit is returned by every request.
FinishPermit(r) ==
    /\ req[r].pc = "end"
    /\ active' = active - 1 /\ sem' = sem + 1
    /\ slot' = IF req[r].arc = NoSlot THEN slot
               ELSE [slot EXCEPT ![req[r].arc].inflight = @ - 1]
    /\ req' = [req EXCEPT ![r] =
          [Fresh EXCEPT !.pc = IF req[r].user = NoSlot THEN "out" ELSE "usub",
                        !.user = req[r].user]]
    /\ UNCHANGED <<key, created, current, userVars, mgmtVars>>

\* The logging phase lowers the gauge and the context is dropped: the permit,
\* the guard of the client key (release) ...
Finish(r) ==
    /\ req[r].pc = "end"
    /\ active' = active - 1
    /\ sem' = IF req[r].permit THEN sem + 1 ELSE sem
    /\ slot' = IF req[r].arc = NoSlot THEN slot
               ELSE [slot EXCEPT ![req[r].arc].inflight = @ - 1]
    /\ req' = [req EXCEPT ![r] =
          [Fresh EXCEPT !.pc = IF req[r].user = NoSlot THEN "out" ELSE "usub",
                        !.user = req[r].user]]
    /\ UNCHANGED <<key, created, current, userVars, mgmtVars>>

\* ... and the guard of the user id: release lowers inflight, then the total ...
ReleaseUser(r) ==
    /\ req[r].pc = "usub"
    /\ userSlot' = [userSlot EXCEPT ![req[r].user] = @ - 1]
    /\ To(r, "usubtotal")
    /\ UNCHANGED <<clientVars, sem, active, userMap, total, mgmtVars>>

UncountUser(r) ==
    /\ req[r].pc = "usubtotal"
    /\ total' = total - 1
    /\ To(r, "ucheck")
    /\ UNCHANGED <<clientVars, sem, active, userMap, userSlot, mgmtVars>>

Gone(r) == req' = [req EXCEPT ![r].pc = "out", ![r].user = NoSlot]

\* Variant: inflight is compared as it was before the release.
CheckUserSlotLate(r) ==
    /\ req[r].pc = "ucheck"
    /\ IF userSlot[req[r].user] = 1 /\ userMap = req[r].user THEN To(r, "uremove") ELSE Gone(r)
    /\ UNCHANGED <<clientVars, sem, active, userVars, mgmtVars>>

\* ... and finds out whether the slot is empty and still the one in the map ...
CheckUserSlot(r) ==
    LET u == req[r].user
    IN  /\ req[r].pc = "ucheck"
        /\ IF userSlot[u] = 0 /\ userMap = u THEN To(r, "uremove") ELSE Gone(r)
        /\ UNCHANGED <<clientVars, sem, active, userVars, mgmtVars>>

\* ... and removes it by its key, with no lock held in between.
RemoveUserSlot(r) ==
    /\ req[r].pc = "uremove"
    /\ userMap' = NoSlot
    /\ Gone(r)
    /\ UNCHANGED <<clientVars, sem, active, userSlot, total, mgmtVars>>
-----------------------------------------------------------------------------
(* The management API.                                                     *)

Manages(m, pc, k) ==
    /\ mgr' = [mgr EXCEPT ![m] = [pc |-> pc, key |-> k]]
    /\ calm' = (calm /\ \A n \in Managers \ {m} : mgr[n].pc = "idle")

\* create_key: refused for a key that exists; inserted, then synced.
CreateKey(m) ==
    /\ mgr[m].pc = "idle" /\ key = NoKey /\ created < MaxKeys
    /\ Manages(m, "insert", NoKey)
    /\ UNCHANGED <<clientVars, sem, active, userVars, req>>

InsertKey(m) == \E name \in Names, max \in Limits :
    LET k == [id |-> created + 1, name |-> name, max |-> max]
    IN  /\ mgr[m].pc = "insert" /\ Writable /\ created < MaxKeys
        /\ key' = k /\ created' = created + 1
        /\ Manages(m, "sync", k)
        /\ UNCHANGED <<current, slot, sem, active, userVars, req>>

\* patch_key: changes the entry, drops it and syncs a clone.
PatchKey(m) == \E name \in Names, max \in Limits :
    LET k == [key EXCEPT !.name = name, !.max = max]
    IN  /\ mgr[m].pc = "idle" /\ key # NoKey /\ Writable
        /\ key' = k
        /\ Manages(m, "sync", k)
        /\ UNCHANGED <<created, current, slot, sem, active, userVars, req>>

\* A project id that does not pass ends patch_key with the name already written.
PatchRejected(m) == \E name \in Names :
    /\ mgr[m].pc = "idle" /\ key # NoKey /\ Writable
    /\ key' = [key EXCEPT !.name = name]
    /\ Manages(m, "idle", NoKey)
    /\ UNCHANGED <<created, current, slot, sem, active, userVars, req>>

SyncPatched(m) ==
    /\ mgr[m].pc = "sync"
    /\ SyncKey(mgr[m].key)
    /\ Manages(m, "idle", NoKey)
    /\ UNCHANGED <<key, created, sem, active, userVars, req>>

\* revoke_key: the key, then its slot.
RevokeKey(m) ==
    /\ mgr[m].pc = "idle" /\ key # NoKey /\ Writable
    /\ key' = NoKey
    /\ Manages(m, "drop", NoKey)
    /\ UNCHANGED <<created, current, slot, sem, active, userVars, req>>

RemoveSlot(m) ==
    /\ mgr[m].pc = "drop"
    /\ current' = NoSlot
    /\ Manages(m, "idle", NoKey)
    /\ UNCHANGED <<key, created, slot, sem, active, userVars, req>>

RequestStep(r) ==
    \/ Enter(r) \/ FindKey(r) \/ GetSlot(r) \/ SlotGone(r) \/ TakeSlot(r) \/ RefuseSlot(r)
    \/ SendRefusal(r) \/ TakePermit(r) \/ Prepare(r) \/ SyncUser(r) \/ TakeUser(r)
    \/ CountUser(r) \/ Serve(r) \/ Finish(r) \/ ReleaseUser(r) \/ UncountUser(r)
    \/ CheckUserSlot(r) \/ RemoveUserSlot(r)

Manage(m) ==
    \/ CreateKey(m) \/ InsertKey(m) \/ PatchKey(m) \/ PatchRejected(m) \/ SyncPatched(m) \/ RevokeKey(m)
    \/ RemoveSlot(m)

AdmissionNext == (\E r \in Requests : RequestStep(r)) \/ (\E m \in Managers : Manage(m))

AdmissionSpec == AdmissionInit /\ [][AdmissionNext]_admissionVars
-----------------------------------------------------------------------------
\* The requests that hold a guard of a client key slot, of a user id slot.
HoldsSlot(r) == req[r].arc # NoSlot /\ req[r].pc # "cas"
HoldsUser(r) == req[r].user # NoSlot /\ req[r].pc \notin {"ucas", "usubtotal", "ucheck", "uremove"}

\* "RAII guard; decrements inflight on drop": whatever slot the map holds by
\* then, a release never takes a counter below zero (fetch_sub would wrap), and
\* the user id's slots, the tier's total and the semaphore are exact.
NothingLost ==
    /\ \A s \in Slots : slot[s].inflight >=
           Cardinality({r \in Requests : HoldsSlot(r) /\ req[r].arc = s})
    /\ \A u \in UserSlots : (u = userMap \/ \E r \in Requests : req[r].user = u)
           => userSlot[u] = Cardinality({r \in Requests : HoldsUser(r) /\ req[r].user = u})
    /\ total = Cardinality({r \in Requests : req[r].user # NoSlot
                              /\ req[r].pc \notin {"ucas", "utotal", "ucheck", "uremove"}})
    /\ sem = Permits - Cardinality({r \in Requests : req[r].permit})

\* max_concurrent holds for a key across renames, although every rename gives
\* it a new slot (sync_key, names_changed), as long as management calls do not
\* overlap.
KeyLimit ==
    calm /\ 0 \notin Limits => \A id \in 1..MaxKeys :
        Cardinality({r \in Requests : HoldsSlot(r) /\ slot[req[r].arc].key.id = id}) <= MaxLimit

\* Slots of user ids do not pile up: when nobody is at work, the map is empty
\* (release removes the slot it leaves empty).
NoSlotLeft ==
    (\A r \in Requests : req[r].pc \notin {"ucas", "utotal", "serve", "end", "usub",
                                           "usubtotal", "ucheck", "uremove"})
       => userMap = NoSlot
-----------------------------------------------------------------------------
\* "soft limits" per user id: no more than UserLimit requests of a user at once.
UserLimitHolds == UserLimit = 0 \/ Cardinality({r \in Requests : HoldsUser(r)}) <= UserLimit

\* "slot just synced": the slot is there when try_acquire looks for it.
SlotJustSynced == \A r \in Requests : req[r].pc = "get" => current # NoSlot

\* A key that nobody uses has its whole limit.
SlotDrains ==
    (\A r \in Requests : req[r].arc = NoSlot) /\ current # NoSlot => slot[current].inflight = 0

\* "Number of in-flight requests after auth + semaphore admission".
GaugeExact == active = Cardinality({r \in Requests : req[r].permit})
=============================================================================
