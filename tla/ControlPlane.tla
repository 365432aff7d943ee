---------------------------- MODULE ControlPlane ----------------------------
(***************************************************************************)
(* The control plane state the gateways share through Redis (crab-state,   *)
(* and the calls of crab-gateway that change it).                          *)
(*                                                                         *)
(* A management call changes the gateway's own runtime and has the whole   *)
(* runtime written to Redis: one SET per field, then INCR of the version,  *)
(* then PUBLISH.  Most calls spawn a task for it; the replacement of the   *)
(* domain policies awaits it in its handler, which is dropped where it is  *)
(* when the client hangs up.  Every gateway runs two refreshers, one woken *)
(* by a timer and one by the published message, each with a last_version   *)
(* of its own: a refresher that finds another version reads the version    *)
(* and the fields, one GET each, and overwrites the runtime.               *)
(*                                                                         *)
(* Of the six fields two are kept: the client keys, which an apply clears  *)
(* and inserts one at a time, and the domain policies, which it replaces   *)
(* in one assignment.  Each await on Redis is a step.                      *)
(***************************************************************************)
EXTENDS Integers, FiniteSets

CONSTANTS
    Gateways,
    Keys,        \* client keys (tokens)
    Policies,    \* values of the domain policies
    Default,     \* the policies of a gateway that has loaded none
    Savers,      \* saves that may run at once
    MaxVersion,  \* bound: management calls stop when the version could pass it
    MaxFaults    \* bound: Redis errors, lost messages, hang-ups and crashes in all

ASSUME ControlAssumption ==
    /\ Gateways # {} /\ Default \in Policies
    /\ MaxVersion \in Nat
    /\ MaxFaults \in Nat

VARIABLES
    redis,       \* [version, keys, policies]: the store
    runtime,     \* per gateway: the keys and policies it serves by
    task,        \* per gateway: its start-up load and its two refreshers
    saver,       \* the saves: spawned tasks, or awaited by a handler
    rung,        \* per gateway: a message waits for the subscriber
    faults,      \* how many faults have happened
    touched,     \* history: fields SET since the last INCR
    astray,      \* history: fields a gateway changed since it last loaded them
    harmed       \* history: a fault nothing retries has happened

vars == <<redis, runtime, task, saver, rung, faults, touched, astray, harmed>>

Fields == {"keys", "policies"}
PERSIST_MAX_ATTEMPTS == 3

(***************************************************************************)
(* The two refreshers, and the load main() does before it spawns them.     *)
(***************************************************************************)
Refreshers == {"poll", "sub"}
Tasks == Refreshers \union {"boot"}

Off == [at |-> "off", last |-> 0, ver |-> 0, keys |-> {}, policies |-> Default]
Idle(v) == [Off EXCEPT !.at = "idle", !.last = v]

NoSave == [at |-> "none", by |-> CHOOSE g \in Gateways : TRUE, awaited |-> FALSE,
           tries |-> 0, keys |-> {}, policies |-> Default]

\* An attempt of a save of gateway g, at its start.
Attempt(g, w, n) == [NoSave EXCEPT !.at = "build", !.by = g, !.awaited = w, !.tries = n]

Stages == {"off", "start", "version", "keys", "policies", "clear", "insert",
           "idle", "up"}
Phases == {"none", "build", "read", "keys", "policies", "incr", "publish"}

ControlTypeOK ==
    /\ redis \in [version : Nat, keys : SUBSET Keys, policies : Policies]
    /\ runtime \in [Gateways -> [keys : SUBSET Keys, policies : Policies]]
    /\ task \in [Gateways -> [Tasks -> [at : Stages, last : Nat, ver : Nat,
                                        keys : SUBSET Keys, policies : Policies]]]
    /\ saver \in [Savers -> [at : Phases, by : Gateways, awaited : BOOLEAN,
                             tries : 0 .. PERSIST_MAX_ATTEMPTS,
                             keys : SUBSET Keys, policies : Policies]]
    /\ rung \in [Gateways -> BOOLEAN]
    /\ faults \in 0 .. MaxFaults
    /\ touched \in SUBSET Fields
    /\ astray \in [Gateways -> SUBSET Fields]
    /\ harmed \in BOOLEAN

\* All gateways are up and serve by what the store holds.
Init ==
    /\ redis = [version |-> 1, keys |-> Keys, policies |-> Default]
    /\ runtime = [g \in Gateways |-> [keys |-> Keys, policies |-> Default]]
    /\ task = [g \in Gateways |->
                  [t \in Tasks |-> IF t = "boot" THEN [Off EXCEPT !.at = "up", !.ver = 1]
                                                 ELSE Idle(1)]]
    /\ saver = [s \in Savers |-> NoSave]
    /\ rung = [g \in Gateways |-> FALSE]
    /\ faults = 0
    /\ touched = {}
    /\ astray = [g \in Gateways |-> {}]
    /\ harmed = FALSE

Fault == faults < MaxFaults /\ faults' = faults + 1

(***************************************************************************)
(* A management call: the runtime changes and a save begins, in a task of  *)
(* its own (schedule_persist_state) or awaited by the handler              *)
(* (persist_state_sync).                                                   *)
(***************************************************************************)
Pending == {s \in Savers : saver[s].at \in Phases \ {"none", "publish"}}
Free == {s \in Savers : saver[s].at = "none"}

Change(g, f, value, awaited) ==
    /\ task[g]["boot"].at = "up"
    /\ redis.version + Cardinality(Pending) < MaxVersion
    /\ runtime' = [runtime EXCEPT ![g][f] = value]
    /\ astray' = [astray EXCEPT ![g] = @ \union {f}]
    /\ Free # {}
    /\ LET s == CHOOSE s \in Free : TRUE
       IN  saver' = [saver EXCEPT ![s] = Attempt(g, awaited, 1)]
    /\ UNCHANGED <<redis, task, rung, faults, touched, harmed>>

CreateKey(g, k) ==
    k \notin runtime[g].keys /\ Change(g, "keys", runtime[g].keys \union {k}, FALSE)
RevokeKey(g, k) ==
    k \in runtime[g].keys /\ Change(g, "keys", runtime[g].keys \ {k}, FALSE)
PutPolicies(g, p) == Change(g, "policies", p, TRUE)
DeletePolicy(g, p) == p # runtime[g].policies /\ Change(g, "policies", p, FALSE)

\* The client of an awaited save hangs up: the handler is dropped at the
\* await it has come to, and nothing takes the save up again.
ClientGone(s) ==
    /\ saver[s].awaited
    /\ Fault
    /\ saver' = [saver EXCEPT ![s] = NoSave]
    /\ harmed' = TRUE
    /\ UNCHANGED <<redis, runtime, task, rung, touched, astray>>

(***************************************************************************)
(* persist_runtime_state_with_retry: build the snapshot, SET the fields,   *)
(* INCR, PUBLISH; an error starts it again, three attempts in all.  The    *)
(* snapshot reads the keys, then the policies, while an apply may run; a   *)
(* value that has been written is forgotten.                               *)
(***************************************************************************)
Build(s) ==
    /\ saver[s].at = "build"
    /\ saver' = [saver EXCEPT ![s].at = "read", ![s].keys = runtime[saver[s].by].keys]
    /\ UNCHANGED <<redis, runtime, task, rung, faults, touched, astray, harmed>>

BuildPolicies(s) ==
    /\ saver[s].at = "read"
    /\ saver' = [saver EXCEPT ![s].at = "keys", ![s].policies = runtime[saver[s].by].policies]
    /\ UNCHANGED <<redis, runtime, task, rung, faults, touched, astray, harmed>>

SetKeys(s) ==
    /\ saver[s].at = "keys"
    /\ redis' = [redis EXCEPT !.keys = saver[s].keys]
    /\ touched' = touched \union {"keys"}
    /\ saver' = [saver EXCEPT ![s].at = "policies", ![s].keys = {}]
    /\ UNCHANGED <<runtime, task, rung, faults, astray, harmed>>

SetPolicies(s) ==
    /\ saver[s].at = "policies"
    /\ redis' = [redis EXCEPT !.policies = saver[s].policies]
    /\ touched' = touched \union {"policies"}
    /\ saver' = [saver EXCEPT ![s].at = "incr", ![s].policies = Default]
    /\ UNCHANGED <<runtime, task, rung, faults, astray, harmed>>

Incr(s) ==
    /\ saver[s].at = "incr"
    /\ redis' = [redis EXCEPT !.version = @ + 1]
    /\ touched' = {}
    /\ saver' = [saver EXCEPT ![s] =
                    [Attempt(saver[s].by, saver[s].awaited, saver[s].tries) EXCEPT !.at = "publish"]]
    /\ UNCHANGED <<runtime, task, rung, faults, astray, harmed>>

\* Redis hands the message to the gateways that are subscribed; one that is
\* reconnecting does not get it.
Publish(s) ==
    /\ saver[s].at = "publish"
    /\ \E lost \in SUBSET Gateways :
          /\ rung' = [g \in Gateways |->
                         rung[g] \/ (g \notin lost /\ task[g]["sub"].at # "off")]
          /\ IF lost = {} THEN UNCHANGED <<faults, harmed>>
                          ELSE Fault /\ harmed' = TRUE
    /\ saver' = [saver EXCEPT ![s] = NoSave]
    /\ UNCHANGED <<redis, runtime, task, touched, astray>>

\* Variant: the first error is the last attempt.
SaveFailsOnce(s) ==
    /\ saver[s].at \in {"keys", "policies", "incr", "publish"}
    /\ Fault
    /\ saver' = [saver EXCEPT ![s] = NoSave]
    /\ UNCHANGED <<redis, runtime, task, rung, touched, astray, harmed>>

SaveFails(s) ==
    /\ saver[s].at \in {"keys", "policies", "incr", "publish"}
    /\ Fault
    /\ IF saver[s].tries < PERSIST_MAX_ATTEMPTS
       THEN /\ saver' = [saver EXCEPT ![s] =
                            Attempt(saver[s].by, saver[s].awaited, saver[s].tries + 1)]
            /\ UNCHANGED harmed
       ELSE saver' = [saver EXCEPT ![s] = NoSave] /\ harmed' = TRUE
    /\ UNCHANGED <<redis, runtime, task, rung, touched, astray>>

(***************************************************************************)
(* refresh_from_store.  The first read of the version decides whether to   *)
(* load; load_all reads it again, before the fields, and that is the value *)
(* recorded when the snapshot has been applied.                            *)
(***************************************************************************)
Poll(g) ==
    /\ task[g]["poll"].at = "idle"
    /\ redis.version # task[g]["poll"].last
    /\ task' = [task EXCEPT ![g]["poll"].at = "version"]
    /\ UNCHANGED <<redis, runtime, saver, rung, faults, touched, astray, harmed>>

Receive(g) ==
    /\ task[g]["sub"].at = "idle"
    /\ rung[g]
    /\ rung' = [rung EXCEPT ![g] = FALSE]
    /\ task' = IF redis.version = task[g]["sub"].last THEN task
               ELSE [task EXCEPT ![g]["sub"].at = "version"]
    /\ UNCHANGED <<redis, runtime, saver, faults, touched, astray, harmed>>

\* Variant: the version is read from the key of another field.
LoadVersionField(g, t) ==
    /\ task[g][t].at = "version"
    /\ task' = [task EXCEPT ![g][t].at = "keys", ![g][t].ver = redis.policies]
    /\ UNCHANGED <<redis, runtime, saver, rung, faults, touched, astray, harmed>>

LoadVersion(g, t) ==
    /\ task[g][t].at = "version"
    /\ task' = [task EXCEPT ![g][t].at = "keys", ![g][t].ver = redis.version]
    /\ UNCHANGED <<redis, runtime, saver, rung, faults, touched, astray, harmed>>

LoadKeys(g, t) ==
    /\ task[g][t].at = "keys"
    /\ task' = [task EXCEPT ![g][t].at = "policies", ![g][t].keys = redis.keys]
    /\ UNCHANGED <<redis, runtime, saver, rung, faults, touched, astray, harmed>>

\* main() does not apply a snapshot without keys; a refresher does.
LoadPolicies(g, t) ==
    /\ task[g][t].at = "policies"
    /\ IF t = "boot" /\ task[g][t].keys = {}
       THEN /\ task' = [task EXCEPT ![g][t].at = "up"]
            /\ astray' = [astray EXCEPT ![g] = Fields]
       ELSE /\ task' = [task EXCEPT ![g][t].at = "clear", ![g][t].policies = redis.policies]
            /\ UNCHANGED astray
    /\ UNCHANGED <<redis, runtime, saver, rung, faults, touched, harmed>>

\* An error of a refresher's read: it returns, its last_version as it was.
\* The message that woke a subscriber is gone, the timer ticks again.
LoadFails(g, t) ==
    /\ t \in Refreshers
    /\ task[g][t].at \in {"version", "keys", "policies"}
    /\ Fault
    /\ task' = [task EXCEPT ![g][t] = Idle(task[g][t].last)]
    /\ harmed' = (harmed \/ t = "sub")
    /\ UNCHANGED <<redis, runtime, saver, rung, touched, astray>>

(***************************************************************************)
(* apply_snapshot_to_runtime: the keys are cleared, then inserted one by   *)
(* one while requests and persist tasks look at them; the policies come    *)
(* last.                                                                   *)
(***************************************************************************)
Clear(g, t) ==
    /\ task[g][t].at = "clear"
    /\ runtime' = [runtime EXCEPT ![g].keys = {}]
    /\ astray' = [astray EXCEPT ![g] = @ \ {"keys"}]
    /\ task' = [task EXCEPT ![g][t].at = "insert"]
    /\ UNCHANGED <<redis, saver, rung, faults, touched, harmed>>

Insert(g, t) ==
    /\ task[g][t].at = "insert"
    /\ \E k \in task[g][t].keys :
          /\ runtime' = [runtime EXCEPT ![g].keys = @ \union {k}]
          /\ task' = [task EXCEPT ![g][t].keys = @ \ {k}]
    /\ UNCHANGED <<redis, saver, rung, faults, touched, astray, harmed>>

\* Variant: the version of this moment is recorded, not the one loaded.
FinishNow(g, t) ==
    /\ task[g][t].at = "insert" /\ task[g][t].keys = {}
    /\ runtime' = [runtime EXCEPT ![g].policies = task[g][t].policies]
    /\ astray' = [astray EXCEPT ![g] = @ \ {"policies"}]
    /\ task' = [task EXCEPT ![g][t] =
                   IF t = "boot" THEN [Off EXCEPT !.at = "up", !.ver = task[g][t].ver]
                                 ELSE Idle(redis.version)]
    /\ UNCHANGED <<redis, saver, rung, faults, touched, harmed>>

Finish(g, t) ==
    /\ task[g][t].at = "insert" /\ task[g][t].keys = {}
    /\ runtime' = [runtime EXCEPT ![g].policies = task[g][t].policies]
    /\ astray' = [astray EXCEPT ![g] = @ \ {"policies"}]
    /\ task' = [task EXCEPT ![g][t] =
                   IF t = "boot" THEN [Off EXCEPT !.at = "up", !.ver = task[g][t].ver]
                                 ELSE Idle(task[g][t].ver)]
    /\ UNCHANGED <<redis, saver, rung, faults, touched, harmed>>

\* A profile or a backend of the snapshot that is refused ends the apply
\* between the keys and the policies; last_version stays as it was.
ApplyFails(g, t) ==
    /\ t \in Refreshers
    /\ task[g][t].at = "insert" /\ task[g][t].keys = {}
    /\ Fault
    /\ task' = [task EXCEPT ![g][t] = Idle(task[g][t].last)]
    /\ harmed' = (harmed \/ t = "sub")
    /\ UNCHANGED <<redis, runtime, saver, rung, touched, astray>>

(***************************************************************************)
(* A crash ends the gateway's tasks where they are.  The new process loads *)
(* the store if it holds client keys, then spawns the refreshers, each of  *)
(* which takes the version of that moment for loaded.                      *)
(***************************************************************************)
Crash(g) ==
    /\ Fault
    /\ harmed' = TRUE
    /\ runtime' = [runtime EXCEPT ![g] = [keys |-> {}, policies |-> Default]]
    /\ task' = [task EXCEPT ![g] = [t \in Tasks |->
                                       IF t = "boot" THEN [Off EXCEPT !.at = "start"] ELSE Off]]
    /\ saver' = [s \in Savers |-> IF saver[s].by = g THEN NoSave ELSE saver[s]]
    /\ rung' = [rung EXCEPT ![g] = FALSE]
    /\ astray' = [astray EXCEPT ![g] = Fields]
    /\ UNCHANGED <<redis, touched>>

Boot(g) ==
    /\ task[g]["boot"].at = "start"
    /\ task' = [task EXCEPT ![g]["boot"].at = IF redis.keys = {} THEN "up" ELSE "version"]
    /\ UNCHANGED <<redis, runtime, saver, rung, faults, touched, astray, harmed>>

StartRefresher(g, t) ==
    /\ t \in Refreshers
    /\ task[g]["boot"].at = "up" /\ task[g][t].at = "off"
    /\ task' = [task EXCEPT ![g][t] = Idle(redis.version)]
    /\ astray' = IF redis.version = task[g]["boot"].ver THEN astray
                 ELSE [astray EXCEPT ![g] = Fields]
    /\ UNCHANGED <<redis, runtime, saver, rung, faults, touched, harmed>>

\* The read of that version failed: unwrap_or(0), and the refresher will load
\* once more what the start-up load has loaded.
StartUnread(g, t) ==
    /\ t \in Refreshers
    /\ task[g]["boot"].at = "up" /\ task[g][t].at = "off"
    /\ task' = [task EXCEPT ![g][t] = Idle(0), ![g]["boot"].ver = 0]
    /\ UNCHANGED <<redis, runtime, saver, rung, faults, touched, astray, harmed>>

Manage(g) ==
    \/ \E k \in Keys : CreateKey(g, k) \/ RevokeKey(g, k)
    \/ \E p \in Policies : PutPolicies(g, p) \/ DeletePolicy(g, p)

Save(s) ==
    \/ Build(s) \/ BuildPolicies(s) \/ SetKeys(s)
    \/ SetPolicies(s) \/ Incr(s) \/ Publish(s)

Refresh(g, t) ==
    \/ LoadVersion(g, t) \/ LoadKeys(g, t) \/ LoadPolicies(g, t)
    \/ Clear(g, t) \/ Insert(g, t) \/ Finish(g, t)
    \/ StartRefresher(g, t) \/ StartUnread(g, t)

Next ==
    \/ \E g \in Gateways :
          \/ Manage(g) \/ Poll(g) \/ Receive(g) \/ Crash(g) \/ Boot(g)
          \/ \E t \in Tasks : Refresh(g, t) \/ LoadFails(g, t) \/ ApplyFails(g, t)
    \/ \E s \in Savers : Save(s) \/ SaveFails(s) \/ ClientGone(s)

\* Spawned tasks, and the handlers of clients that stay, are run by their
\* runtime; the timer of the poller ticks for ever.  Management calls, hang-ups
\* and faults are nobody's duty.
Fairness ==
    /\ \A g \in Gateways :
          /\ WF_vars(Poll(g)) /\ WF_vars(Receive(g)) /\ WF_vars(Boot(g))
          /\ \A t \in Tasks : WF_vars(Refresh(g, t))
    /\ \A s \in Savers : WF_vars(Save(s))

Spec == Init /\ [][Next]_vars
FairSpec == Spec /\ Fairness
(***************************************************************************)
(* Properties.                                                             *)
(***************************************************************************)
Current(g) == \A t \in Refreshers : task[g][t].at # "off" /\ task[g][t].last = redis.version

\* A gateway both of whose refreshers have recorded the store's version
\* (sync.rs) serves by what the store holds: no mixture of two saves, and
\* nothing older, however the GETs of a load fell between the SETs of the
\* saves and whichever refresher applied last.  Excepted are the fields a
\* save has written without having counted the version up, and those the
\* gateway has changed itself since it loaded them.
Refreshed ==
    \A g \in Gateways : Current(g) =>
        \A f \in Fields \ (touched \union astray[g]) : runtime[g][f] = redis[f]

\* When the management calls end, every gateway comes to serve by what the
\* store holds and stays there, although the saves and the poller meet Redis
\* errors; unless a message did not reach a subscriber or was used up by one
\* whose read failed, a gateway crashed, or a save was given up, after three
\* errors or because its client hung up (management.rs).
Converges ==
    \/ <>harmed
    \/ <>[](\A g \in Gateways : \A f \in Fields : runtime[g][f] = redis[f])

\* The poller makes up for the messages the subscriber misses.
PollMakesUp ==
    <>[](\A g \in Gateways : \A f \in Fields : runtime[g][f] = redis[f])

\* A key nobody revokes stays in the store: with no call but PutPolicies,
\* a save writes the keys it was given.
KeysKept == redis.keys = Keys
=============================================================================
