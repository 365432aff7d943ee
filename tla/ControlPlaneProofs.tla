------------------------- MODULE ControlPlaneProofs -------------------------
(***************************************************************************)
(* A gateway whose refreshers have both recorded the store's version       *)
(* serves by what the store holds, for any number of gateways and of       *)
(* persist tasks.                                                          *)
(***************************************************************************)
EXTENDS ControlPlane, TLAPS

TaskRecord == [at : Stages, last : Nat, ver : Nat, keys : SUBSET Keys, policies : Policies]
SaverRecord == [at : Phases, by : Gateways, awaited : BOOLEAN,
                tries : 0 .. PERSIST_MAX_ATTEMPTS,
                keys : SUBSET Keys, policies : Policies]

Busy == {"version", "keys", "policies", "clear", "insert"}

\* What a task may be doing, and where it holds no keys.
Roles(g) ==
    /\ \A t \in Refreshers : task[g][t].at \notin {"start", "up"}
    /\ task[g]["boot"].at # "up" => \A t \in Refreshers : task[g][t].at = "off"
    /\ task[g]["boot"].at = "start" => task[g]["boot"].ver = 0
    /\ \A t \in Tasks : task[g][t].at \notin {"policies", "clear", "insert"} => task[g][t].keys = {}

\* No task knows of a version that has not been counted, and a refresher at
\* work has not recorded the present one.
Versions(g) ==
    /\ \A t \in Tasks : task[g][t].last <= redis.version /\ task[g][t].ver <= redis.version
    /\ \A t \in Refreshers : task[g][t].at \in Busy => task[g][t].last < redis.version

\* What a task has read under the present version is what the store holds,
\* but for fields that a save has written since.
Loads(g) ==
    \A t \in Tasks : task[g][t].ver = redis.version =>
        /\ "keys" \notin touched =>
              /\ task[g][t].at \in {"policies", "clear"} => task[g][t].keys = redis.keys
              /\ task[g][t].at = "insert" => task[g][t].keys \subseteq redis.keys
        /\ ("policies" \notin touched /\ task[g][t].at \in {"clear", "insert"}) =>
              task[g][t].policies = redis.policies

\* The start-up load is the last load of the gateway.
BootIsLast(g) == task[g]["boot"].at = "up" /\ task[g]["boot"].ver = redis.version

BootAlone(g) ==
    BootIsLast(g) => \A t \in Refreshers :
        task[g][t].at = "off" \/ (task[g][t].at = "idle" /\ task[g][t].last = redis.version)

\* Both refreshers have applied the present version or are at it, or the
\* start-up load is.
Settled(g) ==
    \/ \A t \in Refreshers : \/ task[g][t].at = "idle" /\ task[g][t].last = redis.version
                             \/ task[g][t].at = "insert" /\ task[g][t].ver = redis.version
    \/ task[g]["boot"].at \in {"insert", "up"} /\ task[g]["boot"].ver = redis.version

\* Then the keys in the table and those still to be inserted are the store's.
KeysMeet(g) ==
    Settled(g) /\ "keys" \notin touched \union astray[g] =>
        \A k \in Keys : k \in redis.keys <=>
            (k \in runtime[g].keys \/ \E t \in Tasks : k \in task[g][t].keys)

PoliciesMeet(g) ==
    (Current(g) \/ BootIsLast(g)) /\ "policies" \notin touched \union astray[g] =>
        runtime[g].policies = redis.policies

Sound(g) == Roles(g) /\ Versions(g) /\ Loads(g) /\ BootAlone(g) /\ KeysMeet(g) /\ PoliciesMeet(g)

ControlInv == ControlTypeOK /\ redis.version # 0 /\ \A g \in Gateways : Sound(g)

(***************************************************************************)
(* Facts about the records, and about a step that moves one task.          *)
(***************************************************************************)
LEMMA TypesOfControl ==
    ControlTypeOK <=>
        /\ redis \in [version : Nat, keys : SUBSET Keys, policies : Policies]
        /\ runtime \in [Gateways -> [keys : SUBSET Keys, policies : Policies]]
        /\ task \in [Gateways -> [Tasks -> TaskRecord]]
        /\ saver \in [Savers -> SaverRecord]
        /\ rung \in [Gateways -> BOOLEAN]
        /\ faults \in 0 .. MaxFaults
        /\ touched \in SUBSET Fields
        /\ astray \in [Gateways -> SUBSET Fields]
        /\ harmed \in BOOLEAN
  BY DEF ControlTypeOK, TaskRecord, SaverRecord

LEMMA OffFacts ==
    /\ Off \in TaskRecord /\ Off.at = "off" /\ Off.last = 0 /\ Off.ver = 0 /\ Off.keys = {}
    /\ \A v \in Nat : /\ Idle(v) \in TaskRecord /\ Idle(v).at = "idle" /\ Idle(v).last = v
                      /\ Idle(v).ver = 0 /\ Idle(v).keys = {}
    /\ NoSave \in SaverRecord /\ NoSave.at = "none"
  <1>1. /\ Off \in TaskRecord /\ Off.at = "off" /\ Off.last = 0 /\ Off.ver = 0 /\ Off.keys = {}
    BY ControlAssumption DEF Off, TaskRecord, Stages
  <1>2. ASSUME NEW v \in Nat
        PROVE  /\ Idle(v) \in TaskRecord /\ Idle(v).at = "idle" /\ Idle(v).last = v
               /\ Idle(v).ver = 0 /\ Idle(v).keys = {}
    BY <1>1 DEF Idle, TaskRecord, Stages
  <1>3. (CHOOSE g \in Gateways : TRUE) \in Gateways
    BY ControlAssumption
  <1>4. NoSave \in SaverRecord /\ NoSave.at = "none"
    BY <1>3, ControlAssumption DEF NoSave, SaverRecord, Phases, PERSIST_MAX_ATTEMPTS
  <1> QED BY <1>1, <1>2, <1>4

\* A save at the start of an attempt, or after the INCR.
LEMMA Attempted ==
    ASSUME NEW g \in Gateways, NEW w \in BOOLEAN, NEW n \in 0 .. PERSIST_MAX_ATTEMPTS
    PROVE  /\ Attempt(g, w, n) \in SaverRecord
           /\ [Attempt(g, w, n) EXCEPT !.at = "publish"] \in SaverRecord
  <1>1. Attempt(g, w, n) \in SaverRecord
    BY OffFacts DEF SaverRecord, Attempt, Phases
  <1> QED BY <1>1 DEF SaverRecord, Phases

LEMMA MovedTask ==
    ASSUME task \in [Gateways -> [Tasks -> TaskRecord]], NEW g \in Gateways, NEW t \in Tasks,
           NEW j \in TaskRecord, task' = [task EXCEPT ![g][t] = j]
    PROVE  /\ task' \in [Gateways -> [Tasks -> TaskRecord]]
           /\ task'[g][t] = j
           /\ \A u \in Tasks : u # t => task'[g][u] = task[g][u]
           /\ \A h \in Gateways : h # g => task'[h] = task[h]
  OBVIOUS

\* A gateway that a step does not touch.
LEMMA OtherGateway ==
    ASSUME NEW g \in Gateways, Sound(g), UNCHANGED <<redis, touched>>,
           task'[g] = task[g], runtime'[g] = runtime[g], astray'[g] = astray[g]
    PROVE  Sound(g)'
  BY DEF Sound, Roles, Versions, Loads, BootAlone, BootIsLast, KeysMeet, PoliciesMeet, Settled, Current

\* A step that moves no task: the fields it changes go astray.
LEMMA NoTaskMoves ==
    ASSUME NEW g \in Gateways, Sound(g), UNCHANGED <<redis, touched, task>>,
           astray[g] \subseteq astray'[g],
           "keys" \in astray'[g] \/ runtime'[g].keys = runtime[g].keys,
           "policies" \in astray'[g] \/ runtime'[g].policies = runtime[g].policies
    PROVE  Sound(g)'
  <1>1. Roles(g)' /\ Versions(g)' /\ Loads(g)' /\ BootAlone(g)'
    BY DEF Sound, Roles, Versions, Loads, BootAlone, BootIsLast
  <1>2. KeysMeet(g)'
    BY DEF Sound, KeysMeet, Settled
  <1>3. PoliciesMeet(g)'
    BY DEF Sound, PoliciesMeet, Current, BootIsLast
  <1> QED BY <1>1, <1>2, <1>3 DEF Sound

\* A step of one gateway.
LEMMA OneGateway ==
    ASSUME ControlInv, NEW g \in Gateways, UNCHANGED <<redis, touched>>, ControlTypeOK', Sound(g)',
           \A h \in Gateways : h # g => /\ task'[h] = task[h] /\ runtime'[h] = runtime[h]
                                        /\ astray'[h] = astray[h]
    PROVE  ControlInv'
  BY OtherGateway DEF ControlInv

(***************************************************************************)
(* Management calls and persist tasks.                                     *)
(***************************************************************************)
LEMMA ChangeStep ==
    ASSUME ControlInv, NEW g \in Gateways, NEW f \in Fields, NEW value, NEW w \in BOOLEAN,
           Change(g, f, value, w),
           f = "keys" => value \in SUBSET Keys, f = "policies" => value \in Policies
    PROVE  ControlInv'
  <1>1. ControlTypeOK
    BY DEF ControlInv
  <1>2. /\ runtime' \in [Gateways -> [keys : SUBSET Keys, policies : Policies]]
        /\ \A h \in Gateways : h # g => runtime'[h] = runtime[h]
        /\ f = "keys" => runtime'[g].policies = runtime[g].policies
        /\ f = "policies" => runtime'[g].keys = runtime[g].keys
    BY <1>1, TypesOfControl DEF Change, Fields
  <1>3. /\ astray' \in [Gateways -> SUBSET Fields] /\ astray[g] \subseteq astray'[g] /\ f \in astray'[g]
        /\ \A h \in Gateways : h # g => astray'[h] = astray[h]
    BY <1>1, TypesOfControl DEF Change
  <1>4. saver' \in [Savers -> SaverRecord]
    <2>1. PICK s \in Free : saver' = [saver EXCEPT ![s] = Attempt(g, w, 1)]
      BY DEF Change
    <2>2. Attempt(g, w, 1) \in SaverRecord
      <3>1. 1 \in 0 .. PERSIST_MAX_ATTEMPTS
        BY DEF PERSIST_MAX_ATTEMPTS
      <3> QED BY <3>1, Attempted
    <2> QED BY <1>1, <2>1, <2>2, TypesOfControl
  <1>5. ControlTypeOK'
    BY <1>1, <1>2, <1>3, <1>4, TypesOfControl DEF Change, ControlTypeOK, SaverRecord
  <1>6. Sound(g)'
    BY <1>2, <1>3, NoTaskMoves DEF ControlInv, Change, Fields
  <1> QED BY <1>2, <1>3, <1>5, <1>6, OneGateway DEF Change

LEMMA ManageStep ==
    ASSUME ControlInv, NEW g \in Gateways, Manage(g)
    PROVE  ControlInv'
  <1>1. runtime[g].keys \in SUBSET Keys
    BY TypesOfControl DEF ControlInv
  <1>2. ASSUME NEW k \in Keys, CreateKey(g, k) PROVE ControlInv'
    BY <1>1, <1>2, ChangeStep DEF CreateKey, Fields
  <1>3. ASSUME NEW k \in Keys, RevokeKey(g, k) PROVE ControlInv'
    BY <1>1, <1>3, ChangeStep DEF RevokeKey, Fields
  <1>4. ASSUME NEW p \in Policies, PutPolicies(g, p) \/ DeletePolicy(g, p) PROVE ControlInv'
    BY <1>4, ChangeStep DEF PutPolicies, DeletePolicy, Fields
  <1> QED BY <1>2, <1>3, <1>4 DEF Manage

\* A step of a persist task that leaves the store alone.
LEMMA SaverMoves ==
    ASSUME ControlInv, UNCHANGED <<redis, runtime, task, touched, astray>>,
           saver' \in [Savers -> SaverRecord], rung' \in [Gateways -> BOOLEAN],
           faults' \in 0 .. MaxFaults, harmed' \in BOOLEAN
    PROVE  ControlInv'
  <1>1. ControlTypeOK'
    BY TypesOfControl DEF ControlInv, ControlTypeOK, SaverRecord
  <1> QED BY <1>1, OtherGateway DEF ControlInv

LEMMA BuildStep ==
    ASSUME ControlInv, NEW s \in Savers, Build(s) \/ BuildPolicies(s)
    PROVE  ControlInv'
  <1>1. /\ saver \in [Savers -> SaverRecord] /\ saver[s].by \in Gateways
        /\ runtime[saver[s].by].keys \in SUBSET Keys /\ runtime[saver[s].by].policies \in Policies
        /\ rung \in [Gateways -> BOOLEAN] /\ faults \in 0 .. MaxFaults /\ harmed \in BOOLEAN
    BY TypesOfControl DEF ControlInv, SaverRecord
  <1>2. saver' \in [Savers -> SaverRecord]
    <2>1. /\ [saver[s] EXCEPT !.at = "read", !.keys = runtime[saver[s].by].keys] \in SaverRecord
          /\ [saver[s] EXCEPT !.at = "keys", !.policies = runtime[saver[s].by].policies]
                \in SaverRecord
      BY <1>1 DEF SaverRecord, Phases
    <2>2. \/ saver' = [saver EXCEPT ![s] = [saver[s] EXCEPT !.at = "read",
                                               !.keys = runtime[saver[s].by].keys]]
          \/ saver' = [saver EXCEPT ![s] = [saver[s] EXCEPT !.at = "keys",
                                               !.policies = runtime[saver[s].by].policies]]
      BY <1>1 DEF Build, BuildPolicies
    <2> QED BY <1>1, <2>1, <2>2
  <1> QED BY <1>1, <1>2, SaverMoves DEF Build, BuildPolicies

LEMMA PublishStep ==
    ASSUME ControlInv, NEW s \in Savers, Publish(s)
    PROVE  ControlInv'
  <1>1. /\ saver \in [Savers -> SaverRecord]
        /\ rung \in [Gateways -> BOOLEAN] /\ faults \in 0 .. MaxFaults /\ harmed \in BOOLEAN
    BY TypesOfControl DEF ControlInv
  <1>2. saver' \in [Savers -> SaverRecord]
    BY <1>1, OffFacts DEF Publish
  <1>3. rung' \in [Gateways -> BOOLEAN]
    BY <1>1 DEF Publish
  <1>4. faults' \in 0 .. MaxFaults
    BY <1>1, ControlAssumption DEF Publish, Fault
  <1>5. harmed' \in BOOLEAN
    BY <1>1, Zenon DEF Publish
  <1> QED BY <1>2, <1>3, <1>4, <1>5, SaverMoves DEF Publish

LEMMA SaveFailsStep ==
    ASSUME ControlInv, NEW s \in Savers, SaveFails(s)
    PROVE  ControlInv'
  <1>1. /\ saver \in [Savers -> SaverRecord] /\ saver[s] \in SaverRecord
        /\ rung \in [Gateways -> BOOLEAN] /\ faults \in 0 .. MaxFaults /\ harmed \in BOOLEAN
    BY TypesOfControl DEF ControlInv
  <1>2. saver' \in [Savers -> SaverRecord]
    <2>1. CASE saver[s].tries < PERSIST_MAX_ATTEMPTS
      <3>1. Attempt(saver[s].by, saver[s].awaited, saver[s].tries + 1) \in SaverRecord
        <4>1. saver[s].tries + 1 \in 0 .. PERSIST_MAX_ATTEMPTS /\ saver[s].by \in Gateways
          BY <1>1, <2>1 DEF SaverRecord, PERSIST_MAX_ATTEMPTS
        <4>2. saver[s].awaited \in BOOLEAN
          BY <1>1 DEF SaverRecord
        <4> QED BY <4>1, <4>2, Attempted
      <3> QED BY <1>1, <2>1, <3>1 DEF SaveFails
    <2>2. CASE ~(saver[s].tries < PERSIST_MAX_ATTEMPTS)
      BY <1>1, <2>2, OffFacts DEF SaveFails
    <2> QED BY <2>1, <2>2
  <1>3. faults' \in 0 .. MaxFaults
    BY <1>1, ControlAssumption DEF SaveFails, Fault
  <1>4. harmed' \in BOOLEAN
    BY <1>1, Zenon DEF SaveFails
  <1> QED BY <1>1, <1>2, <1>3, <1>4, SaverMoves DEF SaveFails

LEMMA ClientGoneStep ==
    ASSUME ControlInv, NEW s \in Savers, ClientGone(s)
    PROVE  ControlInv'
  <1>1. /\ saver \in [Savers -> SaverRecord]
        /\ rung \in [Gateways -> BOOLEAN] /\ faults \in 0 .. MaxFaults
    BY TypesOfControl DEF ControlInv
  <1>2. saver' \in [Savers -> SaverRecord]
    BY <1>1, OffFacts DEF ClientGone
  <1>3. faults' \in 0 .. MaxFaults
    BY <1>1, ControlAssumption DEF ClientGone, Fault
  <1> QED BY <1>1, <1>2, <1>3, SaverMoves DEF ClientGone

\* A SET of a field: it counts as touched.
LEMMA SetStep ==
    ASSUME ControlInv, NEW s \in Savers, SetKeys(s) \/ SetPolicies(s)
    PROVE  ControlInv'
  <1>1. /\ saver \in [Savers -> SaverRecord] /\ saver[s] \in SaverRecord
        /\ redis \in [version : Nat, keys : SUBSET Keys, policies : Policies]
        /\ touched \in SUBSET Fields
    BY TypesOfControl DEF ControlInv
  <1>2. /\ redis' \in [version : Nat, keys : SUBSET Keys, policies : Policies]
        /\ redis'.version = redis.version
        /\ touched \subseteq touched' /\ touched' \in SUBSET Fields
        /\ "keys" \in touched' \/ redis'.keys = redis.keys
        /\ "policies" \in touched' \/ redis'.policies = redis.policies
    BY <1>1 DEF SetKeys, SetPolicies, SaverRecord, Fields
  <1>3. saver' \in [Savers -> SaverRecord]
    BY <1>1, ControlAssumption DEF SetKeys, SetPolicies, SaverRecord, Phases
  <1>4. UNCHANGED <<runtime, task, rung, faults, astray, harmed>>
    BY DEF SetKeys, SetPolicies
  <1>5. ControlTypeOK'
    BY <1>2, <1>3, <1>4, TypesOfControl DEF ControlInv, ControlTypeOK, SaverRecord
  <1>6. ASSUME NEW g \in Gateways PROVE Sound(g)'
    <2>1. Roles(g)' /\ Versions(g)' /\ BootAlone(g)'
      BY <1>2, <1>4 DEF ControlInv, Sound, Roles, Versions, BootAlone, BootIsLast
    <2>2. Loads(g)'
      BY <1>2, <1>4 DEF ControlInv, Sound, Loads
    <2>3. KeysMeet(g)'
      BY <1>2, <1>4 DEF ControlInv, Sound, KeysMeet, Settled
    <2>4. PoliciesMeet(g)'
      BY <1>2, <1>4 DEF ControlInv, Sound, PoliciesMeet, Current, BootIsLast
    <2> QED BY <2>1, <2>2, <2>3, <2>4 DEF Sound
  <1> QED BY <1>2, <1>5, <1>6 DEF ControlInv

\* A version is counted: nobody has it.
LEMMA IncrStep ==
    ASSUME ControlInv, NEW s \in Savers, Incr(s)
    PROVE  ControlInv'
  <1>1. /\ saver \in [Savers -> SaverRecord] /\ saver[s] \in SaverRecord
        /\ redis \in [version : Nat, keys : SUBSET Keys, policies : Policies]
        /\ task \in [Gateways -> [Tasks -> TaskRecord]]
    BY TypesOfControl DEF ControlInv
  <1>2. /\ redis' \in [version : Nat, keys : SUBSET Keys, policies : Policies]
        /\ redis'.version = redis.version + 1 /\ redis.version \in Nat
    BY <1>1 DEF Incr
  <1>3. saver' \in [Savers -> SaverRecord]
    <2>1. saver[s].by \in Gateways /\ saver[s].tries \in 0 .. PERSIST_MAX_ATTEMPTS
      BY <1>1 DEF SaverRecord
    <2>2. saver[s].awaited \in BOOLEAN
      BY <1>1 DEF SaverRecord
    <2>3. [Attempt(saver[s].by, saver[s].awaited, saver[s].tries) EXCEPT !.at = "publish"]
             \in SaverRecord
      BY <2>1, <2>2, Attempted
    <2> QED BY <1>1, <2>3 DEF Incr
  <1>4. UNCHANGED <<runtime, task, rung, faults, astray, harmed>> /\ touched' = {}
    BY DEF Incr
  <1>5. ControlTypeOK'
    BY <1>2, <1>3, <1>4, TypesOfControl DEF ControlInv, ControlTypeOK, SaverRecord
  <1>6. ASSUME NEW g \in Gateways PROVE Sound(g)'
    <2>1. \A t \in Tasks : /\ task[g][t].last \in Nat /\ task[g][t].ver \in Nat
                           /\ task[g][t].last # redis'.version /\ task[g][t].ver # redis'.version
      BY <1>1, <1>2 DEF TaskRecord, ControlInv, Sound, Versions
    <2>2. Roles(g)'
      BY <1>4 DEF ControlInv, Sound, Roles
    <2>3. Versions(g)'
      BY <1>2, <1>4, <2>1 DEF ControlInv, Sound, Versions, Tasks
    <2>4. Loads(g)' /\ BootAlone(g)' /\ KeysMeet(g)' /\ PoliciesMeet(g)'
      BY <1>4, <2>1 DEF Loads, BootAlone, BootIsLast, KeysMeet, Settled, PoliciesMeet, Current,
         Tasks, Refreshers
    <2> QED BY <2>2, <2>3, <2>4 DEF Sound
  <1> QED BY <1>2, <1>5, <1>6 DEF ControlInv

(***************************************************************************)
(* The refreshers and the start-up load.                                   *)
(***************************************************************************)
\* What a task's record has to be, for the gateway's tasks to stay in order.
GoodTask(t, j) ==
    /\ t \in Refreshers => j.at \notin {"start", "up"} /\ (j.at \in Busy => j.last < redis.version)
    /\ t = "boot" => (j.at = "start" => j.ver = 0)
    /\ j.at \notin {"policies", "clear", "insert"} => j.keys = {}
    /\ j.last <= redis.version /\ j.ver <= redis.version
    /\ j.ver = redis.version =>
        /\ "keys" \notin touched =>
              /\ j.at \in {"policies", "clear"} => j.keys = redis.keys
              /\ j.at = "insert" => j.keys \subseteq redis.keys
        /\ ("policies" \notin touched /\ j.at \in {"clear", "insert"}) => j.policies = redis.policies

LEMMA TaskInOrder ==
    ASSUME ControlInv, NEW g \in Gateways, NEW t \in Tasks
    PROVE  GoodTask(t, task[g][t])
  BY DEF ControlInv, Sound, Roles, Versions, Loads, GoodTask, Tasks

\* A step of one task with such a record.
LEMMA TasksInOrder ==
    ASSUME ControlInv, NEW g \in Gateways, NEW t \in Tasks, NEW j \in TaskRecord,
           task' = [task EXCEPT ![g][t] = j], UNCHANGED <<redis, touched>>, GoodTask(t, j),
           t = "boot" => (task[g]["boot"].at = "up" => j.at = "up"),
           t \in Refreshers => (j.at = "off" \/ task[g]["boot"].at = "up")
    PROVE  Roles(g)' /\ Versions(g)' /\ Loads(g)'
  <1>1. task'[g][t] = j /\ \A u \in Tasks : u # t => task'[g][u] = task[g][u]
    BY MovedTask, TypesOfControl DEF ControlInv
  <1>2. \A u \in Tasks : GoodTask(u, task'[g][u])
    BY <1>1, TaskInOrder
  <1>3. task'[g]["boot"].at # "up" => \A u \in Refreshers : task'[g][u].at = "off"
    BY <1>1 DEF ControlInv, Sound, Roles, Tasks, Refreshers
  <1>4. Roles(g)'
    BY <1>2, <1>3 DEF Roles, GoodTask, Tasks
  <1>5. Versions(g)'
    BY <1>2 DEF Versions, GoodTask, Tasks
  <1>6. Loads(g)'
    BY <1>2 DEF Loads, GoodTask
  <1> QED BY <1>4, <1>5, <1>6

\* A task at work that has not come to the clear of the keys: nothing is
\* promised of the gateway.
Working(t, j) ==
    \/ t \in Refreshers /\ (j.at \in Busy \/ (j.at = "idle" /\ j.last # redis.version))
    \/ t = "boot" /\ j.at \in {"start", "version", "keys", "policies", "clear"}

LEMMA Unsettled ==
    ASSUME ControlInv, NEW g \in Gateways, NEW t \in Tasks, NEW j \in TaskRecord,
           task' = [task EXCEPT ![g][t] = j], UNCHANGED <<redis, touched>>,
           Working(t, task[g][t]), Working(t, j), j.at # "insert", GoodTask(t, j)
    PROVE  Sound(g)'
  <1>1. task'[g][t] = j /\ \A u \in Tasks : u # t => task'[g][u] = task[g][u]
    BY MovedTask, TypesOfControl DEF ControlInv
  <1>2. CASE t \in Refreshers
    <2>1. ~BootIsLast(g) /\ task[g]["boot"].at = "up"
      BY <1>2 DEF ControlInv, Sound, BootAlone, Roles, Working, Busy
    <2>2. task'[g]["boot"] = task[g]["boot"] /\ ~BootIsLast(g)'
      BY <1>1, <1>2, <2>1 DEF BootIsLast, Tasks, Refreshers
    <2>3. /\ ~(j.at = "idle" /\ j.last = redis.version)
          /\ ~(j.at # "off" /\ j.last = redis.version)
      <3>1. j.last \in Nat /\ redis.version \in Nat
        BY TypesOfControl DEF ControlInv, TaskRecord
      <3> QED BY <1>2, <3>1 DEF Working, Busy, GoodTask, Refreshers
    <2>5. ~Settled(g)' /\ ~Current(g)'
      BY <1>1, <1>2, <2>1, <2>2, <2>3 DEF Settled, Current, BootIsLast
    <2>4. Roles(g)' /\ Versions(g)' /\ Loads(g)'
      BY <1>2, <2>1, TasksInOrder DEF Refreshers
    <2> QED BY <2>2, <2>4, <2>5 DEF Sound, BootAlone, KeysMeet, PoliciesMeet
  <1>3. CASE t = "boot"
    <2>1. \A u \in Refreshers : task'[g][u].at = "off"
      BY <1>1, <1>3 DEF ControlInv, Sound, Roles, Working, Tasks, Refreshers
    <2>2. ~Settled(g)' /\ ~Current(g)' /\ ~BootIsLast(g)'
      BY <1>1, <1>3, <2>1 DEF Settled, Current, BootIsLast, Working, Refreshers
    <2>3. Roles(g)' /\ Versions(g)' /\ Loads(g)'
      BY <1>3, TasksInOrder DEF Refreshers, Working
    <2> QED BY <2>2, <2>3 DEF Sound, BootAlone, KeysMeet, PoliciesMeet
  <1> QED BY <1>2, <1>3 DEF Tasks

\* Such a step, as a step of the system.
LEMMA WorkStep ==
    ASSUME ControlInv, NEW g \in Gateways, NEW t \in Tasks, NEW j \in TaskRecord,
           task' = [task EXCEPT ![g][t] = j], UNCHANGED <<redis, touched, runtime, astray, saver>>,
           rung' \in [Gateways -> BOOLEAN], faults' \in 0 .. MaxFaults, harmed' \in BOOLEAN,
           Working(t, task[g][t]), Working(t, j), j.at # "insert", GoodTask(t, j)
    PROVE  ControlInv'
  <1>1. /\ task' \in [Gateways -> [Tasks -> TaskRecord]]
        /\ \A h \in Gateways : h # g => task'[h] = task[h]
    BY MovedTask, TypesOfControl DEF ControlInv
  <1>2. ControlTypeOK'
    BY <1>1, TypesOfControl DEF ControlInv, ControlTypeOK, TaskRecord
  <1> QED BY <1>1, <1>2, Unsettled, OneGateway

LEMMA TypesOfTask ==
    ASSUME ControlInv, NEW g \in Gateways, NEW t \in Tasks
    PROVE  /\ task \in [Gateways -> [Tasks -> TaskRecord]]
           /\ task[g][t] \in TaskRecord /\ task[g][t].last \in Nat /\ task[g][t].ver \in Nat
           /\ redis \in [version : Nat, keys : SUBSET Keys, policies : Policies]
           /\ redis.version \in Nat
           /\ rung \in [Gateways -> BOOLEAN] /\ faults \in 0 .. MaxFaults /\ harmed \in BOOLEAN
  BY TypesOfControl DEF ControlInv, TaskRecord

LEMMA PollStep ==
    ASSUME ControlInv, NEW g \in Gateways, Poll(g)
    PROVE  ControlInv'
  <1> DEFINE j == [task[g]["poll"] EXCEPT !.at = "version"]
  <1>1. "poll" \in Tasks /\ "poll" \in Refreshers
    BY DEF Tasks, Refreshers
  <1>2. task' = [task EXCEPT ![g]["poll"] = j]
    BY <1>1, TypesOfTask DEF Poll
  <1>3. /\ j \in TaskRecord /\ j.at = "version" /\ j.last = task[g]["poll"].last
        /\ j.ver = task[g]["poll"].ver /\ j.keys = task[g]["poll"].keys
    BY <1>1, TypesOfTask DEF TaskRecord, Stages
  <1> HIDE DEF j
  <1>4. Working("poll", task[g]["poll"]) /\ Working("poll", j)
    BY <1>1, <1>3 DEF Poll, Working, Busy
  <1>5. GoodTask("poll", j)
    <2>1. GoodTask("poll", task[g]["poll"]) /\ task[g]["poll"].last \in Nat /\ redis.version \in Nat
      BY <1>1, TaskInOrder, TypesOfTask
    <2>2. task[g]["poll"].last < redis.version /\ task[g]["poll"].keys = {}
      BY <2>1 DEF Poll, GoodTask
    <2> QED BY <1>3, <2>1, <2>2 DEF GoodTask
  <1> QED BY <1>1, <1>2, <1>3, <1>4, <1>5, WorkStep, TypesOfTask DEF Poll

LEMMA ReceiveStep ==
    ASSUME ControlInv, NEW g \in Gateways, Receive(g)
    PROVE  ControlInv'
  <1>1. "sub" \in Tasks /\ "sub" \in Refreshers
    BY DEF Tasks, Refreshers
  <1>2. rung' \in [Gateways -> BOOLEAN]
    BY <1>1, TypesOfTask DEF Receive
  <1>3. CASE redis.version = task[g]["sub"].last
    <2>1. ControlTypeOK'
      BY <1>2, <1>3, TypesOfControl DEF ControlInv, ControlTypeOK, Receive, TaskRecord
    <2> QED BY <1>3, <2>1, OtherGateway DEF ControlInv, Receive
  <1>4. CASE redis.version # task[g]["sub"].last
    <2> DEFINE j == [task[g]["sub"] EXCEPT !.at = "version"]
    <2>2. task' = [task EXCEPT ![g]["sub"] = j]
      BY <1>1, <1>4, TypesOfTask DEF Receive
    <2>3. /\ j \in TaskRecord /\ j.at = "version" /\ j.last = task[g]["sub"].last
          /\ j.ver = task[g]["sub"].ver /\ j.keys = task[g]["sub"].keys
      BY <1>1, TypesOfTask DEF TaskRecord, Stages
    <2> HIDE DEF j
    <2>4. Working("sub", task[g]["sub"]) /\ Working("sub", j)
      BY <1>1, <1>4, <2>3 DEF Receive, Working, Busy
    <2>5. GoodTask("sub", j)
      <3>1. GoodTask("sub", task[g]["sub"]) /\ task[g]["sub"].last \in Nat /\ redis.version \in Nat
        BY <1>1, TaskInOrder, TypesOfTask
      <3>2. task[g]["sub"].last < redis.version /\ task[g]["sub"].keys = {}
        BY <1>4, <3>1 DEF Receive, GoodTask
      <3> QED BY <2>3, <3>1, <3>2 DEF GoodTask
    <2> QED BY <1>1, <1>2, <2>2, <2>3, <2>4, <2>5, WorkStep, TypesOfTask DEF Receive
  <1> QED BY <1>3, <1>4

LEMMA LoadVersionStep ==
    ASSUME ControlInv, NEW g \in Gateways, NEW t \in Tasks, LoadVersion(g, t)
    PROVE  ControlInv'
  <1> DEFINE j == [task[g][t] EXCEPT !.at = "keys", !.ver = redis.version]
  <1>1. task' = [task EXCEPT ![g][t] = j]
    BY TypesOfTask DEF LoadVersion
  <1>2. /\ j \in TaskRecord /\ j.at = "keys" /\ j.last = task[g][t].last
        /\ j.ver = redis.version /\ j.keys = task[g][t].keys
    BY TypesOfTask DEF TaskRecord, Stages
  <1> HIDE DEF j
  <1>3. Working(t, task[g][t]) /\ Working(t, j)
    BY <1>2 DEF LoadVersion, Working, Busy, Tasks
  <1>4. GoodTask(t, j)
    <2>1. GoodTask(t, task[g][t]) /\ redis.version \in Nat
      BY TaskInOrder, TypesOfTask
    <2> QED BY <1>2, <2>1 DEF GoodTask, LoadVersion, Busy
  <1> QED BY <1>1, <1>2, <1>3, <1>4, WorkStep, TypesOfTask DEF LoadVersion

LEMMA LoadKeysStep ==
    ASSUME ControlInv, NEW g \in Gateways, NEW t \in Tasks, LoadKeys(g, t)
    PROVE  ControlInv'
  <1> DEFINE j == [task[g][t] EXCEPT !.at = "policies", !.keys = redis.keys]
  <1>1. task' = [task EXCEPT ![g][t] = j]
    BY TypesOfTask DEF LoadKeys
  <1>2. /\ j \in TaskRecord /\ j.at = "policies" /\ j.last = task[g][t].last
        /\ j.ver = task[g][t].ver /\ j.keys = redis.keys
    BY TypesOfTask DEF TaskRecord, Stages
  <1> HIDE DEF j
  <1>3. Working(t, task[g][t]) /\ Working(t, j)
    BY <1>2 DEF LoadKeys, Working, Busy, Tasks
  <1>4. GoodTask(t, j)
    <2>1. GoodTask(t, task[g][t])
      BY TaskInOrder
    <2> QED BY <1>2, <2>1 DEF GoodTask, LoadKeys, Busy
  <1> QED BY <1>1, <1>2, <1>3, <1>4, WorkStep, TypesOfTask DEF LoadKeys

\* A gateway whose fields are all its own is promised nothing about.
LEMMA AllAstray ==
    ASSUME NEW g \in Gateways, astray'[g] = Fields
    PROVE  KeysMeet(g)' /\ PoliciesMeet(g)'
  BY DEF KeysMeet, PoliciesMeet, Fields

LEMMA LoadPoliciesStep ==
    ASSUME ControlInv, NEW g \in Gateways, NEW t \in Tasks, LoadPolicies(g, t)
    PROVE  ControlInv'
  <1>1. GoodTask(t, task[g][t])
    BY TaskInOrder
  <1>2. CASE t = "boot" /\ task[g][t].keys = {}
    <2> DEFINE j == [task[g][t] EXCEPT !.at = "up"]
    <2>1. task' = [task EXCEPT ![g][t] = j] /\ astray' = [astray EXCEPT ![g] = Fields]
      BY <1>2, TypesOfTask DEF LoadPolicies
    <2>2. /\ j \in TaskRecord /\ j.at = "up" /\ j.last = task[g][t].last
          /\ j.ver = task[g][t].ver /\ j.keys = {}
      BY <1>2, TypesOfTask DEF TaskRecord, Stages
    <2> HIDE DEF j
    <2>3. /\ task' \in [Gateways -> [Tasks -> TaskRecord]] /\ task'[g][t] = j
          /\ \A u \in Tasks : u # t => task'[g][u] = task[g][u]
          /\ \A h \in Gateways : h # g => task'[h] = task[h]
      BY <2>1, <2>2, MovedTask, TypesOfTask
    <2>4. /\ astray' \in [Gateways -> SUBSET Fields] /\ astray'[g] = Fields
          /\ \A h \in Gateways : h # g => astray'[h] = astray[h]
      BY <2>1, TypesOfControl DEF ControlInv
    <2>5. ControlTypeOK'
      BY <2>3, <2>4, TypesOfControl DEF ControlInv, ControlTypeOK, LoadPolicies, TaskRecord
    <2>6. GoodTask(t, j)
      BY <1>1, <1>2, <2>2 DEF GoodTask, Refreshers, Busy
    <2>7. Roles(g)' /\ Versions(g)' /\ Loads(g)'
      BY <1>2, <2>1, <2>2, <2>6, TasksInOrder DEF LoadPolicies, Refreshers
    <2>8. BootAlone(g)'
      BY <1>2, <2>3 DEF ControlInv, Sound, Roles, BootAlone, LoadPolicies, Tasks, Refreshers
    <2>9. Sound(g)'
      BY <2>4, <2>7, <2>8, AllAstray DEF Sound
    <2> QED BY <2>3, <2>4, <2>5, <2>9, OneGateway DEF LoadPolicies
  <1>3. CASE ~(t = "boot" /\ task[g][t].keys = {})
    <2> DEFINE j == [task[g][t] EXCEPT !.at = "clear", !.policies = redis.policies]
    <2>1. task' = [task EXCEPT ![g][t] = j] /\ UNCHANGED astray
      BY <1>3, TypesOfTask DEF LoadPolicies
    <2>2. /\ j \in TaskRecord /\ j.at = "clear" /\ j.last = task[g][t].last
          /\ j.ver = task[g][t].ver /\ j.keys = task[g][t].keys /\ j.policies = redis.policies
      BY TypesOfTask DEF TaskRecord, Stages
    <2> HIDE DEF j
    <2>3. Working(t, task[g][t]) /\ Working(t, j)
      BY <2>2 DEF LoadPolicies, Working, Busy, Tasks
    <2>4. GoodTask(t, j)
      BY <1>1, <2>2 DEF GoodTask, LoadPolicies, Busy
    <2> QED BY <2>1, <2>2, <2>3, <2>4, WorkStep, TypesOfTask DEF LoadPolicies
  <1> QED BY <1>2, <1>3

LEMMA FailStep ==
    ASSUME ControlInv, NEW g \in Gateways, NEW t \in Tasks, LoadFails(g, t) \/ ApplyFails(g, t)
    PROVE  ControlInv'
  <1> DEFINE j == Idle(task[g][t].last)
  <1>1. task' = [task EXCEPT ![g][t] = j] /\ t \in Refreshers /\ task[g][t].at \in Busy
    BY DEF LoadFails, ApplyFails, Busy
  <1>2. task[g][t].last \in Nat /\ redis.version \in Nat /\ GoodTask(t, task[g][t])
    BY TypesOfTask, TaskInOrder
  <1>3. /\ j \in TaskRecord /\ j.at = "idle" /\ j.last = task[g][t].last
        /\ j.ver = 0 /\ j.keys = {}
    BY <1>2, OffFacts
  <1> HIDE DEF j
  <1>4. task[g][t].last < redis.version
    BY <1>1, <1>2 DEF GoodTask
  <1>5. Working(t, task[g][t]) /\ Working(t, j)
    BY <1>1, <1>2, <1>3, <1>4 DEF Working
  <1>6. GoodTask(t, j)
    BY <1>1, <1>2, <1>3, <1>4 DEF GoodTask, Busy, Refreshers
  <1>7. faults' \in 0 .. MaxFaults
    BY TypesOfTask, ControlAssumption DEF LoadFails, ApplyFails, Fault
  <1>8. harmed' \in BOOLEAN
    BY Zenon DEF LoadFails, ApplyFails
  <1>9. UNCHANGED <<redis, touched, runtime, astray, saver, rung>>
    BY DEF LoadFails, ApplyFails
  <1> QED BY <1>1, <1>3, <1>5, <1>6, <1>7, <1>8, <1>9, WorkStep, TypesOfTask

LEMMA BootStep ==
    ASSUME ControlInv, NEW g \in Gateways, Boot(g)
    PROVE  ControlInv'
  <1> DEFINE j == [task[g]["boot"] EXCEPT !.at = IF redis.keys = {} THEN "up" ELSE "version"]
  <1>1. "boot" \in Tasks /\ "boot" \notin Refreshers
    BY DEF Tasks, Refreshers
  <1>2. task' = [task EXCEPT ![g]["boot"] = j]
    BY <1>1, TypesOfTask DEF Boot
  <1>3. GoodTask("boot", task[g]["boot"]) /\ redis.version \in Nat
    BY <1>1, TaskInOrder, TypesOfTask
  <1>4. /\ j \in TaskRecord /\ j.last = task[g]["boot"].last
        /\ j.ver = 0 /\ j.keys = {}
        /\ j.at = IF redis.keys = {} THEN "up" ELSE "version"
    BY <1>1, <1>3, TypesOfTask DEF TaskRecord, Stages, GoodTask, Boot
  <1> HIDE DEF j
  <1>5. GoodTask("boot", j) /\ redis.version # 0
    BY <1>1, <1>3, <1>4 DEF GoodTask, ControlInv
  <1>6. CASE redis.keys # {}
    <2>1. Working("boot", task[g]["boot"]) /\ Working("boot", j)
      BY <1>4, <1>6 DEF Working, Boot
    <2>2. j.at # "insert"
      BY <1>4, <1>6
    <2> QED BY <1>1, <1>2, <1>4, <1>5, <2>1, <2>2, WorkStep, TypesOfTask DEF Boot
  <1>7. CASE redis.keys = {}
    <2>1. /\ task' \in [Gateways -> [Tasks -> TaskRecord]] /\ task'[g]["boot"] = j
          /\ \A u \in Tasks : u # "boot" => task'[g][u] = task[g][u]
          /\ \A h \in Gateways : h # g => task'[h] = task[h]
      BY <1>1, <1>2, <1>4, MovedTask, TypesOfTask
    <2>2. ControlTypeOK'
      BY <2>1, TypesOfControl DEF ControlInv, ControlTypeOK, Boot, TaskRecord
    <2>3. Roles(g)' /\ Versions(g)' /\ Loads(g)'
      BY <1>1, <1>2, <1>4, <1>5, TasksInOrder DEF Boot
    <2>4. \A u \in Refreshers : task'[g][u].at = "off"
      BY <1>1, <2>1 DEF ControlInv, Sound, Roles, Boot, Tasks
    <2>5. ~BootIsLast(g)' /\ ~Settled(g)' /\ ~Current(g)'
      BY <1>4, <1>5, <2>1, <2>4 DEF BootIsLast, Settled, Current, Refreshers, Boot
    <2>6. Sound(g)'
      BY <2>3, <2>5 DEF Sound, BootAlone, KeysMeet, PoliciesMeet
    <2> QED BY <2>1, <2>2, <2>6, OneGateway DEF Boot
  <1> QED BY <1>6, <1>7

\* A refresher that takes the version of its start for loaded: either it is
\* the one that the start-up load has applied, or all is astray.
LEMMA StartRefresherStep ==
    ASSUME ControlInv, NEW g \in Gateways, NEW t \in Tasks, StartRefresher(g, t)
    PROVE  ControlInv'
  <1> DEFINE j == Idle(redis.version)
  <1>1. task' = [task EXCEPT ![g][t] = j] /\ t \in Refreshers /\ t # "boot"
    BY DEF StartRefresher, Refreshers
  <1>2. redis.version \in Nat /\ redis.version # 0 /\ "boot" \in Tasks
    BY TypesOfTask DEF ControlInv, Tasks
  <1>3. /\ j \in TaskRecord /\ j.at = "idle" /\ j.last = redis.version /\ j.ver = 0 /\ j.keys = {}
    BY <1>2, OffFacts
  <1> HIDE DEF j
  <1>4. /\ task' \in [Gateways -> [Tasks -> TaskRecord]] /\ task'[g][t] = j
        /\ \A u \in Tasks : u # t => task'[g][u] = task[g][u]
        /\ \A h \in Gateways : h # g => task'[h] = task[h]
    BY <1>1, <1>3, MovedTask, TypesOfTask
  <1>5. /\ astray' \in [Gateways -> SUBSET Fields]
        /\ \A h \in Gateways : h # g => astray'[h] = astray[h]
        /\ redis.version # task[g]["boot"].ver => astray'[g] = Fields
        /\ redis.version = task[g]["boot"].ver => astray' = astray
    BY TypesOfControl DEF ControlInv, StartRefresher
  <1>6. ControlTypeOK'
    BY <1>4, <1>5, TypesOfControl DEF ControlInv, ControlTypeOK, StartRefresher, TaskRecord
  <1>7. Roles(g)' /\ Versions(g)' /\ Loads(g)'
    <2>1. GoodTask(t, j)
      BY <1>1, <1>2, <1>3 DEF GoodTask, Busy, Refreshers
    <2> QED BY <1>1, <1>3, <2>1, TasksInOrder DEF StartRefresher
  <1>8. task'[g]["boot"] = task[g]["boot"]
    BY <1>1, <1>2, <1>4
  <1>9. BootAlone(g)'
    BY <1>3, <1>4, <1>8 DEF ControlInv, Sound, BootAlone, BootIsLast, StartRefresher, Tasks
  <1>10. KeysMeet(g)' /\ PoliciesMeet(g)'
    <2>1. CASE redis.version # task[g]["boot"].ver
      BY <1>5, <2>1, AllAstray
    <2>2. CASE redis.version = task[g]["boot"].ver
      <3>1. BootIsLast(g) /\ Settled(g) /\ UNCHANGED <<runtime, astray, redis, touched>>
        BY <1>5, <2>2 DEF StartRefresher, BootIsLast, Settled
      <3>2. task[g][t].keys = {}
        BY <1>1 DEF ControlInv, Sound, Roles, StartRefresher
      <3>3. ASSUME NEW k
            PROVE  (\E u \in Tasks : k \in task'[g][u].keys) <=> (\E u \in Tasks : k \in task[g][u].keys)
        BY <1>3, <1>4, <3>2
      <3>4. KeysMeet(g)'
        BY <3>1, <3>3 DEF ControlInv, Sound, KeysMeet
      <3>5. PoliciesMeet(g)'
        BY <3>1 DEF ControlInv, Sound, PoliciesMeet
      <3> QED BY <3>4, <3>5
    <2> QED BY <2>1, <2>2
  <1> QED BY <1>4, <1>5, <1>6, <1>7, <1>9, <1>10, OneGateway DEF Sound, StartRefresher

\* A refresher that could not read the version: the gateway is not current.
LEMMA StartUnreadStep ==
    ASSUME ControlInv, NEW g \in Gateways, NEW t \in Tasks, StartUnread(g, t)
    PROVE  ControlInv'
  <1> DEFINE b == [task[g]["boot"] EXCEPT !.ver = 0]
             row == [task[g] EXCEPT ![t] = Idle(0), !["boot"] = b]
  <1>1. /\ redis.version \in Nat /\ redis.version # 0 /\ t \in Refreshers
        /\ task \in [Gateways -> [Tasks -> TaskRecord]] /\ task[g]["boot"].at = "up"
        /\ UNCHANGED <<redis, runtime, touched, astray>>
    BY TypesOfTask DEF ControlInv, StartUnread
  <1>2. task' = [task EXCEPT ![g] = row] /\ "boot" \in Tasks /\ t # "boot"
    BY <1>1 DEF StartUnread, Tasks, Refreshers
  <1>3. /\ b \in TaskRecord /\ b.at = "up" /\ b.ver = 0 /\ b.last = task[g]["boot"].last
        /\ b.keys = task[g]["boot"].keys
    <2>1. task[g]["boot"] \in TaskRecord /\ task[g]["boot"].at = "up" /\ 0 \in Nat
      BY <1>1, <1>2
    <2> QED BY <2>1 DEF TaskRecord
  <1>4. /\ Idle(0) \in TaskRecord /\ Idle(0).at = "idle" /\ Idle(0).last = 0
        /\ Idle(0).ver = 0 /\ Idle(0).keys = {}
    BY OffFacts
  <1> HIDE DEF b
  <1>5. /\ row \in [Tasks -> TaskRecord] /\ row[t] = Idle(0) /\ row["boot"] = b
        /\ \A u \in Tasks : u # t /\ u # "boot" => row[u] = task[g][u]
    BY <1>1, <1>2, <1>3, <1>4
  <1> HIDE DEF row
  <1>6. /\ task' \in [Gateways -> [Tasks -> TaskRecord]] /\ task'[g] = row
        /\ \A h \in Gateways : h # g => task'[h] = task[h]
    BY <1>1, <1>2, <1>5
  <1>7. ControlTypeOK'
    BY <1>6, TypesOfControl DEF ControlInv, ControlTypeOK, StartUnread, TaskRecord
  <1>8. ASSUME NEW u \in Tasks PROVE GoodTask(u, row[u])
    <2>1. GoodTask(u, task[g][u])
      BY TaskInOrder
    <2>2. CASE u = t
      BY <1>1, <1>2, <1>4, <1>5, <2>2 DEF GoodTask, Busy
    <2>3. CASE u = "boot"
      BY <1>1, <1>3, <1>5, <2>1, <2>3 DEF GoodTask, Refreshers
    <2> QED BY <1>5, <2>1, <2>2, <2>3
  <1>9. Roles(g)' /\ Versions(g)' /\ Loads(g)'
    <2>1. \A u \in Tasks : GoodTask(u, task'[g][u])
      BY <1>6, <1>8
    <2>2. task'[g]["boot"].at = "up"
      BY <1>3, <1>5, <1>6
    <2>3. Roles(g)'
      BY <2>1, <2>2 DEF Roles, GoodTask, Tasks
    <2>4. Versions(g)'
      BY <1>1, <2>1 DEF Versions, GoodTask, Tasks
    <2>5. Loads(g)'
      BY <1>1, <2>1 DEF Loads, GoodTask
    <2> QED BY <2>3, <2>4, <2>5
  <1>10. ~BootIsLast(g)' /\ ~Settled(g)' /\ ~Current(g)'
    BY <1>1, <1>3, <1>4, <1>5, <1>6 DEF BootIsLast, Settled, Current
  <1>11. BootAlone(g)' /\ KeysMeet(g)' /\ PoliciesMeet(g)'
    BY <1>10 DEF BootAlone, KeysMeet, PoliciesMeet
  <1> QED BY <1>1, <1>6, <1>7, <1>9, <1>11, OneGateway DEF Sound

\* The keys of the table are cleared: what the task holds is what the store
\* holds, and the other refresher, if it inserts too, holds a part of it.
LEMMA ClearStep ==
    ASSUME ControlInv, NEW g \in Gateways, NEW t \in Tasks, Clear(g, t)
    PROVE  ControlInv'
  <1> DEFINE j == [task[g][t] EXCEPT !.at = "insert"]
  <1>1. task' = [task EXCEPT ![g][t] = j]
    BY TypesOfTask DEF Clear
  <1>2. /\ j \in TaskRecord /\ j.at = "insert" /\ j.last = task[g][t].last /\ j.ver = task[g][t].ver
        /\ j.keys = task[g][t].keys /\ j.policies = task[g][t].policies
    BY TypesOfTask DEF TaskRecord, Stages
  <1> HIDE DEF j
  <1>3. /\ task' \in [Gateways -> [Tasks -> TaskRecord]] /\ task'[g][t] = j
        /\ \A u \in Tasks : u # t => task'[g][u] = task[g][u]
        /\ \A h \in Gateways : h # g => task'[h] = task[h]
    BY <1>1, <1>2, MovedTask, TypesOfTask
  <1>4. /\ runtime' \in [Gateways -> [keys : SUBSET Keys, policies : Policies]]
        /\ runtime'[g].keys = {} /\ runtime'[g].policies = runtime[g].policies
        /\ \A h \in Gateways : h # g => runtime'[h] = runtime[h]
        /\ astray' \in [Gateways -> SUBSET Fields] /\ astray'[g] = astray[g] \ {"keys"}
        /\ \A h \in Gateways : h # g => astray'[h] = astray[h]
    BY TypesOfControl DEF ControlInv, Clear
  <1>5. ControlTypeOK'
    BY <1>3, <1>4, TypesOfControl DEF ControlInv, ControlTypeOK, Clear, TaskRecord
  <1>6. \A u \in Tasks : GoodTask(u, task[g][u])
    BY TaskInOrder
  <1>7. GoodTask(t, j) /\ task[g][t].at = "clear" /\ UNCHANGED <<redis, touched>>
    BY <1>2, <1>6 DEF GoodTask, Busy, Clear
  <1>8. CASE t \in Refreshers
    <2>1. ~BootIsLast(g) /\ task[g]["boot"].at = "up" /\ "boot" \in Tasks /\ t # "boot"
      BY <1>7, <1>8 DEF ControlInv, Sound, BootAlone, Roles, Tasks, Refreshers
    <2>2. task'[g]["boot"] = task[g]["boot"] /\ task[g]["boot"].keys = {} /\ ~BootIsLast(g)'
      BY <1>3, <1>6, <1>7, <2>1 DEF BootIsLast, GoodTask
    <2>3. Roles(g)' /\ Versions(g)' /\ Loads(g)'
      BY <1>1, <1>2, <1>7, <2>1, TasksInOrder
    <2>4. ~Current(g)'
      <3>1. task'[g][t].last = task[g][t].last /\ task[g][t].last \in Nat /\ redis.version \in Nat
        BY <1>2, <1>3, TypesOfTask
      <3>2. task[g][t].last < redis.version
        BY <1>6, <1>7, <1>8 DEF GoodTask, Busy
      <3> QED BY <1>7, <1>8, <3>1, <3>2 DEF Current
    <2>5. KeysMeet(g)'
      <3> SUFFICES ASSUME Settled(g)', "keys" \notin touched', NEW k \in Keys
                   PROVE  k \in redis'.keys <=> \E u \in Tasks : k \in task'[g][u].keys
        BY <1>4 DEF KeysMeet
      <3>1. /\ task'[g][t].ver = redis.version
            /\ \A u \in Refreshers : \/ task'[g][u].at = "idle"
                                     \/ task'[g][u].at = "insert" /\ task'[g][u].ver = redis.version
        BY <1>2, <1>3, <1>7, <1>8, <2>1, <2>2 DEF Settled, BootIsLast
      <3>2. task'[g][t].keys = redis.keys
        BY <1>2, <1>3, <1>6, <1>7, <3>1 DEF GoodTask
      <3>3. \A u \in Tasks : u # t => task'[g][u].keys \subseteq redis.keys
        BY <1>3, <1>6, <1>7, <2>2, <3>1 DEF GoodTask, Tasks
      <3> QED BY <1>7, <3>2, <3>3
    <2> QED BY <1>3, <1>4, <1>5, <1>7, <2>2, <2>3, <2>4, <2>5, OneGateway
            DEF Sound, BootAlone, PoliciesMeet
  <1>9. CASE t = "boot"
    <2>1. \A u \in Refreshers : task'[g][u].at = "off" /\ task'[g][u].keys = {}
      BY <1>3, <1>6, <1>7, <1>9 DEF ControlInv, Sound, Roles, GoodTask, Tasks, Refreshers
    <2>2. Roles(g)' /\ Versions(g)' /\ Loads(g)'
      BY <1>1, <1>2, <1>7, <1>9, TasksInOrder DEF Refreshers
    <2>3. ~BootIsLast(g)' /\ ~Current(g)'
      BY <1>2, <1>3, <1>9, <2>1 DEF BootIsLast, Current, Refreshers
    <2>4. KeysMeet(g)'
      <3> SUFFICES ASSUME Settled(g)', "keys" \notin touched', NEW k \in Keys
                   PROVE  k \in redis'.keys <=> \E u \in Tasks : k \in task'[g][u].keys
        BY <1>4 DEF KeysMeet
      <3>1. task'[g][t].ver = redis.version
        BY <1>7, <1>9, <2>1 DEF Settled, Refreshers
      <3>2. task'[g][t].keys = redis.keys
        BY <1>2, <1>3, <1>6, <1>7, <3>1 DEF GoodTask
      <3> QED BY <1>7, <1>9, <2>1, <3>2 DEF Tasks
    <2> QED BY <1>3, <1>4, <1>5, <1>7, <2>2, <2>3, <2>4, OneGateway
            DEF Sound, BootAlone, PoliciesMeet
  <1> QED BY <1>8, <1>9 DEF Tasks

\* A key goes from the task to the table.
LEMMA InsertStep ==
    ASSUME ControlInv, NEW g \in Gateways, NEW t \in Tasks, Insert(g, t)
    PROVE  ControlInv'
  <1>1. PICK k \in task[g][t].keys : /\ runtime' = [runtime EXCEPT ![g].keys = @ \union {k}]
                                    /\ task' = [task EXCEPT ![g][t].keys = @ \ {k}]
    BY DEF Insert
  <1> DEFINE j == [task[g][t] EXCEPT !.keys = @ \ {k}]
  <1>2. task' = [task EXCEPT ![g][t] = j] /\ k \in Keys
    BY <1>1, TypesOfTask DEF TaskRecord
  <1>3. /\ j \in TaskRecord /\ j.at = "insert" /\ j.last = task[g][t].last /\ j.ver = task[g][t].ver
        /\ j.keys = task[g][t].keys \ {k} /\ j.policies = task[g][t].policies
        /\ task[g][t].at = "insert"
    BY TypesOfTask DEF TaskRecord, Insert
  <1> HIDE DEF j
  <1>4. /\ task' \in [Gateways -> [Tasks -> TaskRecord]] /\ task'[g][t] = j
        /\ \A u \in Tasks : u # t => task'[g][u] = task[g][u]
        /\ \A h \in Gateways : h # g => task'[h] = task[h]
    BY <1>2, <1>3, MovedTask, TypesOfTask
  <1>5. /\ runtime' \in [Gateways -> [keys : SUBSET Keys, policies : Policies]]
        /\ runtime'[g].keys = runtime[g].keys \union {k}
        /\ runtime'[g].policies = runtime[g].policies
        /\ \A h \in Gateways : h # g => runtime'[h] = runtime[h]
    <2>1. runtime \in [Gateways -> [keys : SUBSET Keys, policies : Policies]]
      BY TypesOfControl DEF ControlInv
    <2>2. runtime' = [runtime EXCEPT ![g] = [runtime[g] EXCEPT !.keys = runtime[g].keys \union {k}]]
      BY <1>1, <2>1
    <2>3. runtime[g].keys \union {k} \in SUBSET Keys
      BY <1>2, <2>1
    <2>4. [runtime[g] EXCEPT !.keys = runtime[g].keys \union {k}] \in
             [keys : SUBSET Keys, policies : Policies]
      BY <2>1, <2>3
    <2> QED BY <2>1, <2>2, <2>4
  <1>6. ControlTypeOK'
    BY <1>4, <1>5, TypesOfControl DEF ControlInv, ControlTypeOK, Insert, TaskRecord
  <1>7. GoodTask(t, task[g][t]) /\ UNCHANGED <<redis, touched, astray>>
    BY TaskInOrder DEF Insert
  <1>8. GoodTask(t, j)
    BY <1>3, <1>7 DEF GoodTask
  <1>9. t \in Refreshers => task[g]["boot"].at = "up"
    BY <1>3 DEF ControlInv, Sound, Roles
  <1>10. Roles(g)' /\ Versions(g)' /\ Loads(g)'
    BY <1>2, <1>3, <1>7, <1>8, <1>9, TasksInOrder
  <1>11. \A u \in Tasks : /\ task'[g][u].at = task[g][u].at /\ task'[g][u].last = task[g][u].last
                          /\ task'[g][u].ver = task[g][u].ver
    BY <1>3, <1>4
  <1>12. /\ BootIsLast(g)' <=> BootIsLast(g)
         /\ Settled(g)' <=> Settled(g)
         /\ Current(g)' <=> Current(g)
         /\ BootAlone(g)'
    <2>1. BootIsLast(g)' <=> BootIsLast(g)
      BY <1>7, <1>11 DEF BootIsLast, Tasks
    <2>2. Settled(g)' <=> Settled(g)
      BY <1>7, <1>11 DEF Settled, Tasks
    <2>3. Current(g)' <=> Current(g)
      BY <1>7, <1>11 DEF Current, Tasks
    <2>4. BootAlone(g)'
      BY <1>7, <1>11, <2>1 DEF ControlInv, Sound, BootAlone, Tasks
    <2> QED BY <2>1, <2>2, <2>3, <2>4
  <1>13. KeysMeet(g)'
    <2>1. ASSUME NEW kk \in Keys
          PROVE  (kk \in runtime'[g].keys \/ \E u \in Tasks : kk \in task'[g][u].keys) <=>
                 (kk \in runtime[g].keys \/ \E u \in Tasks : kk \in task[g][u].keys)
      <3>1. CASE kk = k
        BY <1>1, <1>5, <3>1
      <3>2. CASE kk # k
        <4>1. \A u \in Tasks : kk \in task'[g][u].keys <=> kk \in task[g][u].keys
          BY <1>3, <1>4, <3>2
        <4> QED BY <1>5, <3>2, <4>1
      <3> QED BY <3>1, <3>2
    <2> QED BY <1>7, <1>12, <2>1 DEF ControlInv, Sound, KeysMeet
  <1>14. PoliciesMeet(g)'
    BY <1>5, <1>7, <1>12 DEF ControlInv, Sound, PoliciesMeet
  <1> QED BY <1>4, <1>5, <1>6, <1>7, <1>10, <1>12, <1>13, <1>14, OneGateway DEF Sound

\* The policies are replaced and the version loaded is recorded.
LEMMA FinishStep ==
    ASSUME ControlInv, NEW g \in Gateways, NEW t \in Tasks, Finish(g, t)
    PROVE  ControlInv'
  <1> DEFINE j == IF t = "boot" THEN [Off EXCEPT !.at = "up", !.ver = task[g][t].ver]
                                ELSE Idle(task[g][t].ver)
  <1>1. /\ task' = [task EXCEPT ![g][t] = j] /\ task[g][t].at = "insert" /\ task[g][t].keys = {}
        /\ UNCHANGED <<redis, touched>>
    BY DEF Finish
  <1>2. /\ task[g][t].ver \in Nat /\ task[g][t].policies \in Policies /\ redis.version \in Nat
        /\ GoodTask(t, task[g][t])
    BY TypesOfTask, TaskInOrder DEF TaskRecord
  <1>3. /\ j \in TaskRecord /\ j.keys = {} /\ j.last <= redis.version /\ j.ver <= redis.version
        /\ t = "boot" => j.at = "up" /\ j.ver = task[g][t].ver
        /\ t # "boot" => j.at = "idle" /\ j.last = task[g][t].ver
    <2>1. task[g][t].ver <= redis.version
      BY <1>2 DEF GoodTask
    <2>2. CASE t = "boot"
      <3>1. /\ j \in TaskRecord /\ j.at = "up" /\ j.ver = task[g][t].ver
            /\ j.last = Off.last /\ j.keys = Off.keys
        BY <1>2, <2>2, OffFacts DEF TaskRecord, Stages
      <3> QED BY <1>2, <2>1, <2>2, <3>1, OffFacts
    <2>3. CASE t # "boot"
      BY <1>2, <2>1, <2>3, OffFacts
    <2> QED BY <2>2, <2>3
  <1> HIDE DEF j
  <1>4. /\ task' \in [Gateways -> [Tasks -> TaskRecord]] /\ task'[g][t] = j
        /\ \A u \in Tasks : u # t => task'[g][u] = task[g][u]
        /\ \A h \in Gateways : h # g => task'[h] = task[h]
    BY <1>1, <1>3, MovedTask, TypesOfTask
  <1>5. /\ runtime' \in [Gateways -> [keys : SUBSET Keys, policies : Policies]]
        /\ runtime'[g].keys = runtime[g].keys /\ runtime'[g].policies = task[g][t].policies
        /\ \A h \in Gateways : h # g => runtime'[h] = runtime[h]
        /\ astray' \in [Gateways -> SUBSET Fields] /\ astray'[g] = astray[g] \ {"policies"}
        /\ \A h \in Gateways : h # g => astray'[h] = astray[h]
    BY <1>2, TypesOfControl DEF ControlInv, Finish
  <1>6. ControlTypeOK'
    BY <1>4, <1>5, TypesOfControl DEF ControlInv, ControlTypeOK, Finish, TaskRecord
  <1>7. GoodTask(t, j)
    BY <1>3 DEF GoodTask, Busy, Tasks, Refreshers
  <1>8. t \in Refreshers => task[g]["boot"].at = "up" /\ ~BootIsLast(g) /\ t # "boot"
    BY <1>1 DEF ControlInv, Sound, Roles, BootAlone, Refreshers
  <1>9. t = "boot" => \A u \in Refreshers : task[g][u].at = "off"
    BY <1>1 DEF ControlInv, Sound, Roles
  <1>10. Roles(g)' /\ Versions(g)' /\ Loads(g)'
    BY <1>1, <1>3, <1>7, <1>8, TasksInOrder
  <1>11. BootAlone(g)'
    <2>1. CASE t \in Refreshers
      BY <1>1, <1>4, <1>8, <2>1 DEF BootAlone, BootIsLast, Tasks
    <2>2. CASE t = "boot"
      BY <1>4, <1>9, <2>2 DEF BootAlone, Tasks, Refreshers
    <2> QED BY <2>1, <2>2 DEF Tasks
  <1>12. Settled(g)' => Settled(g)
    <2>1. CASE t \in Refreshers
      BY <1>1, <1>3, <1>4, <1>8, <2>1 DEF Settled, Tasks
    <2>2. CASE t = "boot"
      BY <1>1, <1>3, <1>4, <1>9, <2>2 DEF Settled, Tasks, Refreshers
    <2> QED BY <2>1, <2>2 DEF Tasks
  <1>13. KeysMeet(g)'
    <2>1. ASSUME NEW k
          PROVE  (\E u \in Tasks : k \in task'[g][u].keys) <=> (\E u \in Tasks : k \in task[g][u].keys)
      BY <1>1, <1>3, <1>4
    <2> QED BY <1>1, <1>5, <1>12, <2>1 DEF ControlInv, Sound, KeysMeet
  <1>14. PoliciesMeet(g)'
    <2> SUFFICES ASSUME Current(g)' \/ BootIsLast(g)', "policies" \notin touched
                 PROVE  task[g][t].policies = redis.policies
      BY <1>1, <1>5 DEF PoliciesMeet
    <2>1. task[g][t].ver = redis.version
      <3>1. CASE t \in Refreshers
        BY <1>1, <1>3, <1>4, <1>8, <3>1 DEF Current, BootIsLast, Tasks
      <3>2. CASE t = "boot"
        BY <1>1, <1>3, <1>4, <1>9, <3>2 DEF Current, BootIsLast, Tasks, Refreshers
      <3> QED BY <3>1, <3>2 DEF Tasks
    <2> QED BY <1>1, <1>2, <2>1 DEF GoodTask
  <1> QED BY <1>1, <1>4, <1>5, <1>6, <1>10, <1>11, <1>13, <1>14, OneGateway DEF Sound

LEMMA CrashStep ==
    ASSUME ControlInv, NEW g \in Gateways, Crash(g)
    PROVE  ControlInv'
  <1> DEFINE row == [t \in Tasks |-> IF t = "boot" THEN [Off EXCEPT !.at = "start"] ELSE Off]
  <1>1. ControlTypeOK /\ redis.version \in Nat /\ redis.version # 0
    BY TypesOfControl DEF ControlInv
  <1>2. /\ row \in [Tasks -> TaskRecord]
        /\ \A t \in Tasks : row[t].last = 0 /\ row[t].ver = 0 /\ row[t].keys = {}
        /\ row["boot"].at = "start" /\ \A t \in Refreshers : row[t].at = "off"
    BY OffFacts DEF TaskRecord, Stages, Tasks, Refreshers
  <1>3. task' = [task EXCEPT ![g] = row]
    BY DEF Crash
  <1> HIDE DEF row
  <1>4. /\ task' \in [Gateways -> [Tasks -> TaskRecord]] /\ task'[g] = row
        /\ \A h \in Gateways : h # g => task'[h] = task[h]
    BY <1>1, <1>2, <1>3, TypesOfControl
  <1>5. /\ runtime' \in [Gateways -> [keys : SUBSET Keys, policies : Policies]]
        /\ \A h \in Gateways : h # g => runtime'[h] = runtime[h]
    BY <1>1, TypesOfControl, ControlAssumption DEF Crash
  <1>6. saver' \in [Savers -> SaverRecord]
    BY <1>1, OffFacts, TypesOfControl DEF Crash
  <1>7. /\ astray' \in [Gateways -> SUBSET Fields] /\ astray'[g] = Fields
        /\ \A h \in Gateways : h # g => astray'[h] = astray[h]
        /\ rung' \in [Gateways -> BOOLEAN]
    BY <1>1, TypesOfControl DEF Crash
  <1>8. faults' \in 0 .. MaxFaults /\ harmed' = TRUE /\ UNCHANGED <<redis, touched>>
    BY <1>1, TypesOfControl, ControlAssumption DEF Crash, Fault
  <1>9. ControlTypeOK'
    BY <1>1, <1>4, <1>5, <1>6, <1>7, <1>8, TypesOfControl DEF ControlTypeOK, TaskRecord, SaverRecord
  <1>10. Roles(g)' /\ Versions(g)' /\ Loads(g)' /\ BootAlone(g)'
    <2>1. Roles(g)'
      BY <1>2, <1>4 DEF Roles, Tasks, Refreshers
    <2>2. Versions(g)'
      BY <1>1, <1>2, <1>4, <1>8 DEF Versions, Tasks, Refreshers, Busy
    <2>3. Loads(g)' /\ BootAlone(g)'
      BY <1>1, <1>2, <1>4, <1>8 DEF Loads, BootAlone, BootIsLast
    <2> QED BY <2>1, <2>2, <2>3
  <1> QED BY <1>4, <1>5, <1>7, <1>8, <1>9, <1>10, AllAstray, OneGateway DEF Sound

(***************************************************************************)
(* The theorems.                                                           *)
(***************************************************************************)
LEMMA InitSound == Init => ControlInv
  <1> SUFFICES ASSUME Init PROVE ControlInv
    OBVIOUS
  <1>1. [Off EXCEPT !.at = "up", !.ver = 1] \in TaskRecord /\ Idle(1) \in TaskRecord
    BY OffFacts DEF TaskRecord, Stages
  <1>2. ASSUME NEW g \in Gateways
        PROVE  /\ task[g]["boot"].at = "up" /\ task[g]["boot"].ver = 1
               /\ task[g]["boot"].keys = {} /\ task[g]["boot"].last = 0
               /\ \A t \in Refreshers : /\ task[g][t].at = "idle" /\ task[g][t].last = 1
                                        /\ task[g][t].keys = {} /\ task[g][t].ver = 0
    BY OffFacts DEF Init, Tasks, Refreshers, TaskRecord
  <1>3. /\ redis.version = 1 /\ redis.keys = Keys /\ redis.policies = Default
        /\ \A g \in Gateways : runtime[g].keys = Keys /\ runtime[g].policies = Default
    BY DEF Init
  <1>4. ControlTypeOK
    <2>1. task \in [Gateways -> [Tasks -> TaskRecord]]
      BY <1>1 DEF Init
    <2>2. saver \in [Savers -> SaverRecord]
      BY OffFacts DEF Init
    <2>3. rung \in [Gateways -> BOOLEAN] /\ harmed \in BOOLEAN
      BY DEF Init
    <2>4. /\ redis \in [version : Nat, keys : SUBSET Keys, policies : Policies]
          /\ runtime \in [Gateways -> [keys : SUBSET Keys, policies : Policies]]
          /\ faults \in 0 .. MaxFaults /\ touched \in SUBSET Fields
          /\ astray \in [Gateways -> SUBSET Fields]
      BY ControlAssumption DEF Init
    <2> QED BY <2>1, <2>2, <2>3, <2>4, TypesOfControl
  <1>5. ASSUME NEW g \in Gateways PROVE Sound(g)
    <2>1. Roles(g) /\ Versions(g) /\ Loads(g) /\ BootAlone(g)
      BY <1>2, <1>3 DEF Roles, Versions, Loads, BootAlone, Tasks, Refreshers, Busy
    <2>2. KeysMeet(g) /\ PoliciesMeet(g)
      BY <1>3 DEF KeysMeet, PoliciesMeet
    <2> QED BY <2>1, <2>2 DEF Sound
  <1> QED BY <1>3, <1>4, <1>5 DEF ControlInv

LEMMA NextSound == ControlInv /\ [Next]_vars => ControlInv'
  <1> SUFFICES ASSUME ControlInv, [Next]_vars PROVE ControlInv'
    OBVIOUS
  <1>1. ASSUME NEW g \in Gateways, Manage(g) PROVE ControlInv'
    BY <1>1, ManageStep
  <1>2. ASSUME NEW g \in Gateways, Poll(g) \/ Receive(g) \/ Crash(g) \/ Boot(g) PROVE ControlInv'
    BY <1>2, PollStep, ReceiveStep, CrashStep, BootStep
  <1>3. ASSUME NEW g \in Gateways, NEW t \in Tasks, Refresh(g, t) PROVE ControlInv'
    BY <1>3, LoadVersionStep, LoadKeysStep, LoadPoliciesStep, ClearStep, InsertStep, FinishStep,
       StartRefresherStep, StartUnreadStep DEF Refresh
  <1>4. ASSUME NEW g \in Gateways, NEW t \in Tasks, LoadFails(g, t) \/ ApplyFails(g, t)
        PROVE  ControlInv'
    BY <1>4, FailStep
  <1>5. ASSUME NEW s \in Savers, Save(s) \/ SaveFails(s) \/ ClientGone(s)
        PROVE  ControlInv'
    BY <1>5, BuildStep, SetStep, IncrStep, PublishStep, SaveFailsStep,
       ClientGoneStep DEF Save
  <1>6. CASE UNCHANGED vars
    <2>1. UNCHANGED <<redis, runtime, task, touched, astray, saver, rung, faults, harmed>>
      BY <1>6 DEF vars
    <2>2. ControlTypeOK'
      BY <2>1, TypesOfControl DEF ControlInv, ControlTypeOK
    <2> QED BY <2>1, <2>2, OtherGateway DEF ControlInv
  <1> QED BY <1>1, <1>2, <1>3, <1>4, <1>5, <1>6 DEF Next

LEMMA ControlInvariance == Spec => []ControlInv
  BY InitSound, NextSound, PTL DEF Spec

\* The store, the tasks and the persist tasks of the gateways (crab-state)
\* keep their types, whatever is lost, fails or crashes.
THEOREM ControlTyped == Spec => []ControlTypeOK
  <1>1. ControlInv => ControlTypeOK
    BY DEF ControlInv
  <1> QED BY <1>1, ControlInvariance, PTL

\* A gateway both of whose refreshers have recorded the store's version
\* serves by what the store holds (sync.rs), for any number of gateways, keys
\* and persist tasks: the loads that overlap another's apply, the SETs of a
\* save under way and the crash of a gateway leave no mixture behind.
THEOREM GatewaysRefreshed == Spec => []Refreshed
  <1>1. ControlInv => Refreshed
    <2> SUFFICES ASSUME ControlInv, NEW g \in Gateways, Current(g),
                        NEW f \in Fields \ (touched \union astray[g])
                 PROVE  runtime[g][f] = redis[f]
      BY DEF Refreshed
    <2>1. \A t \in Refreshers : task[g][t].at = "idle" /\ task[g][t].last = redis.version
      <3> SUFFICES ASSUME NEW t \in Refreshers
                   PROVE  task[g][t].at = "idle" /\ task[g][t].last = redis.version
        OBVIOUS
      <3>1. /\ task[g][t].at \in Stages /\ task[g][t].last \in Nat /\ redis.version \in Nat
            /\ task[g][t].at # "off" /\ task[g][t].last = redis.version
        BY TypesOfTask DEF Tasks, TaskRecord, Current
      <3>2. task[g][t].at \notin {"start", "up"} /\ task[g][t].at \notin Busy
        BY <3>1 DEF ControlInv, Sound, Roles, Versions
      <3> QED BY <3>1, <3>2 DEF Stages, Busy
    <2>2. Settled(g)
      BY <2>1 DEF Settled
    <2>3. \A t \in Tasks : task[g][t].keys = {}
      BY <2>1 DEF ControlInv, Sound, Roles, Tasks, Refreshers
    <2>4. CASE f = "keys"
      <3>1. runtime[g].keys \in SUBSET Keys /\ redis.keys \in SUBSET Keys
        BY TypesOfControl DEF ControlInv
      <3>2. \A k \in Keys : k \in redis.keys <=> k \in runtime[g].keys
        BY <2>2, <2>3, <2>4 DEF ControlInv, Sound, KeysMeet
      <3>3. runtime[g].keys = redis.keys
        BY <3>1, <3>2
      <3> QED BY <2>4, <3>3, TypesOfControl DEF ControlInv
    <2>5. CASE f = "policies"
      <3>1. runtime[g].policies = redis.policies
        BY <2>5 DEF ControlInv, Sound, PoliciesMeet
      <3> QED BY <2>5, <3>1, TypesOfControl DEF ControlInv
    <2> QED BY <2>4, <2>5 DEF Fields
  <1> QED BY <1>1, ControlInvariance, PTL
=============================================================================
