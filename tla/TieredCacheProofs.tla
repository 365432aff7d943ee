-------------------------- MODULE TieredCacheProofs --------------------------
(***************************************************************************)
(* The invariants of TieredCache for any gateways, keys, tasks and times   *)
(* to live.                                                                *)
(***************************************************************************)
EXTENDS TieredCache, TLAPS

TaskRecord ==
    [pc : {"idle", "setex"} \cup Lookups \cup Jobs, kind : Kinds,
     gw : Gateways \cup {NoGateway}, scope : SUBSET Keys, id : Ids \cup {"none"},
     for : 0..Lag, left : SUBSET Keys, found : SUBSET Keys,
     old : SUBSET (Keys \X Ids), clean : BOOLEAN]

\* What a task's stage says of its other fields.
TaskShape(j) ==
    /\ (j.pc \in Lookups \cup {"setex", "del"} \/ j.kind = "key") => \E k \in Keys : j.scope = {k}
    /\ j.id \in Ids <=> j.pc \in {"promote", "setex"}
    /\ j.pc # "idle" => j.gw \in Gateways
    /\ j.kind # "none" <=> j.pc \in Jobs
    /\ j.old # {} => j.pc \in {"del", "scan", "batch"}
    /\ j.old \subseteq j.scope \X Ids
    /\ j.clean => j.pc \in {"del", "scan", "batch", "done"}
    /\ j.found # {} => j.pc = "batch"
    /\ j.pc = "done" => j.left = {}

ShapeOK == \A t \in Tasks : TaskShape(task[t])

\* A task that carries entry i of key k.
Carries(j, pc, k, i) == j.pc = pc /\ j.scope = {k} /\ j.id = i

\* How old an entry can be where it is: in Redis one time to live and the
\* length of its store, in L0, until somebody reads it there, one time to live
\* and the length of a lookup more.
AgeInL0 ==
    \A g \in Gateways, k \in Keys :
        l0[g][k] \in Entry => age[k][l0[g][k].id] + l0[g][k].left < 2 * MaxTtl + 2 * Lag
AgeInRedis ==
    \A k \in Keys : redis[k].id \in Ids => age[k][redis[k].id] + redis[k].left <= MaxTtl + Lag
AgeInTasks ==
    \A t \in Tasks, k \in Keys, i \in Ids :
        /\ Carries(task[t], "setex", k, i) => age[k][i] <= task[t].for
        /\ Carries(task[t], "promote", k, i) => age[k][i] < MaxTtl + Lag + task[t].for

\* Where a purged entry can still be: on its way into an L0, or in one.
PurgedFromRedis ==
    \A k \in Keys, i \in Ids : purged[k][i] # Never => redis[k].id # i
PurgedInTasks ==
    \A t \in Tasks, k \in Keys, i \in Ids :
        /\ Carries(task[t], "setex", k, i) => purged[k][i] = Never
        /\ Carries(task[t], "promote", k, i) => purged[k][i] <= task[t].for
PurgedInL0 ==
    \A g \in Gateways, k \in Keys :
        l0[g][k] \in Entry => purged[k][l0[g][k].id] + l0[g][k].left <= MaxTtl + Lag

\* The keys an invalidation has not dealt with yet.
Pending(j) == j.left \cup j.found

\* What an invalidation is about to purge is not being stored again, and is gone
\* from Redis for the keys it has dealt with.
OldNotStored ==
    \A t, u \in Tasks, k \in Keys, i \in Ids :
        <<k, i>> \in task[t].old => ~Carries(task[u], "setex", k, i)
OldDeleted ==
    \A t \in Tasks, k \in Keys, i \in Ids :
        (<<k, i>> \in task[t].old /\ task[t].pc # "del" /\ k \notin Pending(task[t])) =>
            redis[k].id # i

\* An undisturbed invalidation: its gateway's L0 is clear of its keys and no
\* request under way will fill it; in Redis the keys dealt with are gone.
CleanL0 ==
    \A t \in Tasks, k \in Keys :
        (task[t].clean /\ k \in task[t].scope) => l0[task[t].gw][k] = None
CleanAlone ==
    \A t, u \in Tasks, k \in Keys :
        (task[t].clean /\ k \in task[t].scope /\ Request(u) /\ task[u].scope = {k}) =>
            task[u].pc # "setex" /\ task[u].gw # task[t].gw
CleanRedis ==
    \A t \in Tasks, k \in Keys :
        (task[t].clean /\ k \in task[t].scope /\ task[t].pc # "del" /\ k \notin Pending(task[t])) =>
            redis[k] = None

AgeOK == AgeInL0 /\ AgeInRedis /\ AgeInTasks
PurgeOK == PurgedFromRedis /\ PurgedInTasks /\ PurgedInL0
JobsOK == OldNotStored /\ OldDeleted /\ CleanL0 /\ CleanAlone /\ CleanRedis
TieredInv == TieredTypeOK /\ ShapeOK /\ AgeOK /\ PurgeOK /\ JobsOK /\ OneFullScan

-----------------------------------------------------------------------------
\* A task that does nothing.
LEMMA IdleTask ==
    /\ Idle \in TaskRecord /\ TaskShape(Idle)
    /\ Idle.pc = "idle" /\ Idle.kind = "none" /\ Idle.old = {} /\ ~Idle.clean
    /\ Idle.id = "none"
  BY TieredAssumption DEF Idle, TaskRecord, TaskShape, Lookups, Jobs, Kinds

\* Entries, and what is none.
LEMMA EntryFacts ==
    /\ None \notin Entry /\ Corrupt \notin Entry /\ None # Corrupt
    /\ None.id = "none" /\ None.id \notin Ids /\ Corrupt.id \notin Ids
    /\ None \notin Held /\ Corrupt \notin Held
    /\ \A e \in Entry : e \in Held /\ e.id \in Ids /\ e.left \in 1..MaxTtl
    /\ \A e \in Held : e.id \in Ids /\ (e \in Entry \/ e.left = Forever)
  <1>1. None.id = "none" /\ None.id \notin Ids /\ Corrupt.id = "corrupt" /\ Corrupt.id \notin Ids
    BY TieredAssumption DEF None, Corrupt
  <1>2. \A e \in Held : e.id \in Ids /\ (e \in Entry \/ e.left = Forever)
    BY DEF Held, Entry
  <1>3. \A e \in Entry : e \in Held /\ e.id \in Ids /\ e.left \in 1..MaxTtl
    BY DEF Held, Entry
  <1> QED BY <1>1, <1>2, <1>3

\* The key of a request, or of the invalidation of one key.
LEMMA KeyOfTask ==
    ASSUME NEW t \in Tasks, TaskShape(task[t]),
           task[t].pc \in Lookups \cup {"setex", "del"}
    PROVE  KeyOf(t) \in Keys /\ task[t].scope = {KeyOf(t)}
  BY DEF TaskShape, KeyOf

\* The type invariant in terms of TaskRecord.
LEMMA TypesOfTasks ==
    TieredTypeOK <=>
        /\ l0 \in [Gateways -> [Keys -> Held \cup {None}]]
        /\ redis \in [Keys -> Entry \cup {None, Corrupt}]
        /\ flag \in [Gateways -> BOOLEAN]
        /\ task \in [Tasks -> TaskRecord]
        /\ age \in [Keys -> [Ids -> Nat]]
        /\ purged \in [Keys -> [Ids -> Nat \cup {Never}]]
  BY DEF TieredTypeOK, TaskRecord

\* As long as no request or invalidation begins, nobody comes in the way of
\* an invalidation.
LEMMA NobodyNew ==
    ASSUME OldNotStored, CleanAlone,
           \A u \in Tasks :
              /\ task'[u].old \subseteq task[u].old
              /\ task'[u].clean => task[u].clean /\ task'[u].gw = task[u].gw
                                     /\ task'[u].scope = task[u].scope
              /\ Request(u)' => /\ Request(u) /\ task'[u].gw = task[u].gw
                                /\ task'[u].scope = task[u].scope
                                /\ task'[u].pc = "setex" => task[u].pc = "setex"
                                                            /\ task'[u].id = task[u].id
    PROVE  OldNotStored' /\ CleanAlone'
  <1>1. OldNotStored'
    BY DEF OldNotStored, Carries, Request
  <1>2. CleanAlone'
    BY DEF CleanAlone
  <1> QED BY <1>1, <1>2

\* Steps in which entries of Redis go and tasks end, whatever happens in L0.
LEMMA LossOutsideL0 ==
    ASSUME TieredInv,
           \A k \in Keys : redis'[k] \in {redis[k], None},
           \A u \in Tasks : task'[u] \in {task[u], Idle},
           age' = age, purged' = purged
    PROVE  /\ ShapeOK' /\ AgeInRedis' /\ AgeInTasks' /\ PurgedFromRedis' /\ PurgedInTasks'
           /\ OldNotStored' /\ OldDeleted' /\ CleanAlone' /\ CleanRedis'
  <1>0. \A u \in Tasks : task'[u] = task[u] \/ (/\ task'[u].pc = "idle" /\ TaskShape(task'[u])
                                                /\ task'[u].old = {} /\ ~task'[u].clean)
    BY IdleTask
  <1>1. ShapeOK'
    BY <1>0 DEF ShapeOK, TieredInv
  <1>2. AgeInRedis'
    BY EntryFacts DEF TieredInv, AgeOK, AgeInRedis
  <1>3. AgeInTasks'
    BY <1>0 DEF TieredInv, AgeOK, AgeInTasks, Carries
  <1>4. PurgedFromRedis'
    <2> SUFFICES ASSUME NEW k \in Keys, NEW i \in Ids, purged[k][i] # Never PROVE redis'[k].id # i
      BY DEF PurgedFromRedis
    <2> QED BY EntryFacts DEF TieredInv, PurgeOK, PurgedFromRedis
  <1>5. PurgedInTasks'
    BY <1>0 DEF TieredInv, PurgeOK, PurgedInTasks, Carries
  <1>6. OldNotStored' /\ CleanAlone'
    BY <1>0, NobodyNew DEF TieredInv, JobsOK, Request, Lookups
  <1>7. OldDeleted'
    <2> SUFFICES ASSUME NEW t \in Tasks, NEW k \in Keys, NEW i \in Ids, <<k, i>> \in task'[t].old,
                        task'[t].pc # "del", k \notin Pending(task'[t])
                 PROVE  redis'[k].id # i
      BY DEF OldDeleted
    <2>1. redis[k].id # i
      BY <1>0 DEF TieredInv, JobsOK, OldDeleted
    <2> QED BY <2>1, EntryFacts
  <1>8. CleanRedis'
    BY <1>0 DEF TieredInv, JobsOK, CleanRedis
  <1> QED BY <1>1, <1>2, <1>3, <1>4, <1>5, <1>6, <1>7, <1>8

\* Steps that only forget: entries go, or their expiry; tasks end.
LEMMA LossStep ==
    ASSUME TieredInv,
           \A g \in Gateways, k \in Keys :
               l0'[g][k] \in {l0[g][k], None} \/ (l0[g][k] # None /\ l0'[g][k] \notin Entry),
           \A k \in Keys : redis'[k] \in {redis[k], None},
           \A u \in Tasks : task'[u] \in {task[u], Idle},
           age' = age, purged' = purged
    PROVE  ShapeOK' /\ AgeOK' /\ PurgeOK' /\ JobsOK'
  <1>1. AgeInL0'
    BY EntryFacts DEF TieredInv, AgeOK, AgeInL0
  <1>2. PurgedInL0'
    BY EntryFacts DEF TieredInv, PurgeOK, PurgedInL0
  <1>3. CleanL0'
    <2> SUFFICES ASSUME NEW t \in Tasks, NEW k \in Keys, task'[t].clean, k \in task'[t].scope
                 PROVE  l0'[task'[t].gw][k] = None
      BY DEF CleanL0
    <2>1. task'[t] = task[t] /\ l0[task[t].gw][k] = None
      BY IdleTask DEF TieredInv, JobsOK, CleanL0
    <2>2. task[t].gw \in Gateways
      BY <2>1 DEF TieredInv, ShapeOK, TaskShape
    <2> QED BY <2>1, <2>2
  <1> QED BY <1>1, <1>2, <1>3, LossOutsideL0 DEF AgeOK, PurgeOK, JobsOK

\* A task ends.
LEMMA Ended ==
    ASSUME TieredInv, NEW t \in Tasks, End(t)
    PROVE  /\ task' \in [Tasks -> TaskRecord]
           /\ task'[t] = Idle /\ \A u \in Tasks : u # t => task'[u] = task[u]
           /\ \A u \in Tasks : task'[u] \in {task[u], Idle}
  BY IdleTask, TypesOfTasks DEF TieredInv, End

\* The flag is left alone and no full invalidation begins.
LEMMA FlagKept ==
    ASSUME OneFullScan, flag' = flag,
           \A u \in Tasks : task'[u].kind = "all" =>
               task[u].kind = "all" /\ task'[u].gw = task[u].gw
    PROVE  OneFullScan'
  BY DEF OneFullScan

\* Steps of one task that leave L0, ages and purges alone, and are not the
\* beginning of a request; entries may go from Redis.
LEMMA TaskStep ==
    ASSUME TieredInv, NEW t \in Tasks, NEW j, TaskShape(j), task' = [task EXCEPT ![t] = j],
           UNCHANGED <<l0, age, purged>>, \A k \in Keys : redis'[k] \in {redis[k], None},
           j.pc # "setex",
           j.pc \in Lookups => Request(t) /\ j.gw = task[t].gw /\ j.scope = task[t].scope,
           \A k \in Keys, i \in Ids : Carries(j, "promote", k, i) =>
               age[k][i] < MaxTtl + Lag + j.for /\ purged[k][i] <= j.for,
           j.old \subseteq task[t].old,
           j.clean => task[t].clean /\ j.gw = task[t].gw /\ j.scope = task[t].scope,
           \A k \in Keys, i \in Ids :
               (<<k, i>> \in j.old /\ j.pc # "del" /\ k \notin Pending(j)) => redis'[k].id # i,
           \A k \in Keys :
               (j.clean /\ k \in j.scope /\ j.pc # "del" /\ k \notin Pending(j)) => redis'[k] = None
    PROVE  ShapeOK' /\ AgeOK' /\ PurgeOK' /\ JobsOK'
  <1>0. task'[t] = j /\ \A u \in Tasks : u # t => task'[u] = task[u]
    BY TypesOfTasks DEF TieredInv
  <1>1. ShapeOK'
    BY <1>0 DEF TieredInv, ShapeOK
  <1>2. AgeInL0' /\ AgeInRedis'
    BY EntryFacts DEF TieredInv, AgeOK, AgeInL0, AgeInRedis
  <1>3. AgeInTasks'
    BY <1>0 DEF TieredInv, AgeOK, AgeInTasks, Carries
  <1>4. PurgedFromRedis' /\ PurgedInL0'
    <2>1. PurgedInL0'
      BY DEF TieredInv, PurgeOK, PurgedInL0
    <2>2. ASSUME NEW k \in Keys, NEW i \in Ids, purged[k][i] # Never PROVE redis'[k].id # i
      BY <2>2, EntryFacts DEF TieredInv, PurgeOK, PurgedFromRedis
    <2> QED BY <2>1, <2>2 DEF PurgedFromRedis
  <1>5. PurgedInTasks'
    BY <1>0 DEF TieredInv, PurgeOK, PurgedInTasks, Carries
  <1>6. OldNotStored' /\ CleanAlone'
    BY <1>0, NobodyNew DEF TieredInv, JobsOK, Request
  <1>7. OldDeleted'
    <2> SUFFICES ASSUME NEW u \in Tasks, NEW k \in Keys, NEW i \in Ids, <<k, i>> \in task'[u].old,
                        task'[u].pc # "del", k \notin Pending(task'[u]), u # t
                 PROVE  redis'[k].id # i
      BY <1>0 DEF OldDeleted
    <2>1. redis[k].id # i
      BY <1>0 DEF TieredInv, JobsOK, OldDeleted
    <2> QED BY <2>1, EntryFacts
  <1>8. CleanL0'
    BY <1>0 DEF TieredInv, JobsOK, CleanL0
  <1>9. CleanRedis'
    BY <1>0 DEF TieredInv, JobsOK, CleanRedis
  <1> QED BY <1>1, <1>2, <1>3, <1>4, <1>5, <1>6, <1>7, <1>8, <1>9 DEF AgeOK, PurgeOK, JobsOK

\* The end of a job: what it purges is gone from Redis.
LEMMA JobReturns ==
    ASSUME TieredInv, NEW t \in Tasks, NEW job \in TaskRecord, Return(t, job),
           task[t].pc \in {"del", "scan"}, UNCHANGED <<l0, age>>,
           job \in {task[t], Incomplete(task[t])},
           \A k \in Keys : redis'[k] \in {redis[k], None},
           \A k \in Keys, i \in Ids : <<k, i>> \in job.old => redis'[k].id # i,
           \A k \in Keys : job.clean /\ k \in job.scope => redis'[k] = None
    PROVE  task' \in [Tasks -> TaskRecord] /\ ShapeOK' /\ AgeOK' /\ PurgeOK' /\ JobsOK'
           /\ purged' \in [Keys -> [Ids -> Nat \cup {Never}]]
           /\ \A u \in Tasks : task'[u].kind = task[u].kind /\ task'[u].gw = task[u].gw
  <1> DEFINE j == [job EXCEPT !.pc = "done", !.left = {}, !.old = {}]
  <1>1. /\ job.gw = task[t].gw /\ job.scope = task[t].scope /\ job.kind = task[t].kind
        /\ job.found = task[t].found /\ job.id = task[t].id
        /\ job.old \subseteq task[t].old /\ (job.clean => task[t].clean)
    BY TypesOfTasks DEF TieredInv, Incomplete, TaskRecord
  <1>2. /\ j \in TaskRecord /\ j.pc = "done" /\ j.left = {} /\ j.old = {} /\ j.gw = job.gw
        /\ j.scope = job.scope /\ j.kind = job.kind /\ j.found = job.found /\ j.id = job.id
        /\ j.clean => job.clean
    BY DEF TaskRecord, Jobs
  <1>3. task' = [task EXCEPT ![t] = j]
    BY DEF Return
  <1> HIDE DEF j
  <1>4. /\ task' \in [Tasks -> TaskRecord] /\ task'[t] = j
        /\ \A u \in Tasks : u # t => task'[u] = task[u]
    BY <1>2, <1>3, TypesOfTasks DEF TieredInv
  <1>5. TaskShape(j)
    BY <1>1, <1>2 DEF TieredInv, ShapeOK, TaskShape, Jobs, Lookups
  <1>6. ShapeOK'
    BY <1>4, <1>5 DEF TieredInv, ShapeOK
  <1>7. /\ purged' \in [Keys -> [Ids -> Nat \cup {Never}]]
        /\ \A k \in Keys, i \in Ids :
              \/ purged'[k][i] = purged[k][i]
              \/ purged'[k][i] = 0 /\ purged[k][i] = Never /\ <<k, i>> \in task[t].old
                                   /\ redis'[k].id # i
    <2>1. purged \in [Keys -> [Ids -> Nat \cup {Never}]]
      BY TypesOfTasks DEF TieredInv
    <2>2. purged' = [k \in Keys |-> [i \in Ids |->
                       IF <<k, i>> \in job.old /\ purged[k][i] = Never
                       THEN 0 ELSE purged[k][i]]]
      BY DEF Return
    <2>3. purged' \in [Keys -> [Ids -> Nat \cup {Never}]]
      BY <2>1, <2>2
    <2>4. ASSUME NEW k \in Keys, NEW i \in Ids, purged'[k][i] # purged[k][i]
          PROVE  purged'[k][i] = 0 /\ purged[k][i] = Never /\ <<k, i>> \in job.old
      BY <2>2, <2>4
    <2> QED BY <2>3, <2>4, <1>1
  <1>8. AgeInL0'
    BY DEF TieredInv, AgeOK, AgeInL0
  <1>9. AgeInRedis'
    BY EntryFacts DEF TieredInv, AgeOK, AgeInRedis
  <1>10. AgeInTasks'
    BY <1>2, <1>4 DEF TieredInv, AgeOK, AgeInTasks, Carries
  <1>11. PurgedFromRedis'
    <2> SUFFICES ASSUME NEW k \in Keys, NEW i \in Ids, purged'[k][i] # Never PROVE redis'[k].id # i
      BY DEF PurgedFromRedis
    <2>1. CASE purged'[k][i] = purged[k][i]
      BY <2>1, EntryFacts DEF TieredInv, PurgeOK, PurgedFromRedis
    <2> QED BY <2>1, <1>7
  <1>12. PurgedInTasks'
    <2> SUFFICES ASSUME NEW u \in Tasks, NEW k \in Keys, NEW i \in Ids
                 PROVE  /\ Carries(task'[u], "setex", k, i) => purged'[k][i] = Never
                        /\ Carries(task'[u], "promote", k, i) => purged'[k][i] <= task'[u].for
      BY DEF PurgedInTasks
    <2>1. CASE u = t
      BY <1>2, <1>4, <2>1 DEF Carries
    <2>2. CASE u # t
      <3>1. task'[u] = task[u] /\ task[u].for \in Nat
        BY <1>4, <2>2, TypesOfTasks, TieredAssumption DEF TieredInv, TaskRecord
      <3>2. CASE purged'[k][i] = purged[k][i]
        BY <3>1, <3>2 DEF TieredInv, PurgeOK, PurgedInTasks
      <3>3. CASE purged'[k][i] = 0 /\ <<k, i>> \in task[t].old
        BY <3>1, <3>3 DEF TieredInv, JobsOK, OldNotStored
      <3> QED BY <3>2, <3>3, <1>7
    <2> QED BY <2>1, <2>2
  <1>13. PurgedInL0'
    <2> SUFFICES ASSUME NEW g \in Gateways, NEW k \in Keys, l0[g][k] \in Entry
                 PROVE  purged'[k][l0[g][k].id] + l0[g][k].left <= MaxTtl + Lag
      BY DEF PurgedInL0
    <2>1. l0[g][k].id \in Ids /\ l0[g][k].left \in 1..MaxTtl
      BY EntryFacts, TypesOfTasks DEF TieredInv
    <2>2. purged[k][l0[g][k].id] + l0[g][k].left <= MaxTtl + Lag
      BY DEF TieredInv, PurgeOK, PurgedInL0
    <2>3. CASE purged'[k][l0[g][k].id] = purged[k][l0[g][k].id]
      BY <2>2, <2>3
    <2>4. CASE purged'[k][l0[g][k].id] = 0
      BY <2>1, <2>4, TieredAssumption
    <2> QED BY <2>1, <2>3, <2>4, <1>7
  <1>14. OldNotStored' /\ CleanAlone'
    <2>1. ~Request(t)' /\ task'[t].old = {} /\ (task'[t].clean => task[t].clean)
          /\ task'[t].gw = task[t].gw /\ task'[t].scope = task[t].scope
      BY <1>1, <1>2, <1>4 DEF Request, Lookups
    <2>2. \A u \in Tasks : u # t => task'[u] = task[u] /\ (Request(u)' <=> Request(u))
      BY <1>4 DEF Request
    <2> QED BY <2>1, <2>2, NobodyNew DEF TieredInv, JobsOK
  <1>15. OldDeleted'
    <2> SUFFICES ASSUME NEW u \in Tasks, NEW k \in Keys, NEW i \in Ids, <<k, i>> \in task'[u].old,
                        task'[u].pc # "del", k \notin Pending(task'[u])
                 PROVE  redis'[k].id # i
      BY DEF OldDeleted
    <2>1. task'[u] = task[u]
      BY <1>2, <1>4
    <2>2. redis[k].id # i
      BY <2>1 DEF TieredInv, JobsOK, OldDeleted
    <2> QED BY <2>2, EntryFacts
  <1>16. CleanL0'
    <2>1. \A u \in Tasks : /\ task'[u].clean => task[u].clean
                            /\ task'[u].gw = task[u].gw /\ task'[u].scope = task[u].scope
      BY <1>1, <1>2, <1>4
    <2> QED BY <2>1 DEF TieredInv, JobsOK, CleanL0
  <1>17. CleanRedis'
    BY <1>2, <1>4 DEF TieredInv, JobsOK, CleanRedis
  <1>18. \A u \in Tasks : task'[u].kind = task[u].kind /\ task'[u].gw = task[u].gw
    BY <1>1, <1>2, <1>4
  <1> QED BY <1>4, <1>6, <1>7, <1>8, <1>9, <1>10, <1>11, <1>12, <1>13, <1>14, <1>15, <1>16,
             <1>17, <1>18 DEF AgeOK, PurgeOK, JobsOK

\* One place of one L0 is written.
LEMMA L0Written ==
    ASSUME l0 \in [Gateways -> [Keys -> Held \cup {None}]],
           NEW g \in Gateways, NEW k \in Keys, NEW e \in Held \cup {None},
           l0' = [l0 EXCEPT ![g][k] = e]
    PROVE  /\ l0' \in [Gateways -> [Keys -> Held \cup {None}]]
           /\ l0'[g][k] = e
           /\ \A h \in Gateways, j \in Keys : ~(h = g /\ j = k) => l0'[h][j] = l0[h][j]
  <1> DEFINE row == [l0[g] EXCEPT ![k] = e]
  <1>1. row \in [Keys -> Held \cup {None}] /\ row[k] = e /\ \A j \in Keys : j # k => row[j] = l0[g][j]
    OBVIOUS
  <1>2. l0' = [l0 EXCEPT ![g] = row]
    OBVIOUS
  <1> HIDE DEF row
  <1>3. /\ l0' \in [Gateways -> [Keys -> Held \cup {None}]] /\ l0'[g] = row
        /\ \A h \in Gateways : h # g => l0'[h] = l0[h]
    BY <1>1, <1>2
  <1> QED BY <1>1, <1>3

\* A task disturbed, or not: the same but for clean, and for what is old.
Same(a, b) ==
    /\ a.pc = b.pc /\ a.kind = b.kind /\ a.gw = b.gw /\ a.scope = b.scope /\ a.id = b.id
    /\ a.for = b.for /\ a.left = b.left /\ a.found = b.found /\ a.old \subseteq b.old

LEMMA SameShape ==
    ASSUME NEW a, NEW b, Same(a, b), a.clean => b.clean, TaskShape(b)
    PROVE  TaskShape(a)
  BY DEF Same, TaskShape

\* How long a request has been at work is no part of its shape.
LEMMA AgedShape ==
    ASSUME NEW a, NEW b, TaskShape(b),
           a.pc = b.pc, a.kind = b.kind, a.gw = b.gw, a.scope = b.scope, a.id = b.id,
           a.left = b.left, a.found = b.found, a.old = b.old, a.clean => b.clean
    PROVE  TaskShape(a)
  BY DEF TaskShape

LEMMA DisturbedTasks ==
    ASSUME NEW f \in [Tasks -> TaskRecord], NEW kind, NEW g, NEW k
    PROVE  /\ Disturbed(f, kind, g, k) \in [Tasks -> TaskRecord]
           /\ \A u \in Tasks : Same(Disturbed(f, kind, g, k)[u], f[u])
           /\ \A u \in Tasks : Disturbed(f, kind, g, k)[u].clean =>
                 /\ f[u].clean
                 /\ ~(k \in f[u].scope /\ (kind = "setex" \/ (kind \in Lookups /\ g = f[u].gw)))
  <1> DEFINE d(u) == [f[u] EXCEPT !.clean = @ /\ ~Disturbs(kind, g, k, f[u])]
  <1>1. ASSUME NEW u \in Tasks
        PROVE  /\ d(u) \in TaskRecord /\ Same(d(u), f[u])
               /\ d(u).clean => f[u].clean /\ ~Disturbs(kind, g, k, f[u])
    <2>1. f[u] \in TaskRecord
      OBVIOUS
    <2>2. (f[u].clean /\ ~Disturbs(kind, g, k, f[u])) \in BOOLEAN
      OBVIOUS
    <2> QED BY <2>1, <2>2 DEF TaskRecord, Same
  <1>2. Disturbed(f, kind, g, k) = [u \in Tasks |-> d(u)]
    BY DEF Disturbed
  <1> HIDE DEF d
  <1> QED BY <1>1, <1>2 DEF Disturbs

-----------------------------------------------------------------------------
\* The initial state satisfies the invariant.
LEMMA TieredInvInit == TieredInit => TieredInv
  <1> SUFFICES ASSUME TieredInit PROVE TieredInv
    OBVIOUS
  <1> USE IdleTask, EntryFacts DEF TieredInit
  <1>1. TieredTypeOK
    BY TypesOfTasks
  <1>2. ShapeOK
    BY DEF ShapeOK
  <1>3. AgeOK
    BY DEF AgeOK, AgeInL0, AgeInRedis, AgeInTasks, Carries
  <1>4. PurgeOK
    BY DEF PurgeOK, PurgedFromRedis, PurgedInTasks, PurgedInL0, Carries
  <1>5. JobsOK
    BY DEF JobsOK, OldNotStored, OldDeleted, CleanL0, CleanAlone, CleanRedis
  <1>6. OneFullScan
    BY DEF OneFullScan
  <1> QED BY <1>1, <1>2, <1>3, <1>4, <1>5, <1>6 DEF TieredInv

\* Lookups that end without an entry, cancelled invalidations, evictions.
LEMMA ForgetSteps ==
    ASSUME TieredInv, NEW t \in Tasks,
           RedisMiss(t) \/ DeleteBad(t) \/ Cancelled(t)
    PROVE  TieredInv'
  <1>1. End(t) /\ UNCHANGED <<l0, flag, age, purged>>
    BY DEF RedisMiss, DeleteBad, Cancelled
  <1>2. redis' \in [Keys -> Entry \cup {None, Corrupt}] /\ \A k \in Keys : redis'[k] \in {redis[k], None}
    BY TypesOfTasks DEF RedisMiss, DeleteBad, Cancelled, TieredInv
  <1>3. TieredTypeOK'
    BY <1>1, <1>2, Ended, TypesOfTasks DEF TieredInv, TieredTypeOK, TaskRecord
  <1>4. ShapeOK' /\ AgeOK' /\ PurgeOK' /\ JobsOK'
    BY <1>1, <1>2, Ended, LossStep
  <1>5. OneFullScan'
    BY <1>1, Ended, IdleTask, FlagKept DEF TieredInv
  <1> QED BY <1>3, <1>4, <1>5 DEF TieredInv

LEMMA FinishStep ==
    ASSUME TieredInv, NEW t \in Tasks, Finish(t)
    PROVE  TieredInv'
  <1>1. End(t) /\ UNCHANGED <<l0, redis, age, purged>>
    BY DEF Finish
  <1>2. task[t].gw \in Gateways /\ flag' = [flag EXCEPT ![task[t].gw] = @ /\ task[t].kind # "all"]
    BY DEF Finish, TieredInv, ShapeOK, TaskShape
  <1>3. TieredTypeOK'
    BY <1>1, <1>2, Ended, TypesOfTasks DEF TieredInv, TieredTypeOK, TaskRecord
  <1>4. ShapeOK' /\ AgeOK' /\ PurgeOK' /\ JobsOK'
    BY <1>1, Ended, LossStep
  <1>5. OneFullScan'
    <2>1. ASSUME NEW u \in Tasks, task'[u].kind = "all"
          PROVE  u # t /\ task'[u] = task[u] /\ flag[task[u].gw]
      BY <2>1, <1>1, Ended, IdleTask DEF TieredInv, OneFullScan
    <2>2. ASSUME NEW u \in Tasks, task'[u].kind = "all" PROVE flag'[task'[u].gw]
      <3>1. task[u].gw \in Gateways
        BY <2>1, <2>2 DEF TieredInv, ShapeOK, TaskShape, Jobs
      <3>2. ~(task[t].kind = "all" /\ task[t].gw = task[u].gw)
        BY <2>1, <2>2 DEF TieredInv, OneFullScan
      <3> QED BY <1>2, <2>1, <2>2, <3>1, <3>2, TypesOfTasks DEF TieredInv
    <2> QED BY <2>1, <2>2 DEF TieredInv, OneFullScan
  <1> QED BY <1>3, <1>4, <1>5 DEF TieredInv

LEMMA EvictSteps ==
    ASSUME TieredInv, NEW k \in Keys,
           EvictRedis(k) \/ \E g \in Gateways : EvictL0(g, k) \/ HitL0(g, k)
    PROVE  TieredInv'
  <1>1. /\ l0' \in [Gateways -> [Keys -> Held \cup {None}]]
        /\ \A g \in Gateways, j \in Keys :
              l0'[g][j] \in {l0[g][j], None} \/ (l0[g][j] # None /\ l0'[g][j] \notin Entry)
    <2>1. CASE EvictRedis(k)
      BY <2>1, TypesOfTasks DEF TieredInv, EvictRedis
    <2>2. ASSUME NEW g \in Gateways, EvictL0(g, k)
          PROVE  /\ l0' \in [Gateways -> [Keys -> Held \cup {None}]]
                 /\ \A h \in Gateways, j \in Keys : l0'[h][j] \in {l0[h][j], None}
      <3>1. l0 \in [Gateways -> [Keys -> Held \cup {None}]]
        BY TypesOfTasks DEF TieredInv
      <3> QED BY <2>2, <3>1, L0Written DEF EvictL0
    <2>3. ASSUME NEW g \in Gateways, HitL0(g, k)
          PROVE  /\ l0' \in [Gateways -> [Keys -> Held \cup {None}]]
                 /\ \A h \in Gateways, j \in Keys :
                       l0'[h][j] = l0[h][j] \/ (l0[h][j] # None /\ l0'[h][j] \notin Entry)
      <3> DEFINE e == [id |-> l0[g][k].id, left |-> Forever]
      <3>1. l0 \in [Gateways -> [Keys -> Held \cup {None}]] /\ l0[g][k] \in Held
        BY <2>3, TypesOfTasks DEF TieredInv, HitL0
      <3>2. e \in Held /\ e \notin Entry
        BY <3>1, EntryFacts, TieredAssumption DEF Held, Entry, Forever
      <3>3. l0[g][k] # None /\ l0' = [l0 EXCEPT ![g][k] = e]
        BY <2>3 DEF HitL0
      <3> HIDE DEF e
      <3> QED BY <3>1, <3>2, <3>3, L0Written
    <2> QED BY <2>1, <2>2, <2>3
  <1>2. /\ redis' \in [Keys -> Entry \cup {None, Corrupt}]
        /\ \A j \in Keys : redis'[j] \in {redis[j], None}
    BY TypesOfTasks DEF TieredInv, EvictRedis, EvictL0, HitL0
  <1>3. UNCHANGED <<flag, task, age, purged>>
    BY DEF EvictRedis, EvictL0, HitL0
  <1>4. TieredTypeOK'
    BY <1>1, <1>2, <1>3 DEF TieredInv, TieredTypeOK
  <1>5. ShapeOK' /\ AgeOK' /\ PurgeOK' /\ JobsOK'
    BY <1>1, <1>2, <1>3, LossStep
  <1>6. OneFullScan'
    BY <1>3 DEF TieredInv, OneFullScan
  <1> QED BY <1>4, <1>5, <1>6 DEF TieredInv

-----------------------------------------------------------------------------
\* The entry read from Redis was not purged, and has at least a moment left.
LEMMA RedisHitStep ==
    ASSUME TieredInv, NEW t \in Tasks, RedisHit(t)
    PROVE  TieredInv'
  <1> DEFINE k == KeyOf(t)
             j == [task[t] EXCEPT !.pc = "promote", !.id = redis[k].id]
  <1>1. /\ task[t] \in TaskRecord /\ TaskShape(task[t]) /\ task[t].pc = "lookup"
        /\ task \in [Tasks -> TaskRecord]
    BY TypesOfTasks DEF TieredInv, ShapeOK, RedisHit
  <1>2. k \in Keys /\ task[t].scope = {k}
    BY <1>1, KeyOfTask DEF Lookups
  <1> HIDE DEF k
  <1>3. redis[k] \in Entry
    BY <1>2, TypesOfTasks DEF TieredInv, RedisHit, k
  <1>4. redis[k].id \in Ids /\ redis[k].left \in 1..MaxTtl
    BY <1>3, EntryFacts
  <1>5. /\ j \in TaskRecord /\ j.pc = "promote" /\ j.id = redis[k].id /\ j.scope = {k}
        /\ j.gw = task[t].gw /\ j.kind = task[t].kind /\ j.for = task[t].for /\ j.for \in Nat
        /\ j.old = task[t].old /\ (j.clean => task[t].clean) /\ j.found = task[t].found
    <2>1. task[t].for \in Nat
      BY <1>1, TieredAssumption DEF TaskRecord
    <2>2. redis[k].id \in Ids \cup {"none"} /\ "promote" \in Lookups
      BY <1>4 DEF Lookups
    <2>3. j \in TaskRecord
      BY <1>1, <2>2 DEF TaskRecord
    <2> QED BY <1>1, <1>2, <2>1, <2>3 DEF TaskRecord
  <1>6. task' = [task EXCEPT ![t] = j] /\ UNCHANGED <<l0, redis, flag, age, purged>>
    BY DEF RedisHit, k
  <1> HIDE DEF j
  <1>7. TaskShape(j) /\ j.old = {} /\ ~j.clean
    BY <1>1, <1>2, <1>4, <1>5 DEF TaskShape, Lookups, Jobs
  <1>8. age[k][redis[k].id] < MaxTtl + Lag /\ purged[k][redis[k].id] = Never /\ age[k][redis[k].id] \in Nat
    <2>1. age[k][redis[k].id] + redis[k].left <= MaxTtl + Lag /\ age[k][redis[k].id] \in Nat
      BY <1>2, <1>4, TypesOfTasks DEF TieredInv, AgeOK, AgeInRedis
    <2>2. purged[k][redis[k].id] = Never
      BY <1>2, <1>4 DEF TieredInv, PurgeOK, PurgedFromRedis
    <2> QED BY <1>4, <2>1, <2>2, TieredAssumption
  <1>9. \A kk \in Keys, i \in Ids : Carries(j, "promote", kk, i) =>
            age[kk][i] < MaxTtl + Lag + j.for /\ purged[kk][i] <= j.for
    <2> SUFFICES ASSUME NEW kk \in Keys, NEW i \in Ids, Carries(j, "promote", kk, i)
                 PROVE  age[kk][i] < MaxTtl + Lag + j.for /\ purged[kk][i] <= j.for
      OBVIOUS
    <2>1. kk = k /\ i = redis[k].id
      BY <1>5 DEF Carries
    <2> QED BY <1>5, <1>8, <2>1, TieredAssumption DEF Never
  <1>10. ShapeOK' /\ AgeOK' /\ PurgeOK' /\ JobsOK'
    <2>1. Request(t)
      BY <1>1 DEF Request, Lookups
    <2> QED BY <1>1, <1>2, <1>5, <1>6, <1>7, <1>9, <2>1, TaskStep
  <1>11. task' \in [Tasks -> TaskRecord] /\ TieredTypeOK'
    BY <1>1, <1>5, <1>6, TypesOfTasks DEF TieredInv, TieredTypeOK, TaskRecord
  <1>12. OneFullScan'
    BY <1>1, <1>5, <1>6, FlagKept DEF TieredInv
  <1> QED BY <1>10, <1>11, <1>12 DEF TieredInv

LEMMA RedisBadStep ==
    ASSUME TieredInv, NEW t \in Tasks, RedisBad(t)
    PROVE  TieredInv'
  <1> DEFINE j == [task[t] EXCEPT !.pc = "delbad"]
  <1>1. /\ task[t] \in TaskRecord /\ TaskShape(task[t]) /\ task[t].pc = "lookup"
        /\ task \in [Tasks -> TaskRecord]
    BY TypesOfTasks DEF TieredInv, ShapeOK, RedisBad
  <1>2. /\ j \in TaskRecord /\ j.pc = "delbad" /\ j.id = task[t].id /\ j.scope = task[t].scope
        /\ j.gw = task[t].gw /\ j.kind = task[t].kind
        /\ j.old = task[t].old /\ (j.clean => task[t].clean) /\ j.found = task[t].found
    BY <1>1 DEF TaskRecord, Lookups
  <1>3. task' = [task EXCEPT ![t] = j] /\ UNCHANGED <<l0, redis, flag, age, purged>>
    BY DEF RedisBad, Step
  <1> HIDE DEF j
  <1>4. TaskShape(j) /\ j.old = {} /\ ~j.clean
    BY <1>1, <1>2 DEF TaskShape, Lookups, Jobs
  <1>5. ShapeOK' /\ AgeOK' /\ PurgeOK' /\ JobsOK'
    <2>1. Request(t)
      BY <1>1 DEF Request, Lookups
    <2>2. \A k \in Keys, i \in Ids : ~Carries(j, "promote", k, i)
      BY <1>2 DEF Carries
    <2> QED BY <1>2, <1>3, <1>4, <2>1, <2>2, TaskStep
  <1>6. TieredTypeOK'
    BY <1>1, <1>2, <1>3 DEF TieredInv, TieredTypeOK, TaskRecord
  <1>7. OneFullScan'
    BY <1>1, <1>2, <1>3, FlagKept DEF TieredInv
  <1> QED BY <1>5, <1>6, <1>7 DEF TieredInv

\* Promotion gives an entry one more time to live, no younger than it was.
LEMMA PromoteStep ==
    ASSUME TieredInv, NEW t \in Tasks, Promote(t)
    PROVE  TieredInv'
  <1>1. PICK ttl \in Ttls :
            /\ l0' = [l0 EXCEPT ![task[t].gw][KeyOf(t)] = [id |-> task[t].id, left |-> ttl]]
            /\ task[t].pc = "promote" /\ End(t) /\ UNCHANGED <<redis, flag, age, purged>>
    BY DEF Promote
  <1> DEFINE k == KeyOf(t)
             g == task[t].gw
             i == task[t].id
             e == [id |-> i, left |-> ttl]
  <1>2. TaskShape(task[t]) /\ task[t] \in TaskRecord
    BY TypesOfTasks DEF TieredInv, ShapeOK
  <1>3. /\ k \in Keys /\ task[t].scope = {k} /\ g \in Gateways /\ i \in Ids
        /\ task[t].for \in 0..Lag
    BY <1>1, <1>2, KeyOfTask DEF Lookups, TaskShape, TaskRecord
  <1>4. e \in Entry /\ e.id = i /\ e.left = ttl /\ ttl \in 1..MaxTtl
    BY <1>3, TieredAssumption DEF Entry
  <1>5. l0' = [l0 EXCEPT ![g][k] = e]
    BY <1>1
  <1> HIDE DEF k, g, i, e
  <1>6. /\ l0' \in [Gateways -> [Keys -> Held \cup {None}]]
        /\ l0'[g][k] = e
        /\ \A h \in Gateways, j \in Keys : ~(h = g /\ j = k) => l0'[h][j] = l0[h][j]
    <2>1. l0 \in [Gateways -> [Keys -> Held \cup {None}]] /\ e \in Held \cup {None}
      BY <1>4, EntryFacts, TypesOfTasks DEF TieredInv
    <2> QED BY <1>3, <1>5, <2>1, L0Written
  <1>7. TieredTypeOK'
    BY <1>1, <1>6, Ended, TypesOfTasks DEF TieredInv, TieredTypeOK, TaskRecord
  <1>8. Carries(task[t], "promote", k, i)
    BY <1>1, <1>3 DEF Carries, i
  <1>9. AgeInL0'
    <2>1. age[k][i] < MaxTtl + Lag + task[t].for /\ age[k][i] \in Nat
      BY <1>3, <1>8, TypesOfTasks DEF TieredInv, AgeOK, AgeInTasks
    <2>2. age[k][e.id] + e.left < 2 * MaxTtl + 2 * Lag
      BY <1>3, <1>4, <2>1, TieredAssumption
    <2> QED BY <1>1, <1>6, <2>2 DEF TieredInv, AgeOK, AgeInL0
  <1>10. PurgedInL0'
    <2>1. purged[k][i] <= task[t].for /\ purged[k][i] \in Nat \cup {Never}
      BY <1>3, <1>8, TypesOfTasks DEF TieredInv, PurgeOK, PurgedInTasks
    <2>2. purged[k][e.id] + e.left <= MaxTtl + Lag
      BY <1>3, <1>4, <2>1, TieredAssumption DEF Never
    <2> QED BY <1>1, <1>6, <2>2 DEF TieredInv, PurgeOK, PurgedInL0
  <1>11. CleanL0'
    <2> SUFFICES ASSUME NEW u \in Tasks, NEW j \in Keys, task'[u].clean, j \in task'[u].scope
                 PROVE  l0'[task'[u].gw][j] = None
      BY DEF CleanL0
    <2>1. task'[u] = task[u] /\ l0[task[u].gw][j] = None
      BY <1>1, Ended, IdleTask DEF TieredInv, JobsOK, CleanL0
    <2>2. task[u].gw \in Gateways
      BY <2>1 DEF TieredInv, ShapeOK, TaskShape
    <2>3. ~(task[u].gw = g /\ j = k)
      BY <1>1, <1>3, <2>1 DEF TieredInv, JobsOK, CleanAlone, Request, Lookups, g
    <2> QED BY <1>6, <2>1, <2>2, <2>3
  <1>12. /\ ShapeOK' /\ AgeInRedis' /\ AgeInTasks' /\ PurgedFromRedis' /\ PurgedInTasks'
         /\ OldNotStored' /\ OldDeleted' /\ CleanAlone' /\ CleanRedis'
    BY <1>1, Ended, LossOutsideL0
  <1>13. OneFullScan'
    BY <1>1, Ended, IdleTask, FlagKept DEF TieredInv
  <1> QED BY <1>7, <1>9, <1>10, <1>11, <1>12, <1>13 DEF TieredInv, AgeOK, PurgeOK, JobsOK

\* A lookup begins: it disturbs the invalidations of its key in its gateway.
LEMMA GetStep ==
    ASSUME TieredInv, NEW t \in Tasks, NEW g \in Gateways, NEW k \in Keys, Get(t, g, k)
    PROVE  TieredInv'
  <1> DEFINE j == [Idle EXCEPT !.pc = "lookup", !.gw = g, !.scope = {k}]
             started == [task EXCEPT ![t] = j]
  <1>0. task \in [Tasks -> TaskRecord]
    BY TypesOfTasks DEF TieredInv
  <1>1. /\ j \in TaskRecord /\ TaskShape(j) /\ j.pc = "lookup" /\ j.gw = g /\ j.scope = {k}
        /\ j.kind = "none" /\ j.old = {} /\ j.clean = FALSE
    BY IdleTask, TieredAssumption DEF Idle, TaskRecord, TaskShape, Lookups, Jobs, Kinds
  <1>2. task' = Disturbed(started, "lookup", g, k) /\ UNCHANGED <<l0, redis, flag, age, purged>>
    BY DEF Get
  <1> HIDE DEF j
  <1>3. started \in [Tasks -> TaskRecord] /\ started[t] = j /\ \A u \in Tasks : u # t => started[u] = task[u]
    BY <1>0, <1>1
  <1> HIDE DEF started
  <1>4. /\ task' \in [Tasks -> TaskRecord]
        /\ \A u \in Tasks : Same(task'[u], started[u])
        /\ \A u \in Tasks : task'[u].clean => started[u].clean /\ ~(k \in started[u].scope /\ g = started[u].gw)
    BY <1>2, <1>3, DisturbedTasks DEF Lookups
  <1>5. TieredTypeOK'
    BY <1>2, <1>4 DEF TieredInv, TieredTypeOK, TaskRecord
  <1>6. ShapeOK'
    BY <1>1, <1>3, <1>4, SameShape DEF TieredInv, ShapeOK
  <1>7. AgeInTasks' /\ PurgedInTasks'
    <2>1. AgeInTasks'
      BY <1>1, <1>2, <1>3, <1>4 DEF TieredInv, AgeOK, AgeInTasks, Carries, Same
    <2>2. PurgedInTasks'
      BY <1>1, <1>2, <1>3, <1>4 DEF TieredInv, PurgeOK, PurgedInTasks, Carries, Same
    <2> QED BY <2>1, <2>2
  <1>8. AgeInL0' /\ AgeInRedis' /\ PurgedInL0' /\ PurgedFromRedis'
    BY <1>2 DEF TieredInv, AgeOK, PurgeOK, AgeInL0, AgeInRedis, PurgedInL0, PurgedFromRedis
  <1>9. OldNotStored' /\ OldDeleted'
    <2>1. OldNotStored'
      BY <1>1, <1>3, <1>4 DEF TieredInv, JobsOK, OldNotStored, Carries, Same
    <2>2. OldDeleted'
      BY <1>1, <1>2, <1>3, <1>4 DEF TieredInv, JobsOK, OldDeleted, Pending, Same
    <2> QED BY <2>1, <2>2
  <1>10. \A u \in Tasks : task'[u].clean => u # t /\ task[u].clean /\ ~(k \in task[u].scope /\ g = task[u].gw)
                                            /\ Same(task'[u], task[u])
    BY <1>1, <1>3, <1>4
  <1>11. CleanL0' /\ CleanRedis'
    <2>1. CleanL0'
      BY <1>2, <1>10 DEF TieredInv, JobsOK, CleanL0, Same
    <2>2. CleanRedis'
      BY <1>2, <1>10 DEF TieredInv, JobsOK, CleanRedis, Pending, Same
    <2> QED BY <2>1, <2>2
  <1>12. CleanAlone'
    <2> SUFFICES ASSUME NEW v \in Tasks, NEW u \in Tasks, NEW kk \in Keys, task'[v].clean,
                        kk \in task'[v].scope, Request(u)', task'[u].scope = {kk}
                 PROVE  task'[u].pc # "setex" /\ task'[u].gw # task'[v].gw
      BY DEF CleanAlone
    <2>1. task[v].clean /\ kk \in task[v].scope /\ task'[v].gw = task[v].gw
      BY <1>10 DEF Same
    <2>2. CASE u = t
      <3>0. kk \in task'[u].scope
        OBVIOUS
      <3>1. task'[u].pc = "lookup" /\ task'[u].gw = g /\ kk = k
        BY <1>1, <1>3, <1>4, <2>2, <3>0 DEF Same
      <3>2. g # task[v].gw
        BY <1>10, <2>1, <3>1
      <3> QED BY <2>1, <3>1, <3>2
    <2>3. CASE u # t
      BY <1>3, <1>4, <2>1, <2>3 DEF TieredInv, JobsOK, CleanAlone, Request, Same
    <2> QED BY <2>2, <2>3
  <1>13. OneFullScan'
    <2>1. \A u \in Tasks : task'[u].kind = "all" => task[u].kind = "all" /\ task'[u].gw = task[u].gw
      BY <1>1, <1>3, <1>4 DEF Same
    <2> QED BY <1>2, <2>1, FlagKept DEF TieredInv
  <1> QED BY <1>5, <1>6, <1>7, <1>8, <1>9, <1>11, <1>12, <1>13 DEF TieredInv, AgeOK, PurgeOK, JobsOK

\* A store begins, of an entry nobody has: it disturbs every invalidation of its
\* key, and what is old no longer includes it.
LEMMA PutStep ==
    ASSUME TieredInv, NEW t \in Tasks, NEW g \in Gateways, NEW k \in Keys, Put(t, g, k)
    PROVE  TieredInv'
  <1> DEFINE j(i) == [Idle EXCEPT !.pc = "setex", !.gw = g, !.scope = {k}, !.id = i]
             noted(i) == Disturbed([task EXCEPT ![t] = j(i)], "setex", g, k)
             forgot(i) == [u \in Tasks |-> [noted(i)[u] EXCEPT !.old = @ \ {<<k, i>>}]]
  <1>1. PICK ttl \in Ttls, i \in Ids :
            /\ task[t].pc = "idle" /\ ~InUse(k, i)
            /\ l0' = [l0 EXCEPT ![g][k] = [id |-> i, left |-> ttl]]
            /\ age' = [age EXCEPT ![k][i] = 0]
            /\ purged' = [purged EXCEPT ![k][i] = Never]
            /\ task' = forgot(i)
            /\ UNCHANGED <<redis, flag>>
    BY DEF Put
  <1> DEFINE e == [id |-> i, left |-> ttl]
             started == [task EXCEPT ![t] = j(i)]
  <1>2. /\ task \in [Tasks -> TaskRecord] /\ l0 \in [Gateways -> [Keys -> Held \cup {None}]]
        /\ age \in [Keys -> [Ids -> Nat]] /\ purged \in [Keys -> [Ids -> Nat \cup {Never}]]
        /\ redis \in [Keys -> Entry \cup {None, Corrupt}]
    BY TypesOfTasks DEF TieredInv
  <1>3. e \in Entry /\ e.id = i /\ e.left = ttl /\ ttl \in 1..MaxTtl
    BY TieredAssumption DEF Entry
  <1>4. /\ j(i) \in TaskRecord /\ TaskShape(j(i)) /\ j(i).pc = "setex" /\ j(i).gw = g
        /\ j(i).scope = {k} /\ j(i).id = i /\ j(i).for = 0
        /\ j(i).kind = "none" /\ j(i).old = {} /\ j(i).clean = FALSE
    BY IdleTask, TieredAssumption DEF Idle, TaskRecord, TaskShape, Lookups, Jobs, Kinds
  <1>5. l0' = [l0 EXCEPT ![g][k] = e]
    BY <1>1
  <1> HIDE DEF j, e
  <1>6. started \in [Tasks -> TaskRecord] /\ started[t] = j(i)
        /\ \A u \in Tasks : u # t => started[u] = task[u]
    BY <1>2, <1>4
  <1>7. noted(i) = Disturbed(started, "setex", g, k)
    OBVIOUS
  <1> HIDE DEF started, noted
  <1>8. /\ noted(i) \in [Tasks -> TaskRecord]
        /\ \A u \in Tasks : Same(noted(i)[u], started[u])
        /\ \A u \in Tasks : noted(i)[u].clean => started[u].clean /\ k \notin started[u].scope
    BY <1>6, <1>7, DisturbedTasks
  <1>9. /\ task' \in [Tasks -> TaskRecord]
        /\ \A u \in Tasks : Same(task'[u], started[u])
        /\ \A u \in Tasks : task'[u].clean => started[u].clean /\ k \notin started[u].scope
        /\ \A u \in Tasks : <<k, i>> \notin task'[u].old
    <2>1. task' = [u \in Tasks |-> [noted(i)[u] EXCEPT !.old = @ \ {<<k, i>>}]]
      BY <1>1
    <2>2. ASSUME NEW u \in Tasks
          PROVE  /\ task'[u] \in TaskRecord
                 /\ Same(task'[u], noted(i)[u]) /\ (task'[u].clean => noted(i)[u].clean)
                 /\ <<k, i>> \notin task'[u].old
      <3>1. noted(i)[u] \in TaskRecord
        BY <1>8
      <3>2. task'[u] = [noted(i)[u] EXCEPT !.old = @ \ {<<k, i>>}]
        BY <2>1
      <3> QED BY <3>1, <3>2 DEF TaskRecord, Same
    <2>3. task' \in [Tasks -> TaskRecord]
      BY <2>1, <2>2
    <2> QED BY <1>8, <2>2, <2>3 DEF Same
  <1> HIDE DEF forgot
  <1>10. /\ redis[k].id # i
         /\ \A h \in Gateways : l0[h][k].id # i
         /\ \A u \in Tasks : ~(task[u].id = i /\ task[u].scope = {k})
    BY <1>1 DEF InUse
  <1>11. /\ l0' \in [Gateways -> [Keys -> Held \cup {None}]]
         /\ l0'[g][k] = e
         /\ \A h \in Gateways, kk \in Keys : ~(h = g /\ kk = k) => l0'[h][kk] = l0[h][kk]
    <2>1. e \in Held \cup {None}
      BY <1>3, EntryFacts
    <2> QED BY <1>2, <1>5, <2>1, L0Written
  <1>12. /\ age' \in [Keys -> [Ids -> Nat]] /\ age'[k][i] = 0
         /\ \A kk \in Keys, ii \in Ids : ~(kk = k /\ ii = i) => age'[kk][ii] = age[kk][ii]
    BY <1>1, <1>2
  <1>13. /\ purged' \in [Keys -> [Ids -> Nat \cup {Never}]] /\ purged'[k][i] = Never
         /\ \A kk \in Keys, ii \in Ids : ~(kk = k /\ ii = i) => purged'[kk][ii] = purged[kk][ii]
    BY <1>1, <1>2
  <1>14. TieredTypeOK'
    BY <1>1, <1>9, <1>11, <1>12, <1>13 DEF TieredInv, TieredTypeOK, TaskRecord
  <1>15. ShapeOK'
    BY <1>4, <1>6, <1>9, SameShape DEF TieredInv, ShapeOK
  <1>16. AgeInL0' /\ PurgedInL0'
    <2>1. ASSUME NEW h \in Gateways, NEW kk \in Keys, l0'[h][kk] \in Entry
          PROVE  /\ age'[kk][l0'[h][kk].id] + l0'[h][kk].left < 2 * MaxTtl + 2 * Lag
                 /\ purged'[kk][l0'[h][kk].id] + l0'[h][kk].left <= MaxTtl + Lag
      <3>1. CASE h = g /\ kk = k
        <4>1. age'[kk][l0'[h][kk].id] = 0 /\ purged'[kk][l0'[h][kk].id] = -1 /\ l0'[h][kk].left = ttl
          BY <3>1, <1>3, <1>11, <1>12, <1>13 DEF Never
        <4> QED BY <4>1, <1>3, TieredAssumption
      <3>2. CASE ~(h = g /\ kk = k)
        <4>1. l0'[h][kk] = l0[h][kk] /\ l0[h][kk] \in Entry /\ l0[h][kk].id \in Ids
          BY <2>1, <3>2, <1>2, <1>11, EntryFacts
        <4>2. ~(kk = k /\ l0[h][kk].id = i)
          BY <1>10
        <4>3. age'[kk][l0[h][kk].id] = age[kk][l0[h][kk].id]
              /\ purged'[kk][l0[h][kk].id] = purged[kk][l0[h][kk].id]
          BY <4>1, <4>2, <1>12, <1>13
        <4> QED BY <4>1, <4>3 DEF TieredInv, AgeOK, AgeInL0, PurgeOK, PurgedInL0
      <3> QED BY <3>1, <3>2
    <2> QED BY <2>1 DEF AgeInL0, PurgedInL0
  <1>17. AgeInRedis' /\ PurgedFromRedis'
    <2>1. AgeInRedis'
      BY <1>1, <1>10, <1>12 DEF TieredInv, AgeOK, AgeInRedis
    <2>2. PurgedFromRedis'
      BY <1>1, <1>13 DEF TieredInv, PurgeOK, PurgedFromRedis
    <2> QED BY <2>1, <2>2
  <1>18. AgeInTasks' /\ PurgedInTasks'
    <2>1. ASSUME NEW u \in Tasks, NEW kk \in Keys, NEW ii \in Ids
          PROVE  /\ Carries(task'[u], "setex", kk, ii) => age'[kk][ii] <= task'[u].for
                                                        /\ purged'[kk][ii] = Never
                 /\ Carries(task'[u], "promote", kk, ii) =>
                        age'[kk][ii] < MaxTtl + Lag + task'[u].for /\ purged'[kk][ii] <= task'[u].for
      <3>1. CASE u = t
        <4>1. task'[u].pc = "setex" /\ task'[u].scope = {k} /\ task'[u].id = i /\ task'[u].for = 0
          BY <3>1, <1>4, <1>6, <1>9 DEF Same
        <4>2. Carries(task'[u], "setex", kk, ii) => kk = k /\ ii = i
          <5>1. Carries(task'[u], "setex", kk, ii) => kk \in task'[u].scope /\ ii = task'[u].id
            BY DEF Carries
          <5> QED BY <4>1, <5>1
        <4>3. ~Carries(task'[u], "promote", kk, ii)
          BY <4>1 DEF Carries
        <4> QED BY <4>1, <4>2, <4>3, <1>12, <1>13
      <3>2. CASE u # t
        <4>1. Same(task'[u], task[u])
          BY <3>2, <1>6, <1>9
        <4>2. CASE kk = k /\ ii = i
          BY <4>1, <4>2, <1>10 DEF Carries, Same
        <4>3. CASE ~(kk = k /\ ii = i)
          <5>1. age'[kk][ii] = age[kk][ii] /\ purged'[kk][ii] = purged[kk][ii]
            BY <4>3, <1>12, <1>13
          <5> QED BY <5>1, <4>1 DEF TieredInv, AgeOK, AgeInTasks, PurgeOK, PurgedInTasks, Carries, Same
        <4> QED BY <4>2, <4>3
      <3> QED BY <3>1, <3>2
    <2> QED BY <2>1 DEF AgeInTasks, PurgedInTasks
  <1>19. OldNotStored' /\ OldDeleted'
    <2>1. \A u \in Tasks : task'[u].old # {} => Same(task'[u], task[u])
      BY <1>4, <1>6, <1>9 DEF Same
    <2>2. OldNotStored'
      <3> SUFFICES ASSUME NEW v \in Tasks, NEW u \in Tasks, NEW kk \in Keys, NEW ii \in Ids,
                          <<kk, ii>> \in task'[v].old
                   PROVE  ~Carries(task'[u], "setex", kk, ii)
        BY DEF OldNotStored
      <3>1. ~(kk = k /\ ii = i) /\ <<kk, ii>> \in task[v].old
        BY <1>9, <2>1 DEF Same
      <3>2. CASE u = t
        BY <3>1, <3>2, <1>4, <1>6, <1>9 DEF Same, Carries
      <3>3. CASE u # t
        BY <3>1, <3>3, <1>6, <1>9 DEF Same, Carries, TieredInv, JobsOK, OldNotStored
      <3> QED BY <3>2, <3>3
    <2>3. OldDeleted'
      BY <1>1, <2>1 DEF TieredInv, JobsOK, OldDeleted, Pending, Same
    <2> QED BY <2>2, <2>3
  <1>20. \A u \in Tasks : task'[u].clean => u # t /\ task[u].clean /\ k \notin task[u].scope
                                            /\ Same(task'[u], task[u])
    BY <1>4, <1>6, <1>9
  <1>21. CleanL0' /\ CleanRedis'
    <2>1. CleanL0'
      <3> SUFFICES ASSUME NEW u \in Tasks, NEW kk \in Keys, task'[u].clean, kk \in task'[u].scope
                   PROVE  l0'[task'[u].gw][kk] = None
        BY DEF CleanL0
      <3>1. task[u].clean /\ kk \in task[u].scope /\ kk # k /\ task'[u].gw = task[u].gw
        BY <1>20 DEF Same
      <3>2. task[u].gw \in Gateways
        BY <3>1 DEF TieredInv, ShapeOK, TaskShape
      <3> QED BY <1>11, <3>1, <3>2 DEF TieredInv, JobsOK, CleanL0
    <2>2. CleanRedis'
      BY <1>1, <1>20 DEF TieredInv, JobsOK, CleanRedis, Pending, Same
    <2> QED BY <2>1, <2>2
  <1>22. CleanAlone'
    <2> SUFFICES ASSUME NEW v \in Tasks, NEW u \in Tasks, NEW kk \in Keys, task'[v].clean,
                        kk \in task'[v].scope, Request(u)', task'[u].scope = {kk}
                 PROVE  task'[u].pc # "setex" /\ task'[u].gw # task'[v].gw
      BY DEF CleanAlone
    <2>1. task[v].clean /\ kk \in task[v].scope /\ task'[v].gw = task[v].gw /\ kk # k
      BY <1>20 DEF Same
    <2>2. CASE u = t
      BY <1>4, <1>6, <1>9, <2>1, <2>2 DEF Same
    <2>3. CASE u # t
      BY <1>6, <1>9, <2>1, <2>3 DEF TieredInv, JobsOK, CleanAlone, Request, Same
    <2> QED BY <2>2, <2>3
  <1>23. OneFullScan'
    <2>1. \A u \in Tasks : task'[u].kind = "all" => task[u].kind = "all" /\ task'[u].gw = task[u].gw
      BY <1>4, <1>6, <1>9 DEF Same
    <2> QED BY <1>1, <2>1, FlagKept DEF TieredInv
  <1> QED BY <1>14, <1>15, <1>16, <1>17, <1>18, <1>19, <1>21, <1>22, <1>23
             DEF TieredInv, AgeOK, PurgeOK, JobsOK

\* The entry stored in Redis is young, was not purged, and belongs to no
\* undisturbed invalidation.
LEMMA PutRedisStep ==
    ASSUME TieredInv, NEW t \in Tasks, PutRedis(t)
    PROVE  TieredInv'
  <1> DEFINE k == KeyOf(t)
             i == task[t].id
  <1>1. /\ task[t].pc = "setex" /\ End(t) /\ UNCHANGED <<l0, flag, age, purged>>
    BY DEF PutRedis
  <1>2. TaskShape(task[t]) /\ task[t] \in TaskRecord
    BY TypesOfTasks DEF TieredInv, ShapeOK
  <1>3. /\ k \in Keys /\ task[t].scope = {k} /\ i \in Ids /\ task[t].for \in 0..Lag
    BY <1>1, <1>2, KeyOfTask DEF TaskShape, TaskRecord
  <1>4. OneFullScan'
    BY <1>1, Ended, IdleTask, FlagKept DEF TieredInv
  <1>5. CASE redis' = redis
    <2>1. TieredTypeOK'
      BY <1>1, <1>5, Ended, TypesOfTasks DEF TieredInv, TieredTypeOK, TaskRecord
    <2>2. ShapeOK' /\ AgeOK' /\ PurgeOK' /\ JobsOK'
      BY <1>1, <1>5, Ended, LossStep
    <2> QED BY <1>4, <2>1, <2>2 DEF TieredInv
  <1>6. ASSUME NEW ttl \in Ttls, redis' = [redis EXCEPT ![k] = [id |-> i, left |-> ttl]]
        PROVE  TieredInv'
    <2> DEFINE e == [id |-> i, left |-> ttl]
    <2>1. e \in Entry /\ e.id = i /\ e.left = ttl /\ ttl \in 1..MaxTtl
      BY <1>3, TieredAssumption DEF Entry
    <2>2. redis' = [redis EXCEPT ![k] = e]
      BY <1>6
    <2> HIDE DEF e, k, i
    <2>3. /\ redis' \in [Keys -> Entry \cup {None, Corrupt}] /\ redis'[k] = e
          /\ \A kk \in Keys : kk # k => redis'[kk] = redis[kk]
      BY <1>3, <2>1, <2>2, TypesOfTasks DEF TieredInv
    <2>4. TieredTypeOK'
      BY <1>1, <2>3, Ended, TypesOfTasks DEF TieredInv, TieredTypeOK, TaskRecord
    <2>5. /\ \A u \in Tasks : task'[u].pc = "idle" \/ task'[u] = task[u]
          /\ \A u \in Tasks : TaskShape(task'[u])
          /\ \A u \in Tasks : task'[u].old # {} => task'[u] = task[u]
          /\ \A u \in Tasks : task'[u].clean => task'[u] = task[u]
      BY <1>1, Ended, IdleTask DEF TieredInv, ShapeOK
    <2>6. Carries(task[t], "setex", k, i)
      BY <1>1, <1>3 DEF Carries, i
    <2>7. ShapeOK'
      BY <2>5 DEF ShapeOK
    <2>8. AgeInL0' /\ AgeInTasks'
      BY <1>1, <2>5 DEF TieredInv, AgeOK, AgeInL0, AgeInTasks, Carries
    <2>9. AgeInRedis'
      <3>1. age[k][i] <= task[t].for /\ age[k][i] \in Nat
        BY <1>3, <2>6, TypesOfTasks DEF TieredInv, AgeOK, AgeInTasks
      <3>2. age[k][e.id] + e.left <= MaxTtl + Lag
        BY <1>3, <2>1, <3>1, TieredAssumption
      <3> QED BY <1>1, <2>3, <3>2 DEF TieredInv, AgeOK, AgeInRedis
    <2>10. PurgedFromRedis'
      <3>1. purged[k][i] = Never
        BY <1>3, <2>6 DEF TieredInv, PurgeOK, PurgedInTasks
      <3> QED BY <1>1, <2>1, <2>3, <3>1 DEF TieredInv, PurgeOK, PurgedFromRedis
    <2>11. PurgedInTasks' /\ PurgedInL0'
      BY <1>1, <2>5 DEF TieredInv, PurgeOK, PurgedInTasks, PurgedInL0, Carries
    <2>12. OldNotStored' /\ CleanAlone'
      BY <2>5, NobodyNew DEF TieredInv, JobsOK, Request, Lookups
    <2>13. OldDeleted'
      <3> SUFFICES ASSUME NEW u \in Tasks, NEW kk \in Keys, NEW ii \in Ids,
                          <<kk, ii>> \in task'[u].old, task'[u].pc # "del",
                          kk \notin Pending(task'[u])
                   PROVE  redis'[kk].id # ii
        BY DEF OldDeleted
      <3>1. task'[u] = task[u] /\ redis[kk].id # ii
        BY <2>5 DEF TieredInv, JobsOK, OldDeleted
      <3>2. ~(kk = k /\ ii = i)
        BY <2>6, <3>1, <1>3 DEF TieredInv, JobsOK, OldNotStored
      <3> QED BY <2>1, <2>3, <3>1, <3>2
    <2>14. CleanL0'
      BY <1>1, <2>5 DEF TieredInv, JobsOK, CleanL0
    <2>15. CleanRedis'
      <3> SUFFICES ASSUME NEW u \in Tasks, NEW kk \in Keys, task'[u].clean, kk \in task'[u].scope,
                          task'[u].pc # "del", kk \notin Pending(task'[u])
                   PROVE  redis'[kk] = None
        BY DEF CleanRedis
      <3>1. task'[u] = task[u] /\ redis[kk] = None
        BY <2>5 DEF TieredInv, JobsOK, CleanRedis
      <3>2. kk # k
        BY <1>1, <1>3, <3>1 DEF TieredInv, JobsOK, CleanAlone, Request
      <3> QED BY <2>3, <3>1, <3>2
    <2> QED BY <1>4, <2>4, <2>7, <2>8, <2>9, <2>10, <2>11, <2>12, <2>13, <2>14, <2>15
               DEF TieredInv, AgeOK, PurgeOK, JobsOK
  <1> QED BY <1>5, <1>6 DEF PutRedis

\* An invalidation is accepted; a full one only while the flag is down.
LEMMA AcceptStep ==
    ASSUME TieredInv, NEW t \in Tasks, NEW g \in Gateways, Accept(t, g)
    PROVE  TieredInv'
  <1>0. PICK kind \in Kinds \ {"none"} : \E scope \in Scopes(kind) :
            /\ task[t].pc = "idle"
            /\ kind = "all" => ~flag[g]
            /\ flag' = [flag EXCEPT ![g] = @ \/ kind = "all"]
            /\ task' = [task EXCEPT ![t] = [Idle EXCEPT !.pc = "lock", !.kind = kind, !.gw = g,
                                                        !.scope = scope]]
            /\ UNCHANGED <<l0, redis, age, purged>>
    BY DEF Accept
  <1>1. PICK scope \in Scopes(kind) :
            /\ task[t].pc = "idle"
            /\ kind = "all" => ~flag[g]
            /\ flag' = [flag EXCEPT ![g] = @ \/ kind = "all"]
            /\ task' = [task EXCEPT ![t] = [Idle EXCEPT !.pc = "lock", !.kind = kind, !.gw = g,
                                                        !.scope = scope]]
            /\ UNCHANGED <<l0, redis, age, purged>>
    BY <1>0
  <1> DEFINE j == [Idle EXCEPT !.pc = "lock", !.kind = kind, !.gw = g, !.scope = scope]
  <1>2. scope \in SUBSET Keys /\ (kind = "key" => \E k \in Keys : scope = {k})
    BY DEF Scopes
  <1>3. /\ j \in TaskRecord /\ j.pc = "lock" /\ j.kind = kind /\ j.gw = g /\ j.scope = scope
        /\ j.old = {} /\ j.clean = FALSE /\ j.id = "none" /\ j.found = {}
    <2>1. j \in TaskRecord
      BY <1>2, IdleTask DEF TaskRecord, Jobs
    <2> QED BY <2>1 DEF Idle
  <1>4. task' = [task EXCEPT ![t] = j]
    BY <1>1
  <1> HIDE DEF j
  <1>5. TaskShape(j)
    BY <1>2, <1>3, TieredAssumption DEF TaskShape, Jobs, Lookups, Kinds
  <1>6. ShapeOK' /\ AgeOK' /\ PurgeOK' /\ JobsOK'
    <2>1. \A k \in Keys, i \in Ids : ~Carries(j, "promote", k, i)
      BY <1>3 DEF Carries
    <2>2. j.pc # "setex" /\ j.pc \notin Lookups
      BY <1>3 DEF Lookups
    <2> QED BY <1>1, <1>3, <1>4, <1>5, <2>1, <2>2, TaskStep
  <1>7. TieredTypeOK'
    <2>1. flag' \in [Gateways -> BOOLEAN]
      BY <1>1, TypesOfTasks DEF TieredInv
    <2>2. task' \in [Tasks -> TaskRecord]
      BY <1>3, <1>4, TypesOfTasks DEF TieredInv
    <2> QED BY <1>1, <2>1, <2>2 DEF TieredInv, TieredTypeOK, TaskRecord
  <1>8. OneFullScan'
    <2>1. task'[t] = j /\ \A u \in Tasks : u # t => task'[u] = task[u]
      BY <1>4, TypesOfTasks DEF TieredInv
    <2>2. \A h \in Gateways : (flag[h] => flag'[h]) /\ (h = g /\ kind = "all" => flag'[h])
      BY <1>1, TypesOfTasks DEF TieredInv
    <2>3. \A u \in Tasks : task[u].kind = "all" => task[u].gw \in Gateways
      BY DEF TieredInv, ShapeOK, TaskShape, Jobs
    <2>4. \A u \in Tasks : task'[u].kind = "all" => flag'[task'[u].gw]
      BY <1>3, <2>1, <2>2, <2>3 DEF TieredInv, OneFullScan
    <2>5. kind = "all" => \A u \in Tasks : ~(task[u].kind = "all" /\ task[u].gw = g)
      BY <1>1 DEF TieredInv, OneFullScan
    <2> QED BY <1>3, <2>1, <2>4, <2>5 DEF TieredInv, OneFullScan
  <1> QED BY <1>6, <1>7, <1>8 DEF TieredInv

\* The job begins: L0 is cleared, and what is in use and not being stored is old.
LEMMA ClearL0Step ==
    ASSUME TieredInv, NEW t \in Tasks, ClearL0(t)
    PROVE  TieredInv'
  <1> DEFINE g == task[t].gw
             scope == task[t].scope
             isKey == task[t].kind = "key"
             j == [task[t] EXCEPT !.pc = IF isKey THEN "del" ELSE "scan",
                                  !.left = IF isKey THEN {} ELSE scope,
                                  !.old = Stored(scope), !.clean = Fresh(g, scope)]
  <1>1. /\ task[t] \in TaskRecord /\ TaskShape(task[t]) /\ task[t].pc = "lock"
        /\ task \in [Tasks -> TaskRecord] /\ l0 \in [Gateways -> [Keys -> Held \cup {None}]]
    BY TypesOfTasks DEF TieredInv, ShapeOK, ClearL0
  <1>2. g \in Gateways /\ scope \in SUBSET Keys /\ task[t].kind # "none" /\ task[t].id \notin Ids
        /\ task[t].found = {}
    BY <1>1 DEF TaskShape, TaskRecord, Jobs
  <1>3. Stored(scope) \in SUBSET (Keys \X Ids) /\ Fresh(g, scope) \in BOOLEAN
    BY <1>2 DEF Stored, Fresh
  <1>4. /\ task' = [task EXCEPT ![t] = j]
        /\ l0' = [l0 EXCEPT ![g] = [k \in Keys |-> IF k \in scope THEN None ELSE @[k]]]
        /\ UNCHANGED <<redis, flag, age, purged>>
    BY DEF ClearL0
  <1> HIDE DEF g, scope, isKey
  <1>5. /\ j \in TaskRecord /\ j.pc \in {"del", "scan"} /\ (isKey <=> j.pc = "del")
        /\ j.left = (IF isKey THEN {} ELSE scope) /\ j.old = Stored(scope)
        /\ (j.clean => Fresh(g, scope)) /\ j.gw = g /\ j.scope = scope /\ j.kind = task[t].kind
        /\ j.id = task[t].id /\ j.found = {}
    <2>1. /\ (IF isKey THEN "del" ELSE "scan") \in {"idle", "setex"} \cup Lookups \cup Jobs
          /\ (IF isKey THEN {} ELSE scope) \in SUBSET Keys
      BY <1>2 DEF Jobs
    <2>2. j \in TaskRecord
      BY <1>1, <1>3, <2>1 DEF TaskRecord
    <2> QED BY <1>1, <1>2, <2>2 DEF TaskRecord, g, scope
  <1> HIDE DEF j
  <1>6. TaskShape(j)
    <2>1. j.old \subseteq j.scope \X Ids
      BY <1>5 DEF Stored
    <2> QED BY <1>1, <1>2, <1>5, <2>1 DEF TaskShape, Jobs, Lookups, isKey, scope, g
  <1>7. /\ task' \in [Tasks -> TaskRecord] /\ task'[t] = j
        /\ \A u \in Tasks : u # t => task'[u] = task[u]
    BY <1>1, <1>4, <1>5
  <1>8. /\ l0' \in [Gateways -> [Keys -> Held \cup {None}]]
        /\ \A k \in scope : l0'[g][k] = None
        /\ \A h \in Gateways, k \in Keys : l0'[h][k] \in {l0[h][k], None}
    BY <1>1, <1>2, <1>4
  <1>9. TieredTypeOK'
    BY <1>4, <1>7, <1>8 DEF TieredInv, TieredTypeOK, TaskRecord
  <1>10. ShapeOK'
    BY <1>6, <1>7 DEF TieredInv, ShapeOK
  <1>11. AgeInL0' /\ PurgedInL0'
    BY <1>4, <1>8, EntryFacts DEF TieredInv, AgeOK, AgeInL0, PurgeOK, PurgedInL0
  <1>12. AgeInRedis' /\ PurgedFromRedis'
    BY <1>4 DEF TieredInv, AgeOK, AgeInRedis, PurgeOK, PurgedFromRedis
  <1>13. AgeInTasks' /\ PurgedInTasks'
    <2>1. \A k, i : ~Carries(j, "setex", k, i) /\ ~Carries(j, "promote", k, i)
      BY <1>5 DEF Carries
    <2>2. AgeInTasks'
      BY <1>4, <1>7, <2>1 DEF TieredInv, AgeOK, AgeInTasks
    <2>3. PurgedInTasks'
      BY <1>4, <1>7, <2>1 DEF TieredInv, PurgeOK, PurgedInTasks
    <2> QED BY <2>2, <2>3
  <1>14. OldNotStored'
    <2> SUFFICES ASSUME NEW v \in Tasks, NEW u \in Tasks, NEW k \in Keys, NEW i \in Ids,
                        <<k, i>> \in task'[v].old
                 PROVE  ~Carries(task'[u], "setex", k, i)
      BY DEF OldNotStored
    <2>1. CASE u = t
      BY <2>1, <1>5, <1>7 DEF Carries
    <2>2. CASE u # t /\ v = t
      <3>1. <<k, i>> \in Stored(scope)
        BY <2>2, <1>5, <1>7
      <3> QED BY <2>2, <3>1, <1>7 DEF Stored, Carries
    <2>3. CASE u # t /\ v # t
      BY <2>3, <1>7 DEF TieredInv, JobsOK, OldNotStored
    <2> QED BY <2>1, <2>2, <2>3
  <1>15. OldDeleted'
    <2> SUFFICES ASSUME NEW v \in Tasks, NEW k \in Keys, NEW i \in Ids, <<k, i>> \in task'[v].old,
                        task'[v].pc # "del", k \notin Pending(task'[v])
                 PROVE  redis'[k].id # i
      BY DEF OldDeleted
    <2>1. CASE v = t
      <3>1. <<k, i>> \in Stored(scope) /\ j.left = scope
        BY <2>1, <1>5, <1>7
      <3>2. k \in scope
        BY <3>1 DEF Stored
      <3> QED BY <2>1, <3>1, <3>2, <1>7 DEF Pending
    <2>2. CASE v # t
      BY <2>2, <1>4, <1>7 DEF TieredInv, JobsOK, OldDeleted
    <2> QED BY <2>1, <2>2
  <1>16. CleanL0'
    <2> SUFFICES ASSUME NEW v \in Tasks, NEW k \in Keys, task'[v].clean, k \in task'[v].scope
                 PROVE  l0'[task'[v].gw][k] = None
      BY DEF CleanL0
    <2>1. CASE v = t
      BY <2>1, <1>5, <1>7, <1>8
    <2>2. CASE v # t
      <3>1. task'[v] = task[v] /\ l0[task[v].gw][k] = None
        BY <2>2, <1>7 DEF TieredInv, JobsOK, CleanL0
      <3>2. task[v].gw \in Gateways
        BY <3>1 DEF TieredInv, ShapeOK, TaskShape
      <3> QED BY <3>1, <3>2, <1>8
    <2> QED BY <2>1, <2>2
  <1>17. CleanAlone'
    <2> SUFFICES ASSUME NEW v \in Tasks, NEW u \in Tasks, NEW k \in Keys, task'[v].clean,
                        k \in task'[v].scope, Request(u)', task'[u].scope = {k}
                 PROVE  task'[u].pc # "setex" /\ task'[u].gw # task'[v].gw
      BY DEF CleanAlone
    <2>1. u # t /\ task'[u] = task[u] /\ Request(u)
      BY <1>5, <1>7 DEF Request, Lookups
    <2>2. CASE v = t
      <3>1. Fresh(g, scope) /\ k \in scope /\ task'[v].gw = g
        BY <2>2, <1>5, <1>7
      <3> QED BY <2>1, <3>1 DEF Fresh
    <2>3. CASE v # t
      BY <2>1, <2>3, <1>7 DEF TieredInv, JobsOK, CleanAlone
    <2> QED BY <2>2, <2>3
  <1>18. CleanRedis'
    <2> SUFFICES ASSUME NEW v \in Tasks, NEW k \in Keys, task'[v].clean, k \in task'[v].scope,
                        task'[v].pc # "del", k \notin Pending(task'[v])
                 PROVE  redis'[k] = None
      BY DEF CleanRedis
    <2>1. v # t
      BY <1>5, <1>7 DEF Pending
    <2> QED BY <2>1, <1>4, <1>7 DEF TieredInv, JobsOK, CleanRedis
  <1>19. OneFullScan'
    <2>1. \A u \in Tasks : task'[u].kind = task[u].kind /\ task'[u].gw = task[u].gw
      BY <1>5, <1>7 DEF g
    <2> QED BY <1>4, <2>1, FlagKept DEF TieredInv
  <1> QED BY <1>9, <1>10, <1>11, <1>12, <1>13, <1>14, <1>15, <1>16, <1>17, <1>18, <1>19
             DEF TieredInv, AgeOK, PurgeOK, JobsOK

\* invalidate of one key: an Ok has deleted it.
LEMMA DeleteKeyStep ==
    ASSUME TieredInv, NEW t \in Tasks, DeleteKey(t)
    PROVE  TieredInv'
  <1>1. /\ task[t] \in TaskRecord /\ TaskShape(task[t]) /\ task[t].pc = "del"
        /\ UNCHANGED <<l0, flag, age>>
    BY TypesOfTasks DEF TieredInv, ShapeOK, DeleteKey
  <1>2. KeyOf(t) \in Keys /\ task[t].scope = {KeyOf(t)}
    BY <1>1, KeyOfTask
  <1>3. PICK job \in {task[t], Incomplete(task[t])} :
            /\ Return(t, job)
            /\ \/ job = task[t] /\ redis' = [redis EXCEPT ![KeyOf(t)] = None]
               \/ job = Incomplete(task[t]) /\ redis' = redis
    BY DEF DeleteKey
  <1>4. /\ redis' \in [Keys -> Entry \cup {None, Corrupt}]
        /\ \A k \in Keys : redis'[k] \in {redis[k], None}
    BY <1>2, <1>3, TypesOfTasks DEF TieredInv
  <1>5. job \in TaskRecord /\ job.scope = task[t].scope
    BY <1>1 DEF Incomplete, TaskRecord
  <1>6. /\ \A k \in Keys, i \in Ids : <<k, i>> \in job.old => redis'[k].id # i
        /\ \A k \in Keys : job.clean /\ k \in job.scope => redis'[k] = None
    <2>1. CASE job = task[t] /\ redis' = [redis EXCEPT ![KeyOf(t)] = None]
      <3>1. redis'[KeyOf(t)] = None
        BY <1>2, <2>1, TypesOfTasks DEF TieredInv
      <3>2. \A k \in Keys, i \in Ids : <<k, i>> \in job.old => k = KeyOf(t)
        BY <1>1, <1>2, <2>1 DEF TaskShape
      <3>3. None.id \notin Ids
        BY EntryFacts
      <3>4. \A k \in Keys, i \in Ids : <<k, i>> \in job.old => redis'[k].id # i
        BY <3>1, <3>2, <3>3
      <3>5. \A k \in Keys : k \in job.scope => redis'[k] = None
        BY <1>2, <1>5, <3>1
      <3> QED BY <3>4, <3>5
    <2>2. CASE job = Incomplete(task[t])
      BY <1>1, <2>2 DEF Incomplete, TaskRecord
    <2> QED BY <1>3, <2>1, <2>2
  <1>7. /\ task' \in [Tasks -> TaskRecord] /\ ShapeOK' /\ AgeOK' /\ PurgeOK' /\ JobsOK'
        /\ purged' \in [Keys -> [Ids -> Nat \cup {Never}]]
        /\ \A u \in Tasks : task'[u].kind = task[u].kind /\ task'[u].gw = task[u].gw
    BY <1>1, <1>3, <1>4, <1>5, <1>6, JobReturns
  <1>8. TieredTypeOK'
    BY <1>1, <1>4, <1>7 DEF TieredInv, TieredTypeOK, TaskRecord
  <1>9. OneFullScan'
    BY <1>1, <1>7, FlagKept DEF TieredInv
  <1> QED BY <1>7, <1>8, <1>9 DEF TieredInv

\* The scan's end: without keys left it has dealt with all.
LEMMA ScanEndsStep ==
    ASSUME TieredInv, NEW t \in Tasks, ScanEnds(t)
    PROVE  TieredInv'
  <1>1. /\ task[t] \in TaskRecord /\ TaskShape(task[t]) /\ task[t].pc = "scan"
        /\ UNCHANGED <<l0, redis, flag, age>>
    BY TypesOfTasks DEF TieredInv, ShapeOK, ScanEnds
  <1>2. PICK job \in {task[t], Incomplete(task[t])} :
            /\ Return(t, job)
            /\ (job = task[t] /\ task[t].left = {}) \/ job = Incomplete(task[t])
    BY DEF ScanEnds
  <1>3. job \in TaskRecord
    BY <1>1 DEF Incomplete, TaskRecord
  <1>4. /\ \A k \in Keys, i \in Ids : <<k, i>> \in job.old => redis'[k].id # i
        /\ \A k \in Keys : job.clean /\ k \in job.scope => redis'[k] = None
    <2>1. CASE job = task[t] /\ task[t].left = {}
      <3>1. Pending(task[t]) = {}
        BY <1>1, <2>1 DEF TaskShape, Pending
      <3>2. \A k \in Keys, i \in Ids : <<k, i>> \in job.old => redis[k].id # i
        BY <1>1, <2>1, <3>1 DEF TieredInv, JobsOK, OldDeleted
      <3>3. \A k \in Keys : job.clean /\ k \in job.scope => redis[k] = None
        BY <1>1, <2>1, <3>1 DEF TieredInv, JobsOK, CleanRedis
      <3> QED BY <1>1, <3>2, <3>3
    <2>2. CASE job = Incomplete(task[t])
      BY <1>1, <2>2 DEF Incomplete, TaskRecord
    <2> QED BY <1>2, <2>1, <2>2
  <1>5. /\ task' \in [Tasks -> TaskRecord] /\ ShapeOK' /\ AgeOK' /\ PurgeOK' /\ JobsOK'
        /\ purged' \in [Keys -> [Ids -> Nat \cup {Never}]]
        /\ \A u \in Tasks : task'[u].kind = task[u].kind /\ task'[u].gw = task[u].gw
    BY <1>1, <1>2, <1>3, <1>4, JobReturns
  <1>6. TieredTypeOK'
    BY <1>1, <1>5 DEF TieredInv, TieredTypeOK, TaskRecord
  <1>7. OneFullScan'
    BY <1>1, <1>5, FlagKept DEF TieredInv
  <1> QED BY <1>5, <1>6, <1>7 DEF TieredInv

\* A batch is read: the keys it does not return are absent now.
LEMMA ScanBatchStep ==
    ASSUME TieredInv, NEW t \in Tasks, ScanBatch(t)
    PROVE  TieredInv'
  <1>1. PICK batch \in SUBSET task[t].left :
            task' = [task EXCEPT ![t].pc = "batch", ![t].left = @ \ batch,
                                 ![t].found = {k \in batch : redis[k] # None}]
    BY DEF ScanBatch
  <1>2. /\ task[t] \in TaskRecord /\ TaskShape(task[t]) /\ task[t].pc = "scan"
        /\ UNCHANGED <<l0, redis, flag, age, purged>>
    BY TypesOfTasks DEF TieredInv, ShapeOK, ScanBatch
  <1> DEFINE left == task[t].left \ batch
             found == {k \in batch : redis[k] # None}
             j == [task[t] EXCEPT !.pc = "batch", !.left = left, !.found = found]
  <1>3. left \in SUBSET Keys /\ found \in SUBSET Keys
    BY <1>2 DEF TaskRecord
  <1>4. task' = [task EXCEPT ![t] = j]
    BY <1>1
  <1> HIDE DEF left, found
  <1>5. /\ j \in TaskRecord /\ j.pc = "batch" /\ j.left = left /\ j.found = found
        /\ j.scope = task[t].scope /\ j.gw = task[t].gw /\ j.kind = task[t].kind
        /\ j.id = task[t].id /\ j.old = task[t].old /\ (j.clean => task[t].clean)
    BY <1>2, <1>3 DEF TaskRecord, Jobs
  <1> HIDE DEF j
  <1>6. TaskShape(j)
    BY <1>2, <1>5 DEF TaskShape, Jobs, Lookups
  <1>7. \A k \in Keys : k \notin Pending(j) => k \notin Pending(task[t]) \/ redis[k] = None
    BY <1>2, <1>5 DEF Pending, TaskShape, left, found
  <1>8. \A k \in Keys, i \in Ids :
            (<<k, i>> \in j.old /\ j.pc # "del" /\ k \notin Pending(j)) => redis'[k].id # i
    <2>1. None.id \notin Ids
      BY EntryFacts
    <2> QED BY <1>2, <1>5, <1>7, <2>1 DEF TieredInv, JobsOK, OldDeleted
  <1>9. \A k \in Keys :
            (j.clean /\ k \in j.scope /\ j.pc # "del" /\ k \notin Pending(j)) => redis'[k] = None
    BY <1>2, <1>5, <1>7 DEF TieredInv, JobsOK, CleanRedis
  <1>10. ShapeOK' /\ AgeOK' /\ PurgeOK' /\ JobsOK'
    <2>1. /\ \A k \in Keys, i \in Ids : ~Carries(j, "promote", k, i)
          /\ j.pc # "setex" /\ j.pc \notin Lookups
      BY <1>5 DEF Carries, Lookups
    <2> QED BY <1>2, <1>4, <1>5, <1>6, <1>8, <1>9, <2>1, TaskStep
  <1>11. task' \in [Tasks -> TaskRecord]
    BY <1>4, <1>5, TypesOfTasks DEF TieredInv
  <1>12. TieredTypeOK'
    BY <1>2, <1>11 DEF TieredInv, TieredTypeOK, TaskRecord
  <1>13. OneFullScan'
    BY <1>2, <1>4, <1>5, TypesOfTasks, FlagKept DEF TieredInv
  <1> QED BY <1>10, <1>12, <1>13 DEF TieredInv

\* A batch is deleted, or the job has become incomplete.
LEMMA DeleteBatchStep ==
    ASSUME TieredInv, NEW t \in Tasks, DeleteBatch(t)
    PROVE  TieredInv'
  <1> DEFINE good == [task[t] EXCEPT !.pc = "scan", !.found = {}]
             bad == [Incomplete(task[t]) EXCEPT !.pc = "scan", !.found = {}]
  <1>1. /\ task[t] \in TaskRecord /\ TaskShape(task[t]) /\ task[t].pc = "batch"
        /\ UNCHANGED <<l0, flag, age, purged>>
    BY TypesOfTasks DEF TieredInv, ShapeOK, DeleteBatch
  <1>2. PICK j \in {good, bad} :
            /\ task' = [task EXCEPT ![t] = j]
            /\ \/ j = good /\ redis' = [k \in Keys |-> IF k \in task[t].found THEN None ELSE redis[k]]
               \/ j = bad /\ redis' = redis
    BY DEF DeleteBatch
  <1>3. /\ j \in TaskRecord /\ j.pc = "scan" /\ j.left = task[t].left /\ j.found = {}
        /\ j.scope = task[t].scope /\ j.gw = task[t].gw /\ j.kind = task[t].kind
        /\ j.id = task[t].id /\ j.old \subseteq task[t].old /\ (j.clean => task[t].clean)
        /\ j = bad => j.old = {} /\ ~j.clean
    BY <1>1, <1>2 DEF TaskRecord, Jobs, Incomplete
  <1> HIDE DEF good, bad
  <1>4. TaskShape(j)
    BY <1>1, <1>3 DEF TaskShape, Jobs, Lookups
  <1>5. /\ redis' \in [Keys -> Entry \cup {None, Corrupt}]
        /\ \A k \in Keys : redis'[k] \in {redis[k], None}
    BY <1>2, TypesOfTasks DEF TieredInv
  <1>6. j = bad \/ \A k \in Keys : k \notin Pending(j) => k \notin Pending(task[t]) \/ redis'[k] = None
    BY <1>2, <1>3 DEF Pending
  <1>7. \A k \in Keys, i \in Ids :
            (<<k, i>> \in j.old /\ j.pc # "del" /\ k \notin Pending(j)) => redis'[k].id # i
    <2> SUFFICES ASSUME NEW k \in Keys, NEW i \in Ids, <<k, i>> \in j.old, k \notin Pending(j)
                 PROVE  redis'[k].id # i
      OBVIOUS
    <2>1. None.id \notin Ids
      BY EntryFacts
    <2>2. k \notin Pending(task[t]) => redis[k].id # i
      BY <1>1, <1>3 DEF TieredInv, JobsOK, OldDeleted
    <2> QED BY <1>3, <1>5, <1>6, <2>1, <2>2
  <1>8. \A k \in Keys :
            (j.clean /\ k \in j.scope /\ j.pc # "del" /\ k \notin Pending(j)) => redis'[k] = None
    <2> SUFFICES ASSUME NEW k \in Keys, j.clean, k \in j.scope, k \notin Pending(j)
                 PROVE  redis'[k] = None
      OBVIOUS
    <2>1. k \notin Pending(task[t]) => redis[k] = None
      BY <1>1, <1>3 DEF TieredInv, JobsOK, CleanRedis
    <2> QED BY <1>3, <1>5, <1>6, <2>1
  <1>9. ShapeOK' /\ AgeOK' /\ PurgeOK' /\ JobsOK'
    <2>1. /\ \A k \in Keys, i \in Ids : ~Carries(j, "promote", k, i)
          /\ j.pc # "setex" /\ j.pc \notin Lookups
      BY <1>3 DEF Carries, Lookups
    <2> QED BY <1>1, <1>2, <1>3, <1>4, <1>5, <1>7, <1>8, <2>1, TaskStep
  <1>10. task' \in [Tasks -> TaskRecord]
    BY <1>2, <1>3, TypesOfTasks DEF TieredInv
  <1>11. TieredTypeOK'
    BY <1>1, <1>5, <1>10 DEF TieredInv, TieredTypeOK, TaskRecord
  <1>12. OneFullScan'
    BY <1>1, <1>2, <1>3, TypesOfTasks, FlagKept DEF TieredInv
  <1> QED BY <1>9, <1>11, <1>12 DEF TieredInv

\* An entry after a tick: one moment less, or gone.
LEMMA OlderEntry ==
    ASSUME NEW e \in Held \cup {None, Corrupt}
    PROVE  /\ e \in Entry \cup {None, Corrupt} => Older(e) \in Entry \cup {None, Corrupt}
           /\ e = None => Older(e) = None
           /\ e # Corrupt => Older(e) \in Held \cup {None}
           /\ Older(e) \in Entry => e \in Entry /\ Older(e).id = e.id /\ Older(e).left = e.left - 1
           /\ Older(e).id \in {e.id, None.id}
  <1>1. CASE e \in {None, Corrupt}
    BY <1>1, EntryFacts DEF Older
  <1>2. CASE e \in Entry /\ e.left = 1
    BY <1>2, EntryFacts DEF Older, Forever
  <1>3. CASE e \in Entry /\ e.left # 1
    <2>1. e.left - 1 \in 1..MaxTtl /\ e.id \in Ids /\ e.left # Forever
      BY <1>3, EntryFacts, TieredAssumption DEF Forever
    <2>2. Older(e) = [e EXCEPT !.left = e.left - 1]
      BY <1>3, <2>1 DEF Older
    <2>3. Older(e) \in Entry /\ Older(e).id = e.id /\ Older(e).left = e.left - 1
      BY <1>3, <2>1, <2>2 DEF Entry
    <2> QED BY <1>3, <2>3, EntryFacts
  <1>4. CASE e \in Held /\ e.left = Forever
    <2>1. Older(e) = e
      BY <1>4 DEF Older
    <2>2. e \notin Entry
      BY <1>4, EntryFacts DEF Forever
    <2> QED BY <1>4, <2>1, <2>2, EntryFacts
  <1> QED BY <1>1, <1>2, <1>3, <1>4, EntryFacts

\* History counts on, as far as it counts.
LEMMA Counted ==
    ASSUME NEW n \in Nat
    PROVE  Count(n) \in Nat /\ Count(n) <= n + 1
  BY DEF Count

\* Time passes: what entries have left goes down as ages and purges go up.
LEMMA TickStep ==
    ASSUME TieredInv, Tick
    PROVE  TieredInv'
  <1>1. /\ task \in [Tasks -> TaskRecord] /\ l0 \in [Gateways -> [Keys -> Held \cup {None}]]
        /\ age \in [Keys -> [Ids -> Nat]] /\ purged \in [Keys -> [Ids -> Nat \cup {Never}]]
        /\ redis \in [Keys -> Entry \cup {None, Corrupt}]
    BY TypesOfTasks DEF TieredInv
  <1>2. /\ task' \in [Tasks -> TaskRecord]
        /\ \A u \in Tasks :
              /\ Same(task'[u], [task[u] EXCEPT !.for = task'[u].for])
              /\ task'[u].old = task[u].old /\ (task'[u].clean <=> task[u].clean)
              /\ Request(u) => task'[u].for = task[u].for + 1 /\ task[u].for \in Nat
    <2>1. ASSUME NEW u \in Tasks
          PROVE  /\ task'[u] \in TaskRecord
                 /\ Same(task'[u], [task[u] EXCEPT !.for = task'[u].for])
                 /\ task'[u].old = task[u].old /\ (task'[u].clean <=> task[u].clean)
                 /\ Request(u) => task'[u].for = task[u].for + 1 /\ task[u].for \in Nat
      <3>1. task[u] \in TaskRecord
        BY <1>1
      <3>2. CASE Request(u)
        <4>1. task[u].for + 1 \in 0..Lag /\ task[u].for \in Nat
          BY <3>1, <3>2, TieredAssumption DEF Tick, TaskRecord
        <4>2. task'[u] = [task[u] EXCEPT !.for = task[u].for + 1]
          BY <3>2 DEF Tick
        <4> QED BY <3>1, <4>1, <4>2 DEF TaskRecord, Same
      <3>3. CASE ~Request(u)
        <4>1. task'[u] = task[u]
          BY <3>3 DEF Tick
        <4> QED BY <3>1, <3>3, <4>1 DEF TaskRecord, Same
      <3> QED BY <3>2, <3>3
    <2>2. task' \in [Tasks -> TaskRecord]
      BY <2>1 DEF Tick
    <2> QED BY <2>1, <2>2
  <1>3. \A u \in Tasks :
            /\ task'[u].pc = task[u].pc /\ task'[u].kind = task[u].kind /\ task'[u].gw = task[u].gw
            /\ task'[u].scope = task[u].scope /\ task'[u].id = task[u].id
            /\ task'[u].left = task[u].left /\ task'[u].found = task[u].found
    BY <1>1, <1>2 DEF Same, TaskRecord
  <1>4. /\ l0' \in [Gateways -> [Keys -> Held \cup {None}]]
        /\ \A g \in Gateways, k \in Keys :
              /\ l0[g][k] = None => l0'[g][k] = None
              /\ l0'[g][k] \in Entry => /\ l0[g][k] \in Entry /\ l0'[g][k].id = l0[g][k].id
                                         /\ l0'[g][k].left = l0[g][k].left - 1
    <2>1. ASSUME NEW g \in Gateways, NEW k \in Keys
          PROVE  /\ l0'[g][k] = Older(l0[g][k]) /\ l0[g][k] \in Held \cup {None}
                 /\ l0'[g][k] \in Held \cup {None}
      BY <1>1, OlderEntry, EntryFacts DEF Tick
    <2>2. l0' \in [Gateways -> [Keys -> Held \cup {None}]]
      BY <2>1 DEF Tick
    <2> QED BY <2>1, <2>2, OlderEntry, EntryFacts
  <1>5. /\ redis' \in [Keys -> Entry \cup {None, Corrupt}]
        /\ \A k \in Keys :
              /\ redis[k] = None => redis'[k] = None
              /\ redis'[k].id \in {redis[k].id, None.id}
              /\ redis'[k].id \in Ids => /\ redis'[k].id = redis[k].id
                                         /\ redis[k].left \in Nat
                                         /\ redis'[k].left = redis[k].left - 1
    <2>1. ASSUME NEW k \in Keys
          PROVE  /\ redis'[k] = Older(redis[k]) /\ redis[k] \in Entry \cup {None, Corrupt}
                 /\ redis'[k] \in Entry \cup {None, Corrupt}
                 /\ redis[k] \in Held \cup {None, Corrupt}
      BY <1>1, OlderEntry, EntryFacts DEF Tick
    <2>2. redis' \in [Keys -> Entry \cup {None, Corrupt}]
      BY <2>1 DEF Tick
    <2> QED BY <2>1, <2>2, OlderEntry, EntryFacts
  <1>6. /\ age' \in [Keys -> [Ids -> Nat]]
        /\ \A k \in Keys, i \in Ids : InUse(k, i) => age'[k][i] <= age[k][i] + 1 /\ age[k][i] \in Nat /\ age'[k][i] \in Nat
    <2>1. age' = [k \in Keys |-> [i \in Ids |-> IF InUse(k, i) THEN Count(age[k][i]) ELSE 0]]
      BY DEF Tick
    <2>2. ASSUME NEW k \in Keys, NEW i \in Ids
          PROVE  age[k][i] \in Nat /\ Count(age[k][i]) \in Nat /\ Count(age[k][i]) <= age[k][i] + 1
      BY <1>1, Counted
    <2>3. age' \in [Keys -> [Ids -> Nat]]
      BY <2>1, <2>2
    <2> QED BY <2>1, <2>2, <2>3
  <1>7. /\ purged' \in [Keys -> [Ids -> Nat \cup {Never}]]
        /\ \A k \in Keys, i \in Ids :
              /\ purged'[k][i] # Never => purged[k][i] # Never
              /\ purged'[k][i] = Never \/ (/\ purged[k][i] \in Nat /\ purged'[k][i] \in Nat
                                           /\ purged'[k][i] <= purged[k][i] + 1)
    <2>1. purged' = [k \in Keys |-> [i \in Ids |->
                       IF InUse(k, i) /\ purged[k][i] # Never THEN Count(purged[k][i]) ELSE Never]]
      BY DEF Tick
    <2>2. ASSUME NEW k \in Keys, NEW i \in Ids
          PROVE  /\ purged'[k][i] \in Nat \cup {Never}
                 /\ purged'[k][i] = Never \/ (/\ purged[k][i] # Never /\ purged[k][i] \in Nat
                                              /\ purged'[k][i] \in Nat /\ purged'[k][i] <= purged[k][i] + 1)
      <3>1. CASE InUse(k, i) /\ purged[k][i] # Never
        <4>1. purged[k][i] \in Nat /\ purged'[k][i] = Count(purged[k][i])
          BY <1>1, <2>1, <3>1
        <4> QED BY <3>1, <4>1, Counted
      <3>2. CASE ~(InUse(k, i) /\ purged[k][i] # Never)
        <4>1. purged'[k][i] = Never
          BY <2>1, <3>2
        <4> QED BY <4>1
      <3> QED BY <3>1, <3>2
    <2>3. purged' \in [Keys -> [Ids -> Nat \cup {Never}]]
      BY <2>1, <2>2
    <2> QED BY <2>2, <2>3
  <1>8. TieredTypeOK'
    BY <1>2, <1>4, <1>5, <1>6, <1>7 DEF TieredInv, TieredTypeOK, TaskRecord, Tick
  <1>9. ShapeOK'
    <2>1. ASSUME NEW u \in Tasks PROVE TaskShape(task'[u])
      <3>1. TaskShape(task[u])
        BY DEF TieredInv, ShapeOK
      <3>2. /\ task'[u].pc = task[u].pc /\ task'[u].kind = task[u].kind /\ task'[u].gw = task[u].gw
            /\ task'[u].scope = task[u].scope /\ task'[u].id = task[u].id
            /\ task'[u].left = task[u].left /\ task'[u].found = task[u].found
            /\ task'[u].old = task[u].old /\ (task'[u].clean => task[u].clean)
        BY <1>2, <1>3
      <3> QED BY <3>1, <3>2, AgedShape
    <2> QED BY <2>1 DEF ShapeOK
  <1>10. AgeInL0' /\ PurgedInL0'
    <2> SUFFICES ASSUME NEW g \in Gateways, NEW k \in Keys, l0'[g][k] \in Entry
                 PROVE  /\ age'[k][l0'[g][k].id] + l0'[g][k].left < 2 * MaxTtl + 2 * Lag
                        /\ purged'[k][l0'[g][k].id] + l0'[g][k].left <= MaxTtl + Lag
      BY DEF AgeInL0, PurgedInL0
    <2> DEFINE i == l0[g][k].id
    <2>1. /\ l0[g][k] \in Entry /\ l0'[g][k].id = i /\ i \in Ids /\ l0[g][k].left \in 1..MaxTtl
          /\ l0'[g][k].left = l0[g][k].left - 1
      BY <1>1, <1>4, EntryFacts
    <2>2. InUse(k, i)
      BY DEF InUse
    <2>3. age[k][i] + l0[g][k].left < 2 * MaxTtl + 2 * Lag
      BY <2>1 DEF TieredInv, AgeOK, AgeInL0
    <2>4. purged[k][i] + l0[g][k].left <= MaxTtl + Lag
      BY <2>1 DEF TieredInv, PurgeOK, PurgedInL0
    <2> HIDE DEF i
    <2>5. age'[k][i] <= age[k][i] + 1 /\ age[k][i] \in Nat /\ age'[k][i] \in Nat
      BY <1>6, <2>1, <2>2
    <2>6. age'[k][i] + l0'[g][k].left < 2 * MaxTtl + 2 * Lag
      BY <2>1, <2>3, <2>5, TieredAssumption
    <2>7. purged'[k][i] + l0'[g][k].left <= MaxTtl + Lag
      <3>1. CASE purged'[k][i] = Never
        BY <2>1, <3>1, TieredAssumption DEF Never
      <3>2. CASE purged[k][i] \in Nat /\ purged'[k][i] \in Nat /\ purged'[k][i] <= purged[k][i] + 1
        BY <2>1, <2>4, <3>2, TieredAssumption
      <3> QED BY <1>7, <2>1, <3>1, <3>2
    <2> QED BY <2>1, <2>6, <2>7
  <1>11. AgeInRedis'
    <2> SUFFICES ASSUME NEW k \in Keys, redis'[k].id \in Ids
                 PROVE  age'[k][redis'[k].id] + redis'[k].left <= MaxTtl + Lag
      BY DEF AgeInRedis
    <2> DEFINE i == redis[k].id
    <2>1. redis'[k].id = i /\ i \in Ids /\ redis[k].left \in Nat /\ redis'[k].left = redis[k].left - 1
      BY <1>5
    <2>2. InUse(k, i)
      BY DEF InUse
    <2>3. age[k][i] + redis[k].left <= MaxTtl + Lag
      BY <2>1 DEF TieredInv, AgeOK, AgeInRedis
    <2> HIDE DEF i
    <2>4. age'[k][i] <= age[k][i] + 1 /\ age[k][i] \in Nat /\ age'[k][i] \in Nat
      BY <1>6, <2>1, <2>2
    <2> QED BY <2>1, <2>3, <2>4, TieredAssumption
  <1>12. PurgedFromRedis'
    <2> SUFFICES ASSUME NEW k \in Keys, NEW i \in Ids, purged'[k][i] # Never PROVE redis'[k].id # i
      BY DEF PurgedFromRedis
    <2>1. redis[k].id # i
      BY <1>7 DEF TieredInv, PurgeOK, PurgedFromRedis
    <2>2. None.id # i
      BY EntryFacts
    <2> QED BY <1>5, <2>1, <2>2
  <1>13. AgeInTasks' /\ PurgedInTasks'
    <2> SUFFICES ASSUME NEW u \in Tasks, NEW k \in Keys, NEW i \in Ids
                 PROVE  /\ Carries(task'[u], "setex", k, i) => age'[k][i] <= task'[u].for
                                                            /\ purged'[k][i] = Never
                        /\ Carries(task'[u], "promote", k, i) =>
                              age'[k][i] < MaxTtl + Lag + task'[u].for /\ purged'[k][i] <= task'[u].for
      BY DEF AgeInTasks, PurgedInTasks
    <2>1. /\ Carries(task'[u], "setex", k, i) => Carries(task[u], "setex", k, i)
          /\ Carries(task'[u], "promote", k, i) => Carries(task[u], "promote", k, i)
      BY <1>3 DEF Carries
    <2>2. Carries(task[u], "setex", k, i) \/ Carries(task[u], "promote", k, i) =>
            /\ age'[k][i] <= age[k][i] + 1 /\ age[k][i] \in Nat /\ age'[k][i] \in Nat
            /\ task'[u].for = task[u].for + 1 /\ task[u].for \in Nat
      BY <1>2, <1>6 DEF Carries, Request, Lookups, InUse
    <2>3. Carries(task[u], "setex", k, i) => age'[k][i] <= task'[u].for /\ purged'[k][i] = Never
      BY <1>7, <2>2 DEF TieredInv, AgeOK, AgeInTasks, PurgeOK, PurgedInTasks
    <2>4. ASSUME Carries(task[u], "promote", k, i)
          PROVE  age'[k][i] < MaxTtl + Lag + task'[u].for /\ purged'[k][i] <= task'[u].for
      <3>1. age[k][i] < MaxTtl + Lag + task[u].for /\ purged[k][i] <= task[u].for
        BY <2>4 DEF TieredInv, AgeOK, AgeInTasks, PurgeOK, PurgedInTasks
      <3>2. age'[k][i] < MaxTtl + Lag + task'[u].for
        BY <2>2, <2>4, <3>1, TieredAssumption
      <3>3. CASE purged'[k][i] = Never
        BY <2>2, <2>4, <3>2, <3>3 DEF Never
      <3>4. CASE purged[k][i] \in Nat /\ purged'[k][i] \in Nat /\ purged'[k][i] <= purged[k][i] + 1
        BY <2>2, <2>4, <3>1, <3>2, <3>4
      <3> QED BY <1>7, <3>3, <3>4
    <2> QED BY <2>1, <2>3, <2>4
  <1>14. OldNotStored' /\ CleanAlone'
    <2>1. \A u \in Tasks : Request(u)' <=> Request(u)
      BY <1>3 DEF Request
    <2> QED BY <1>2, <1>3, <2>1, NobodyNew DEF TieredInv, JobsOK
  <1>15. OldDeleted'
    <2> SUFFICES ASSUME NEW u \in Tasks, NEW k \in Keys, NEW i \in Ids, <<k, i>> \in task'[u].old,
                        task'[u].pc # "del", k \notin Pending(task'[u])
                 PROVE  redis'[k].id # i
      BY DEF OldDeleted
    <2>1. redis[k].id # i
      BY <1>2, <1>3 DEF TieredInv, JobsOK, OldDeleted, Pending
    <2>2. None.id # i
      BY EntryFacts
    <2> QED BY <1>5, <2>1, <2>2
  <1>16. CleanL0'
    <2> SUFFICES ASSUME NEW u \in Tasks, NEW k \in Keys, task'[u].clean, k \in task'[u].scope
                 PROVE  l0'[task'[u].gw][k] = None
      BY DEF CleanL0
    <2>1. l0[task[u].gw][k] = None /\ task'[u].gw = task[u].gw
      BY <1>2, <1>3 DEF TieredInv, JobsOK, CleanL0
    <2>2. task[u].gw \in Gateways
      BY <1>2 DEF TieredInv, ShapeOK, TaskShape
    <2> QED BY <1>4, <2>1, <2>2
  <1>17. CleanRedis'
    BY <1>2, <1>3, <1>5 DEF TieredInv, JobsOK, CleanRedis, Pending
  <1>18. OneFullScan'
    BY <1>3, FlagKept DEF TieredInv, Tick
  <1> QED BY <1>8, <1>9, <1>10, <1>11, <1>12, <1>13, <1>14, <1>15, <1>16, <1>17, <1>18
             DEF TieredInv, AgeOK, PurgeOK, JobsOK

-----------------------------------------------------------------------------
\* Every step keeps the invariant.
LEMMA TieredInvStep == TieredInv /\ [TieredNext]_tieredVars => TieredInv'
  <1> SUFFICES ASSUME TieredInv, [TieredNext]_tieredVars PROVE TieredInv'
    OBVIOUS
  <1>1. CASE UNCHANGED tieredVars
    <2>1. TieredTypeOK' /\ OneFullScan'
      BY <1>1 DEF tieredVars, TieredInv, TieredTypeOK, OneFullScan
    <2>2. ShapeOK' /\ AgeOK' /\ PurgeOK' /\ JobsOK'
      BY <1>1, LossStep DEF tieredVars
    <2> QED BY <2>1, <2>2 DEF TieredInv
  <1>2. ASSUME NEW t \in Tasks, Lookup(t) \/ PutRedis(t) \/ Invalidation(t) PROVE TieredInv'
    BY <1>2, ForgetSteps, RedisHitStep, RedisBadStep, PromoteStep, PutRedisStep, ClearL0Step,
       DeleteKeyStep, ScanBatchStep, DeleteBatchStep, ScanEndsStep, FinishStep
       DEF Lookup, Invalidation
  <1>3. ASSUME NEW t \in Tasks, NEW g \in Gateways, NEW k \in Keys, Get(t, g, k) \/ Put(t, g, k)
        PROVE  TieredInv'
    BY <1>3, GetStep, PutStep
  <1>4. ASSUME NEW g \in Gateways, NEW k \in Keys, HitL0(g, k) \/ EvictL0(g, k) PROVE TieredInv'
    BY <1>4, EvictSteps
  <1>5. ASSUME NEW k \in Keys, EvictRedis(k) PROVE TieredInv'
    BY <1>5, EvictSteps
  <1> QED BY <1>1, <1>2, <1>3, <1>4, <1>5, AcceptStep, TickStep DEF TieredNext

\* The strengthened invariant always holds.
LEMMA TieredInvariance == TieredSpec => []TieredInv
  BY TieredInvInit, TieredInvStep, PTL DEF TieredSpec

\* Both tiers, the flags and the tasks keep their types.
THEOREM TieredTyped == TieredSpec => []TieredTypeOK
  <1>1. TieredInv => TieredTypeOK
    BY DEF TieredInv
  <1> QED BY <1>1, TieredInvariance, PTL

\* Promotion prolongs the life of an entry once, never again and again: only a
\* read in L0 lifts the bound.
THEOREM AgesBounded == TieredSpec => []AgeBounded
  <1>1. TieredInv => AgeBounded
    <2> SUFFICES ASSUME TieredInv PROVE AgeBounded
      OBVIOUS
    <2>1. ASSUME NEW g \in Gateways, NEW k \in Keys, l0[g][k] \in Entry
          PROVE  age[k][l0[g][k].id] < 2 * MaxTtl + 2 * Lag
      <3>1. l0[g][k].id \in Ids /\ l0[g][k].left \in 1..MaxTtl
        BY <2>1, EntryFacts
      <3>2. /\ age[k][l0[g][k].id] + l0[g][k].left < 2 * MaxTtl + 2 * Lag
            /\ age[k][l0[g][k].id] \in Nat
        BY <2>1, <3>1, TypesOfTasks DEF TieredInv, AgeOK, AgeInL0
      <3> QED BY <3>1, <3>2, TieredAssumption
    <2>2. ASSUME NEW k \in Keys, redis[k].id \in Ids
          PROVE  age[k][redis[k].id] < MaxTtl + Lag
      <3>1. redis[k].left \in 1..MaxTtl
        BY <2>2, TypesOfTasks, EntryFacts DEF TieredInv
      <3>2. age[k][redis[k].id] + redis[k].left <= MaxTtl + Lag /\ age[k][redis[k].id] \in Nat
        BY <2>2, TypesOfTasks DEF TieredInv, AgeOK, AgeInRedis
      <3> QED BY <3>1, <3>2, TieredAssumption
    <2> QED BY <2>1, <2>2 DEF AgeBounded
  <1> QED BY <1>1, TieredInvariance, PTL

\* What a complete invalidation purged is never in Redis again, enters an L0 only
\* by a promotion begun before, and expires there unless somebody reads it.
THEOREM PurgesReach == TieredSpec => []PurgedEverywhere
  <1>1. TieredInv => PurgedEverywhere
    <2> SUFFICES ASSUME TieredInv PROVE PurgedEverywhere
      OBVIOUS
    <2>1. ASSUME NEW g \in Gateways, NEW k \in Keys, l0[g][k] \in Entry
          PROVE  purged[k][l0[g][k].id] < MaxTtl + Lag
      <3>1. l0[g][k].id \in Ids /\ l0[g][k].left \in 1..MaxTtl
        BY <2>1, EntryFacts
      <3>2. purged[k][l0[g][k].id] + l0[g][k].left <= MaxTtl + Lag
            /\ purged[k][l0[g][k].id] \in Nat \cup {Never}
        BY <2>1, <3>1, TypesOfTasks DEF TieredInv, PurgeOK, PurgedInL0
      <3> QED BY <3>1, <3>2, TieredAssumption DEF Never
    <2>2. \A k \in Keys : redis[k].id \in Ids => purged[k][redis[k].id] = Never
      BY DEF TieredInv, PurgeOK, PurgedFromRedis
    <2>3. ASSUME NEW t \in Tasks, task[t].pc = "promote"
          PROVE  purged[KeyOf(t)][task[t].id] <= Lag
      <3>1. TaskShape(task[t]) /\ task[t].pc \in Lookups \cup {"setex", "del"}
        BY <2>3 DEF TieredInv, ShapeOK, Lookups
      <3>2. KeyOf(t) \in Keys /\ task[t].scope = {KeyOf(t)}
        BY <3>1, KeyOfTask
      <3>3. task[t].id \in Ids
        BY <2>3, <3>1 DEF TaskShape
      <3>4. purged[KeyOf(t)][task[t].id] <= task[t].for
        BY <2>3, <3>2, <3>3 DEF Carries, TieredInv, PurgeOK, PurgedInTasks
      <3>5. task[t].for \in 0..Lag /\ purged[KeyOf(t)][task[t].id] \in Nat \cup {Never}
        BY <3>2, <3>3, TypesOfTasks DEF TieredInv, TaskRecord
      <3> QED BY <3>4, <3>5, TieredAssumption DEF Never
    <2> QED BY <2>1, <2>2, <2>3 DEF PurgedEverywhere
  <1> QED BY <1>1, TieredInvariance, PTL

\* An undisturbed invalidation leaves none of its keys in its gateway or Redis.
THEOREM InvalidationsHold == TieredSpec => []InvalidationHolds
  <1>1. TieredInv => InvalidationHolds
    <2> SUFFICES ASSUME TieredInv, NEW t \in Tasks, task[t].pc = "done", task[t].clean,
                        NEW k \in task[t].scope
                 PROVE  l0[task[t].gw][k] = None /\ redis[k] = None
      BY DEF InvalidationHolds
    <2>1. k \in Keys /\ TaskShape(task[t])
      BY TypesOfTasks DEF TieredInv, TaskRecord, ShapeOK
    <2>2. k \notin Pending(task[t])
      BY <2>1 DEF TaskShape, Pending
    <2> QED BY <2>1, <2>2 DEF TieredInv, JobsOK, CleanL0, CleanRedis
  <1> QED BY <1>1, TieredInvariance, PTL

\* A gateway never runs two full invalidations, and its flag is up during one.
THEOREM OneAtATime == TieredSpec => []OneFullScan
  <1>1. TieredInv => OneFullScan
    BY DEF TieredInv
  <1> QED BY <1>1, TieredInvariance, PTL
=============================================================================
