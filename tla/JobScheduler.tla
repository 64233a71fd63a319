---------------------------- MODULE JobScheduler ----------------------------
(***************************************************************************)
(* The scheduled jobs of a deployment of several instances: APScheduler    *)
(* fires a job on every instance, run_with_advisory_lock lets one of them  *)
(* run it, on a connection of the instance's pool that stays checked out   *)
(* for the lock while the job checks out another one for its own work.     *)
(* Administrators can start the same work by hand, without the lock, and   *)
(* instances start, crash and lose connections.                            *)
(***************************************************************************)
EXTENDS Naturals, FiniteSets, UnitOfWork

CONSTANTS
    Instances,      \* instances of the service
    Jobs,           \* the scheduled jobs, each with a lock key of its own
    RefJob,         \* reference_sync, which also loads the stage resolver
    ManualJobs,     \* the jobs with an /admin/sync endpoint
    PoolSize,       \* database_pool_size + database_max_overflow
    SyncOnStartup,  \* settings.sync_on_startup
    Scheduling      \* the instances with settings.run_scheduler

ASSUME SchedulerAssumptions ==
    /\ RefJob \in Jobs
    /\ ManualJobs \subseteq Jobs
    /\ PoolSize \in Nat \ {0}
    /\ SyncOnStartup \in BOOLEAN
    /\ Scheduling \subseteq Instances
    /\ None \notin Instances

VARIABLES
    up,         \* "down", "starting" (in lifespan, before the yield) or "up"
    pc,         \* pc[i][j]: where instance i's run of job j is
    owner,      \* owner[j]: the instance whose connection holds j's lock
    lost,       \* runs whose lock connection has died under them
    manual,     \* manual[i]: the jobs requests to instance i are running
    resolver    \* instances whose app.state.stage_resolver is loaded

vars == <<up, pc, owner, lost, manual, resolver>>

\* idle; checkout: waits for the connection of the lock; wait: has the lock
\* and waits for a connection to work on; work: works; unlock: fn has ended.
Phase == {"idle", "checkout", "wait", "work", "unlock"}
Locked == {"wait", "work", "unlock"}

Phases(i, S) == {j \in Jobs : pc[i][j] \in S}

\* The connections of instance i's pool that are checked out.
InUse(i) ==
    Cardinality(Phases(i, Locked)) + Cardinality(Phases(i, {"work"}))
        + Cardinality(manual[i])

Goto(i, j, l) == pc' = [pc EXCEPT ![i][j] = l]

-----------------------------------------------------------------------------
(* The life of an instance                                                  *)

\* lifespan up to the yield, with the reference sync at startup if configured.
Boot(i) ==
    /\ up[i] = "down"
    /\ up' = [up EXCEPT ![i] = IF SyncOnStartup THEN "starting" ELSE "up"]
    /\ UNCHANGED <<pc, owner, lost, manual, resolver>>

\* The startup sync takes no lock; a failure is logged and startup goes on.
StartupSync(i) ==
    /\ up[i] = "starting"
    /\ up' = [up EXCEPT ![i] = "up"]
    /\ resolver' \in {resolver, resolver \cup {i}}
    /\ UNCHANGED <<pc, owner, lost, manual>>

\* Shutdown or crash: the jobs are cancelled, every connection closes, and
\* Postgres drops the locks of the sessions that end.
Stop(i) ==
    /\ up[i] # "down"
    /\ up' = [up EXCEPT ![i] = "down"]
    /\ pc' = [pc EXCEPT ![i] = [j \in Jobs |-> "idle"]]
    /\ owner' = [j \in Jobs |-> IF owner[j] = i THEN None ELSE owner[j]]
    /\ lost' = lost \ ({i} \X Jobs)
    /\ manual' = [manual EXCEPT ![i] = {}]
    /\ resolver' = resolver \ {i}

-----------------------------------------------------------------------------
(* A scheduled run                                                          *)

\* The trigger fires; max_instances=1 drops a run while one is under way.
Fire(i, j) ==
    /\ up[i] = "up" /\ i \in Scheduling
    /\ pc[i][j] = "idle"
    /\ Goto(i, j, "checkout")
    /\ UNCHANGED <<up, owner, lost, manual, resolver>>

\* Mutant: the result of pg_try_advisory_lock is not looked at.
TryLockIgnored(i, j) ==
    /\ pc[i][j] = "checkout"
    /\ InUse(i) < PoolSize
    /\ owner' = [owner EXCEPT ![j] = IF @ = None THEN i ELSE @]
    /\ Goto(i, j, "wait")
    /\ UNCHANGED <<up, lost, manual, resolver>>

\* A connection is free: pg_try_advisory_lock takes the lock, or the job is
\* skipped because it is held elsewhere.
TryLock(i, j) ==
    /\ pc[i][j] = "checkout"
    /\ InUse(i) < PoolSize
    /\ \/ /\ owner[j] = None
          /\ owner' = [owner EXCEPT ![j] = i]
          /\ Goto(i, j, "wait")
       \/ /\ owner[j] # None
          /\ Goto(i, j, "idle")
          /\ UNCHANGED owner
    /\ UNCHANGED <<up, lost, manual, resolver>>

\* fn's session checks out its own connection.
StartWork(i, j) ==
    /\ pc[i][j] = "wait"
    /\ InUse(i) < PoolSize
    /\ Goto(i, j, "work")
    /\ UNCHANGED <<up, owner, lost, manual, resolver>>

\* Mutant: a job that waits for its second connection waits for ever.
PoolTimeoutOnlyFirst(i, j) ==
    /\ pc[i][j] = "checkout"
    /\ InUse(i) >= PoolSize
    /\ Goto(i, j, "idle")
    /\ UNCHANGED <<up, owner, lost, manual, resolver>>

\* Mutant: the exception leaves without the finally clause.
PoolTimeoutNoFinally(i, j) ==
    /\ pc[i][j] \in {"checkout", "wait"}
    /\ InUse(i) >= PoolSize
    /\ Goto(i, j, "idle")
    /\ UNCHANGED <<up, owner, lost, manual, resolver>>

\* pool_timeout runs out: the run fails; fn's failure goes through finally.
PoolTimeout(i, j) ==
    /\ pc[i][j] \in {"checkout", "wait"}
    /\ InUse(i) >= PoolSize
    /\ Goto(i, j, IF pc[i][j] = "wait" THEN "unlock" ELSE "idle")
    /\ UNCHANGED <<up, owner, lost, manual, resolver>>

\* A commit inside fn gives the connection back until the next statement.
Commit(i, j) ==
    /\ pc[i][j] = "work"
    /\ Goto(i, j, "wait")
    /\ UNCHANGED <<up, owner, lost, manual, resolver>>

\* fn returns (the reference sync then stores its resolver) or raises.
EndWork(i, j) ==
    /\ pc[i][j] = "work"
    /\ Goto(i, j, "unlock")
    /\ \/ resolver' = IF j = RefJob THEN resolver \cup {i} ELSE resolver
       \/ UNCHANGED resolver
    /\ UNCHANGED <<up, owner, lost, manual>>

\* Mutant: the lock is freed whoever holds it by now.
UnlockWhoever(i, j) ==
    /\ pc[i][j] = "unlock"
    /\ Goto(i, j, "idle")
    /\ owner' = [owner EXCEPT ![j] = None]
    /\ lost' = lost \ {<<i, j>>}
    /\ UNCHANGED <<up, manual, resolver>>

\* pg_advisory_unlock, which raises on a connection that has died.
Unlock(i, j) ==
    /\ pc[i][j] = "unlock"
    /\ Goto(i, j, "idle")
    /\ owner' = IF <<i, j>> \in lost THEN owner ELSE [owner EXCEPT ![j] = None]
    /\ lost' = lost \ {<<i, j>>}
    /\ UNCHANGED <<up, manual, resolver>>

\* The connection that holds the lock dies (server restart, idle timeout of
\* the pooler or of the network): Postgres frees the lock, fn is not told.
LoseConnection(i, j) ==
    /\ owner[j] = i
    /\ owner' = [owner EXCEPT ![j] = None]
    /\ lost' = lost \cup {<<i, j>>}
    /\ UNCHANGED <<up, pc, manual, resolver>>

-----------------------------------------------------------------------------
(* POST /admin/sync/...: the same work on the request's session, no lock    *)

Trigger(i, j) ==
    /\ up[i] = "up" /\ j \in ManualJobs \ manual[i]
    /\ InUse(i) < PoolSize
    /\ manual' = [manual EXCEPT ![i] = @ \cup {j}]
    /\ UNCHANGED <<up, pc, owner, lost, resolver>>

TriggerEnd(i, j) ==
    /\ j \in manual[i]
    /\ manual' = [manual EXCEPT ![i] = @ \ {j}]
    /\ \/ resolver' = IF j = RefJob THEN resolver \cup {i} ELSE resolver
       \/ UNCHANGED resolver
    /\ UNCHANGED <<up, pc, owner, lost>>

-----------------------------------------------------------------------------
Init ==
    /\ up = [i \in Instances |-> "down"]
    /\ pc = [i \in Instances |-> [j \in Jobs |-> "idle"]]
    /\ owner = [j \in Jobs |-> None]
    /\ lost = {}
    /\ manual = [i \in Instances |-> {}]
    /\ resolver = {}

\* The steps of run_with_advisory_lock once the job has been fired.
RunStep(i, j) ==
    \/ TryLock(i, j) \/ StartWork(i, j) \/ PoolTimeout(i, j)
    \/ Commit(i, j) \/ EndWork(i, j) \/ Unlock(i, j)

Next ==
    \/ \E i \in Instances : Boot(i) \/ StartupSync(i) \/ Stop(i)
    \/ \E i \in Instances, j \in Jobs :
        \/ Fire(i, j) \/ RunStep(i, j) \/ LoseConnection(i, j)
        \/ Trigger(i, j) \/ TriggerEnd(i, j)

Spec == Init /\ [][Next]_vars

\* A run that has been fired goes on; fn, a loop over a bounded batch, ends.
Fairness ==
    \A i \in Instances, j \in Jobs :
        WF_vars(RunStep(i, j)) /\ SF_vars(EndWork(i, j))

FairSpec == Spec /\ Fairness

-----------------------------------------------------------------------------
(* Properties                                                               *)

TypeOK ==
    /\ up \in [Instances -> {"down", "starting", "up"}]
    /\ pc \in [Instances -> [Jobs -> Phase]]
    /\ owner \in [Jobs -> Instances \cup {None}]
    /\ lost \subseteq Instances \X Jobs
    /\ manual \in [Instances -> SUBSET ManualJobs]
    /\ resolver \subseteq Instances

\* No lock is leaked: a lock that Postgres holds belongs to a run that is under
\* way on that instance and will reach its unlock, whatever way fn ends.
LockHeldByRun ==
    \A i \in Instances, j \in Jobs :
        owner[j] = i => pc[i][j] \in Locked /\ <<i, j>> \notin lost

\* Two instances are inside fn of the same job only if one of them has lost the
\* connection its lock was taken on.
OverlapOnlyAfterLoss ==
    \A i, k \in Instances, j \in Jobs :
        /\ i # k
        /\ pc[i][j] \in {"wait", "work"}
        /\ pc[k][j] \in {"wait", "work"}
        => <<i, j>> \in lost \/ <<k, j>> \in lost

StaleRuns == [j \in Jobs |-> {i \in Instances : <<i, j>> \in lost}]

Lease == INSTANCE JobLease WITH holder <- owner, stale <- StaleRuns

\* Every job follows the lease protocol: taken only when free, given up by the
\* holder's own unlock, by its loss or by its crash.
ImplementsLease == Lease!Spec

\* A run that has been fired ends, also when every connection of the pool is
\* taken by runs that wait for their second one.
EveryRunEnds ==
    \A i \in Instances, j \in Jobs : pc[i][j] # "idle" ~> pc[i][j] = "idle"
=============================================================================
