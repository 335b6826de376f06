----------------------------- MODULE Scheduler -----------------------------
(* internal/services/scheduler/scheduler.go: the ticker goroutine, the     *)
(* cycles it and POST /trigger-backups run, the worker pool of a cycle,    *)
(* POST /nodes/:id/trigger, runBackup with every early return, the process *)
(* stopping, crashing and starting again, and the database that remains.   *)
(*                                                                         *)
(* A goroutine that backs up node n on behalf of caller c is pc[c][n]: a   *)
(* cycle (a leader) starts at most one per node and waits for all of them  *)
(* before it ends, a client has at most one request per node under way.    *)
EXTENDS Integers, Sequences, FiniteSets

CONSTANTS
  Nodes,          \* the rows of table nodes
  Hashes,         \* device configurations, told apart by their SHA-256
  NoHash,         \* the Hash of the zero NodeBackup
  Ticker,         \* the goroutine of Start
  Cycles,         \* goroutines that StartBackupCycle may start
  Clients,        \* sources of POST /nodes/:id/trigger
  MaxConcurrent,  \* slots of a cycle's semaphore (20 in the code)
  MaxRevision,    \* bound: revisions of one device's configuration
  DbFails,        \* whether a query may fail
  Crashes,        \* whether the process may die
  Stops,          \* whether the process may be asked to stop
  Alerted,        \* the nodes that an enabled alert rule matches
  Operators       \* whether operators disable nodes and snooze alerts

Leaders == {Ticker} \cup Cycles
Callers == Leaders \cup Clients

ASSUME SchedulerAssumption ==
  /\ Leaders \cap Clients = {}
  /\ Ticker \notin Cycles
  /\ NoHash \notin Hashes
  /\ Alerted \subseteq Nodes
  /\ IsFiniteSet(Nodes)
  /\ MaxConcurrent \in Nat \ {0}
  /\ MaxRevision \in Nat \ {0}
  /\ {DbFails, Crashes, Stops, Operators} \subseteq BOOLEAN

VARIABLES
  \* the process, lost in a crash
  server,         \* how far main is, see ServerPhase
  isRunning,      \* the flag of the CompareAndSwap
  leader,         \* where each leader is
  locked,         \* nodes whose one-slot channel in nodeLocks is full
  jobs,           \* goroutines the WaitGroup jobs counts
  pc,             \* where the backup of a node for a caller is
  seen,           \* the columns of the *models.Node that runBackup reads
  config,         \* what PerformBackup returned
  last,           \* the lastBackup row that runBackup loaded
  \* the database
  lastStatus,     \* nodes.last_status
  pending,        \* whether the WHERE clause of checkBackupsLocked holds
  snoozed,        \* whether nodes.alert_snooze_until is set
  versions,       \* the node_backups rows with status success
  failures,       \* the version in the newest row with status error, or 0
  \* the outside
  device,         \* every configuration the device has had, in order
  failureAlerts   \* "Backup Failed" messages handed to Dispatch since the
                  \* last "Backup Recovered", up to 2

dbVars      == <<lastStatus, pending, snoozed, versions, failures>>
jobVars     == <<pc, seen, config, last>>
outsideVars == <<device, failureAlerts>>
cycleVars   == <<server, isRunning, leader>>
vars == <<server, isRunning, leader, locked, jobs, pc, seen, config, last,
          lastStatus, pending, snoozed, versions, failures,
          device, failureAlerts>>

-----------------------------------------------------------------------------
(* main: "up"; "draining" in app.Shutdown; in Stop, "stopping" or, when    *)
(* app.Shutdown failed with handlers under way, "hasty"; "closing" or      *)
(* "exiting" when that Stop returned and the pool is closed; "down".       *)
ServerPhase == {"up", "draining", "stopping", "hasty", "closing", "exiting",
                "down"}

Status   == {"never", "success", "error"}
Working  == {"fetch", "load", "create", "drift", "recover", "fail", "alert",
             "saveSuccess", "saveError"}      \* inside runBackup
JobPc    == {"idle", "queued", "spawned", "handler"} \cup Working
LeaderPc == {"idle", "handler", "select", "query", "pool", "exports",
             "stopped"}

RowView  == [lastStatus : Status, snoozed : BOOLEAN]
Config   == [hash : Hashes \cup {NoHash}, rev : Nat]
Version  == [version : Nat, hash : Hashes \cup {NoHash}, rev : Nat]

NoRow     == [lastStatus |-> "never", snoozed |-> FALSE]
NoConfig  == [hash |-> NoHash, rev |-> 0]
NoVersion == [version |-> 0, hash |-> NoHash, rev |-> 0]

Revision(n) == Len(device[n])
RowOf(n)    == [lastStatus |-> lastStatus[n], snoozed |-> snoozed[n]]

(* SELECT ... ORDER BY version DESC LIMIT 1, or the zero row.              *)
IsNewest(r, n) == \/ /\ r \in versions[n]
                     /\ \A q \in versions[n] : q.version <= r.version
                  \/ versions[n] = {} /\ r = NoVersion

(* time.Now().Before(AlertSnoozeUntil) on the row read earlier: a snooze   *)
(* may have run out since. The query for the rules may find none, or fail  *)
(* unnoticed.                                                              *)
Muted(c, n) == IF n \notin Alerted THEN {TRUE}
               ELSE IF seen[c][n].snoozed \/ DbFails THEN BOOLEAN ELSE {FALSE}

IdleJobs(v) == [c \in Callers |-> [n \in Nodes |-> v]]

(* Where the leaders of a process in this phase begin.                     *)
FirstLeaders(phase) ==
  [l \in Leaders |-> IF l # Ticker THEN "idle"
                     ELSE IF phase = "up" THEN "select" ELSE "stopped"]

Init ==
  /\ server = "up"
  /\ isRunning = FALSE
  /\ leader = FirstLeaders("up")
  /\ locked = {}
  /\ jobs = {}
  /\ pc = IdleJobs("idle")
  /\ seen = IdleJobs(NoRow)
  /\ config = IdleJobs(NoConfig)
  /\ last = IdleJobs(NoVersion)
  /\ lastStatus = [n \in Nodes |-> "never"]
  /\ pending = [n \in Nodes |-> TRUE]
  /\ snoozed = [n \in Nodes |-> FALSE]
  /\ versions = [n \in Nodes |-> {}]
  /\ failures = [n \in Nodes |-> 0]
  /\ \E h \in [Nodes -> Hashes] : device = [n \in Nodes |-> <<h[n]>>]
  /\ failureAlerts = [n \in Nodes |-> 0]

-----------------------------------------------------------------------------
(* The synchronisation objects. An operator named ...Mutant is a bug that  *)
(* the runs must catch, not the code.                                      *)

JobsAddMutant(g)  == UNCHANGED jobs       \* jobs.Add(1) is missing
JobsDoneMutant(g) == UNCHANGED jobs       \* jobs.Done() is missing
JobsAdd(g)  == jobs' = jobs \cup {g}
JobsDone(g) == jobs' = jobs \ {g}

SwapRunningMutant  == isRunning' = TRUE   \* the flag is not tested
ClearRunningMutant == UNCHANGED isRunning \* the flag is not cleared
SwapRunning  == ~isRunning /\ isRunning' = TRUE
ClearRunning == isRunning' = FALSE

tryLockNodeMutant(n) == locked' = locked \cup {n}   \* does not look
unlockNodeMutant(n)  == UNCHANGED locked            \* is not deferred
tryLockNode(n) == n \notin locked /\ locked' = locked \cup {n}
unlockNode(n)  == locked' = locked \ {n}

-----------------------------------------------------------------------------
(* The ticker and the cycles.                                              *)

(* A tick: CheckBackups starts a cycle unless one is running.              *)
CheckBackups ==
  /\ leader[Ticker] = "select"
  /\ \/ /\ SwapRunning
        /\ leader' = [leader EXCEPT ![Ticker] = "query"]
     \/ /\ isRunning
        /\ leader' = [leader EXCEPT ![Ticker] = "exports"]
        /\ UNCHANGED isRunning
  /\ UNCHANGED <<server, locked, jobs, jobVars, dbVars, outsideVars>>

(* POST /trigger-backups: a request comes in...                            *)
TriggerBackups(l) ==
  /\ server = "up"
  /\ leader[l] = "idle"
  /\ leader' = [leader EXCEPT ![l] = "handler"]
  /\ UNCHANGED <<server, isRunning, locked, jobs, jobVars, dbVars,
                 outsideVars>>

(* ... and starts a cycle, or is refused (409) while one is running.       *)
StartBackupCycle(l) ==
  /\ leader[l] = "handler"
  /\ \/ /\ SwapRunning
        /\ JobsAdd(<<l>>)
        /\ leader' = [leader EXCEPT ![l] = "query"]
     \/ /\ isRunning
        /\ leader' = [leader EXCEPT ![l] = "idle"]
        /\ UNCHANGED <<isRunning, jobs>>
  /\ UNCHANGED <<server, locked, jobVars, dbVars, outsideVars>>

(* checkBackupsLocked loads the pending nodes; the rows it hands to the    *)
(* workers are the ones of this moment.                                    *)
LoadPending(l) ==
  /\ leader[l] = "query"
  /\ leader' = [leader EXCEPT ![l] = "pool"]
  /\ \/ DbFails /\ UNCHANGED jobVars
     \/ /\ pc' = [pc EXCEPT ![l] =
                    [n \in Nodes |-> IF pending[n] THEN "queued" ELSE @[n]]]
        /\ seen' = [seen EXCEPT ![l] =
                      [n \in Nodes |-> IF pending[n] THEN RowOf(n) ELSE @[n]]]
        /\ UNCHANGED <<config, last>>
  /\ UNCHANGED <<server, isRunning, locked, jobs, dbVars, outsideVars>>

Workers(l) == {n \in Nodes : pc[l][n] \notin {"idle", "queued"}}

(* The loop takes a semaphore slot and starts a goroutine for a node.      *)
Spawn(l, n) ==
  /\ pc[l][n] = "queued"
  /\ Cardinality(Workers(l)) < MaxConcurrent
  /\ pc' = [pc EXCEPT ![l][n] = "spawned"]
  /\ UNCHANGED <<cycleVars, locked, jobs, seen, config, last,
                 dbVars, outsideVars>>

(* wg.Wait returned: the cycle is over.                                    *)
CycleDone(l) ==
  /\ leader[l] = "pool"
  /\ \A n \in Nodes : pc[l][n] = "idle"
  /\ ClearRunning
  /\ leader' = [leader EXCEPT ![l] = IF l = Ticker THEN "exports" ELSE "idle"]
  /\ JobsDone(<<l>>)
  /\ UNCHANGED <<server, locked, jobVars, dbVars, outsideVars>>

(* CheckExports runs in the ticker goroutine, after CheckBackups; its own  *)
(* state is not the scheduler's.                                           *)
CheckExports ==
  /\ leader[Ticker] = "exports"
  /\ leader' = [leader EXCEPT ![Ticker] = "select"]
  /\ UNCHANGED <<server, isRunning, locked, jobs, jobVars, dbVars, outsideVars>>

-----------------------------------------------------------------------------
(* The node lock and its two users.                                        *)

Forget(c, n) == /\ seen'   = [seen   EXCEPT ![c][n] = NoRow]
                /\ config' = [config EXCEPT ![c][n] = NoConfig]
                /\ last'   = [last   EXCEPT ![c][n] = NoVersion]

(* The goroutine of a cycle: RunBackup gives up at once on a locked node.  *)
RunBackup(l, n) ==
  /\ pc[l][n] = "spawned"
  /\ \/ /\ tryLockNode(n)
        /\ pc' = [pc EXCEPT ![l][n] = "fetch"]
        /\ UNCHANGED <<seen, config, last>>
     \/ /\ n \in locked
        /\ pc' = [pc EXCEPT ![l][n] = "idle"]
        /\ Forget(l, n)
        /\ UNCHANGED locked
  /\ UNCHANGED <<cycleVars, jobs, dbVars, outsideVars>>

(* POST /nodes/:id/trigger: the handler reads the node...                  *)
TriggerNode(c, n) ==
  /\ server = "up"
  /\ pc[c][n] = "idle"
  /\ pc' = [pc EXCEPT ![c][n] = "handler"]
  /\ seen' = [seen EXCEPT ![c][n] = RowOf(n)]
  /\ UNCHANGED <<cycleVars, locked, jobs, config, last, dbVars, outsideVars>>

(* ... and only then asks StartBackup for the lock (409 when it is taken). *)
StartBackup(c, n) ==
  /\ pc[c][n] = "handler"
  /\ \/ /\ tryLockNode(n)
        /\ JobsAdd(<<c, n>>)
        /\ pc' = [pc EXCEPT ![c][n] = "fetch"]
        /\ UNCHANGED <<seen, config, last>>
     \/ /\ n \in locked
        /\ pc' = [pc EXCEPT ![c][n] = "idle"]
        /\ Forget(c, n)
        /\ UNCHANGED <<locked, jobs>>
  /\ UNCHANGED <<cycleVars, dbVars, outsideVars>>

(* runBackup returned: the deferred unlockNode and jobs.Done.              *)
Return(c, n) ==
  /\ pc' = [pc EXCEPT ![c][n] = "idle"]
  /\ Forget(c, n)
  /\ unlockNode(n)
  /\ JobsDone(<<c, n>>)

-----------------------------------------------------------------------------
(* runBackup, one action per database query or alert.                      *)

Goto(c, n, label) == pc' = [pc EXCEPT ![c][n] = label]

(* PerformBackup returns the configuration of this moment, or an error.    *)
FetchOk(c, n) ==
  /\ pc[c][n] = "fetch"
  /\ config' = [config EXCEPT ![c][n] = [hash |-> device[n][Revision(n)],
                                         rev  |-> Revision(n)]]
  /\ Goto(c, n, "load")
  /\ UNCHANGED <<cycleVars, locked, jobs, seen, last, dbVars, outsideVars>>

FetchError(c, n) ==
  /\ pc[c][n] = "fetch"
  /\ Goto(c, n, "fail")
  /\ UNCHANGED <<cycleVars, locked, jobs, seen, config, last,
                 dbVars, outsideVars>>

SameConfigMutant(c, n, r) == FALSE      \* every backup is a new version
SameConfig(c, n, r) == r.hash = config[c][n].hash

(* The newest successful version; a query error abandons the backup with   *)
(* the node as it was.                                                     *)
LoadLast(c, n) ==
  /\ pc[c][n] = "load"
  /\ \E r \in versions[n] \cup {NoVersion} :
        /\ IsNewest(r, n)
        /\ last' = [last EXCEPT ![c][n] = r]
        /\ Goto(c, n, IF SameConfig(c, n, r) THEN "recover" ELSE "create")
  /\ UNCHANGED <<cycleVars, locked, jobs, seen, config, dbVars, outsideVars>>

NewVersionMutantNumber(c, n) ==         \* the number is not incremented
  [version |-> IF last[c][n] = NoVersion THEN 1 ELSE last[c][n].version,
   hash    |-> config[c][n].hash,
   rev     |-> config[c][n].rev]
NewVersionMutantHash(c, n) ==           \* the hash of the previous row
  [version |-> last[c][n].version + 1,
   hash    |-> last[c][n].hash,
   rev     |-> config[c][n].rev]
NewVersion(c, n) == [version |-> last[c][n].version + 1,
                     hash    |-> config[c][n].hash,
                     rev     |-> config[c][n].rev]

AfterCreateMutant(c, n) ==              \* drift is not told after an outage
  IF last[c][n] = NoVersion \/ seen[c][n].lastStatus = "error"
  THEN "recover" ELSE "drift"
AfterCreate(c, n) == IF last[c][n] = NoVersion THEN "recover" ELSE "drift"

(* INSERT of the new version: idx_node_backups_success_version refuses a   *)
(* number in use.                                                          *)
CreateVersion(c, n) ==
  /\ pc[c][n] = "create"
  /\ \A r \in versions[n] : r.version # NewVersion(c, n).version
  /\ versions' = [versions EXCEPT ![n] = @ \cup {NewVersion(c, n)}]
  /\ Goto(c, n, AfterCreate(c, n))
  /\ UNCHANGED <<cycleVars, locked, jobs, seen, config, last, lastStatus,
                 pending, snoozed, failures, outsideVars>>

(* "Configuration Drift Detected", for a change after the first version.   *)
AlertDrift(c, n) ==
  /\ pc[c][n] = "drift"
  /\ Goto(c, n, "recover")
  /\ UNCHANGED <<cycleVars, locked, jobs, seen, config, last,
                 dbVars, outsideVars>>

(* "Backup Recovered", judged by the row that was read at the start.       *)
RecoveryIsNewsMutant(c, n) == lastStatus[n] = "success"   \* the wrong way
RecoveryIsNews(c, n) == seen[c][n].lastStatus = "error"

TellRecovery(c, n, muted) ==
  /\ pc[c][n] = "recover"
  /\ failureAlerts' = IF RecoveryIsNews(c, n) /\ ~muted
                      THEN [failureAlerts EXCEPT ![n] = 0] ELSE failureAlerts
  /\ Goto(c, n, "saveSuccess")
  /\ UNCHANGED <<cycleVars, locked, jobs, seen, config, last, dbVars, device>>

AlertRecovery(c, n) == \E muted \in Muted(c, n) : TellRecovery(c, n, muted)

(* The row of a failed attempt carries the newest version, or 0; a query   *)
(* error is only logged.                                                   *)
RecordFailure(c, n) ==
  /\ pc[c][n] = "fail"
  /\ \/ \E r \in versions[n] \cup {NoVersion} :
          /\ IsNewest(r, n) \/ (DbFails /\ r = NoVersion)
          /\ failures' = [failures EXCEPT ![n] = r.version]
     \/ DbFails /\ UNCHANGED failures
  /\ Goto(c, n, "alert")
  /\ UNCHANGED <<cycleVars, locked, jobs, seen, config, last, lastStatus,
                 pending, snoozed, versions, outsideVars>>

FailureIsNewsMutant(c, n) == TRUE       \* every failure is told
FailureIsNews(c, n) == seen[c][n].lastStatus # "error"

(* "Backup Failed", unless the row read at the start was failing already.  *)
TellFailure(c, n, muted) ==
  /\ pc[c][n] = "alert"
  /\ failureAlerts' =
       IF FailureIsNews(c, n) /\ ~muted /\ failureAlerts[n] < 2
       THEN [failureAlerts EXCEPT ![n] = @ + 1] ELSE failureAlerts
  /\ Goto(c, n, "saveError")
  /\ UNCHANGED <<cycleVars, locked, jobs, seen, config, last, dbVars, device>>

AlertFailure(c, n) == \E muted \in Muted(c, n) : TellFailure(c, n, muted)

OutcomeMutant(c, n) == ""               \* status is not set on this path
Outcome(c, n) == IF pc[c][n] = "saveSuccess" THEN "success" ELSE "error"

(* UPDATE of last_status and next_backup_at. The next run is in the        *)
(* future, so the node is no longer pending.                               *)
UpdateNode(c, n) ==
  /\ pc[c][n] \in {"saveSuccess", "saveError"}
  /\ lastStatus' = [lastStatus EXCEPT ![n] = Outcome(c, n)]
  /\ pending' = [pending EXCEPT ![n] = FALSE]
  /\ Return(c, n)
  /\ UNCHANGED <<cycleVars, snoozed, versions, failures, outsideVars>>

(* The early returns of runBackup: a failed load, insert or update.        *)
QueryFails(c, n) ==
  /\ \/ DbFails /\ pc[c][n] \in {"load", "create", "saveSuccess", "saveError"}
     \/ /\ pc[c][n] = "create"
        /\ \E r \in versions[n] : r.version = NewVersion(c, n).version
  /\ Return(c, n)
  /\ UNCHANGED <<cycleVars, dbVars, outsideVars>>

runBackup(c, n) ==
  \/ FetchOk(c, n) \/ FetchError(c, n) \/ LoadLast(c, n)
  \/ CreateVersion(c, n) \/ AlertDrift(c, n) \/ AlertRecovery(c, n)
  \/ RecordFailure(c, n) \/ AlertFailure(c, n) \/ UpdateNode(c, n)
  \/ QueryFails(c, n)

-----------------------------------------------------------------------------
(* The life of the process.                                                *)

(* A signal, or app.Listen returned: app.Shutdown takes no new request...  *)
Shutdown ==
  /\ Stops /\ server = "up"
  /\ server' = "draining"
  /\ UNCHANGED <<isRunning, leader, locked, jobs, jobVars, dbVars, outsideVars>>

(* ... and waits for the handlers under way, or fails, which is logged;    *)
(* then Stop closes s.stop.                                                *)
Stop ==
  /\ server = "draining"
  /\ \/ /\ \A c \in Clients, n \in Nodes : pc[c][n] # "handler"
        /\ \A l \in Cycles : leader[l] # "handler"
        /\ server' = "stopping"
     \/ server' = "hasty"
  /\ UNCHANGED <<isRunning, leader, locked, jobs, jobVars, dbVars, outsideVars>>

(* The select of the ticker goroutine took s.stop.                         *)
TickerReturns ==
  /\ server \in {"stopping", "hasty"}
  /\ leader[Ticker] = "select"
  /\ leader' = [leader EXCEPT ![Ticker] = "stopped"]
  /\ UNCHANGED <<server, isRunning, locked, jobs, jobVars, dbVars, outsideVars>>

(* <-s.stopped and jobs.Wait: Stop returns, main closes the pool.          *)
StopReturns ==
  /\ server \in {"stopping", "hasty"}
  /\ leader[Ticker] = "stopped"
  /\ jobs = {}
  /\ server' = IF server = "stopping" THEN "closing" ELSE "exiting"
  /\ UNCHANGED <<isRunning, leader, locked, jobs, jobVars, dbVars, outsideVars>>

(* The variables of the process, as NewScheduler makes them.               *)
FreshProcess(phase) ==
  /\ server' = phase
  /\ isRunning' = FALSE
  /\ leader' = FirstLeaders(phase)
  /\ locked' = {}
  /\ jobs' = {}
  /\ pc' = IdleJobs("idle")
  /\ seen' = IdleJobs(NoRow)
  /\ config' = IdleJobs(NoConfig)
  /\ last' = IdleJobs(NoVersion)

(* main returns. A goroutine left behind has had no pool since the close,  *)
(* so that nothing it did after that lasts.                                *)
Exit ==
  /\ server \in {"closing", "exiting"}
  /\ FreshProcess("down")
  /\ UNCHANGED <<dbVars, outsideVars>>

Crash ==
  /\ Crashes /\ server # "down"
  /\ FreshProcess("down")
  /\ UNCHANGED <<dbVars, outsideVars>>

Start ==
  /\ server = "down"
  /\ FreshProcess("up")
  /\ UNCHANGED <<dbVars, outsideVars>>

-----------------------------------------------------------------------------
(* The surroundings: devices, the clock and the operators.                 *)

Reconfigure(n) ==
  /\ Revision(n) < MaxRevision
  /\ \E h \in Hashes \ {device[n][Revision(n)]} :
        device' = [device EXCEPT ![n] = Append(@, h)]
  /\ UNCHANGED <<cycleVars, locked, jobs, jobVars, dbVars, failureAlerts>>

(* The next run arrives, or an operator enables the node or its routine.   *)
BecomePending(n) ==
  /\ ~pending[n]
  /\ pending' = [pending EXCEPT ![n] = TRUE]
  /\ UNCHANGED <<cycleVars, locked, jobs, jobVars, lastStatus, snoozed,
                 versions, failures, outsideVars>>

(* An operator disables the node or its routine.                           *)
Disable(n) ==
  /\ Operators /\ pending[n]
  /\ pending' = [pending EXCEPT ![n] = FALSE]
  /\ UNCHANGED <<cycleVars, locked, jobs, jobVars, lastStatus, snoozed,
                 versions, failures, outsideVars>>

(* SnoozeNode sets or clears alert_snooze_until; time clears it too.       *)
SnoozeNode(n) ==
  /\ Operators
  /\ snoozed' = [snoozed EXCEPT ![n] = ~@]
  /\ UNCHANGED <<cycleVars, locked, jobs, jobVars, lastStatus, pending,
                 versions, failures, outsideVars>>

-----------------------------------------------------------------------------
CycleStep(l) ==
  \/ LoadPending(l) \/ CycleDone(l)
  \/ \E n \in Nodes : Spawn(l, n) \/ RunBackup(l, n)

Environment == \E n \in Nodes :
  Reconfigure(n) \/ BecomePending(n) \/ Disable(n) \/ SnoozeNode(n)

Next ==
  \/ CheckBackups \/ CheckExports \/ TickerReturns
  \/ \E l \in Cycles : TriggerBackups(l) \/ StartBackupCycle(l)
  \/ \E l \in Leaders : CycleStep(l)
  \/ \E c \in Clients, n \in Nodes : TriggerNode(c, n) \/ StartBackup(c, n)
  \/ \E c \in Callers, n \in Nodes : runBackup(c, n)
  \/ Shutdown \/ Stop \/ StopReturns \/ Exit \/ Crash \/ Start
  \/ Environment

Spec == Init /\ [][Next]_vars

-----------------------------------------------------------------------------
(* Safety.                                                                 *)

(* Every variable keeps its type.                                          *)
TypeOK ==
  /\ server \in ServerPhase
  /\ isRunning \in BOOLEAN
  /\ leader \in [Leaders -> LeaderPc]
  /\ locked \subseteq Nodes
  /\ jobs \subseteq {<<l>> : l \in Cycles} \cup (Clients \X Nodes)
  /\ pc \in [Callers -> [Nodes -> JobPc]]
  /\ seen \in [Callers -> [Nodes -> RowView]]
  /\ config \in [Callers -> [Nodes -> Config]]
  /\ last \in [Callers -> [Nodes -> Version]]
  /\ lastStatus \in [Nodes -> Status]
  /\ pending \in [Nodes -> BOOLEAN]
  /\ snoozed \in [Nodes -> BOOLEAN]
  /\ versions \in [Nodes -> SUBSET Version]
  /\ failures \in [Nodes -> Nat]
  /\ device \in [Nodes -> Seq(Hashes) \ {<<>>}]
  /\ failureAlerts \in [Nodes -> 0..2]

(* However cycles and requests for the same node overlap, one goroutine at *)
(* most is inside runBackup for it, and the node's lock is held then.      *)
BackupExclusive ==
  \A n \in Nodes : \A c \in Callers : pc[c][n] \in Working =>
    /\ n \in locked
    /\ \A d \in Callers : pc[d][n] \in Working => d = c

(* "Limit concurrency to 20": the ticker's cycle and the one an operator   *)
(* started never add up to more backups than one semaphore has slots.      *)
CycleBackupsBounded ==
  Cardinality({p \in Leaders \X Nodes : pc[p[1]][p[2]] \in Working})
    <= MaxConcurrent

(* The versions of a node are numbered 1, 2, ... once each, follow the     *)
(* order in which the device had the configurations, and two in a row      *)
(* differ - although the configuration is fetched, compared and inserted   *)
(* in separate steps, and any of them may be the last before a crash.      *)
VersionsFollowDevice ==
  \A n \in Nodes : \A r \in versions[n] :
    /\ r.rev \in 1..Len(device[n]) /\ r.hash = device[n][r.rev]
    /\ r.version = 1 \/ \E q \in versions[n] : /\ q.version = r.version - 1
                                                /\ q.hash # r.hash
    /\ \A q \in versions[n] : q.version < r.version => q.rev < r.rev
    /\ \A q \in versions[n] : q.version = r.version => q = r

(* When Stop has returned and main closes the pool, no cycle, no backup    *)
(* and no request that could start one is left, and no lock is held,       *)
(* provided that app.Shutdown did wait for the handlers. Stop waits for    *)
(* nobody else: the goroutines of alert.Dispatch, which log to the         *)
(* database what became of a message, may still be sending.                *)
QuiescentAtClose ==
  server = "closing" =>
    /\ locked = {} /\ ~isRunning
    /\ \A c \in Callers, n \in Nodes : pc[c][n] = "idle"
    /\ \A l \in Leaders : leader[l] \in {"idle", "stopped"}

(* The alerts. "Only alert a failure when the node was not failing before" *)
(* (the comment of runBackup): no failure is handed to Dispatch for a node *)
(* whose row says that it is failing.                                      *)
AlertOnTransitionOnly ==
  [][\A n \in Nodes : failureAlerts'[n] > failureAlerts[n]
                        => lastStatus[n] # "error"]_vars

(* The history that BackupHistory promises.                                *)
History == INSTANCE BackupHistory
ImplementsHistory == History!Spec

-----------------------------------------------------------------------------
(* Liveness. Every goroutine that can run does: the Go scheduler is fair.  *)
(* The select of the ticker picks at random among what is ready, so it     *)
(* takes s.stop in the end. Nothing here makes PerformBackup or CheckExports*)
(* return: after the TCP connection neither the SSH session (ssh/service.go*)
(* 159-195, 235) nor the transfer (sftp/service.go 142-176) has a deadline,*)
(* and a peer that falls silent holds the goroutine. Requests, signals,    *)
(* devices and operators owe nothing either.                               *)
Fairness ==
  /\ WF_vars(CheckBackups)
  /\ \A l \in Leaders : /\ WF_vars(LoadPending(l)) /\ WF_vars(CycleDone(l))
                         /\ \A n \in Nodes : /\ WF_vars(Spawn(l, n))
                                             /\ WF_vars(RunBackup(l, n))
  /\ \A l \in Cycles : WF_vars(StartBackupCycle(l))
  /\ \A c \in Clients, n \in Nodes : WF_vars(StartBackup(c, n))
  /\ \A c \in Callers, n \in Nodes :
        WF_vars(pc[c][n] # "fetch" /\ runBackup(c, n))
  /\ SF_vars(TickerReturns) /\ WF_vars(StopReturns) /\ WF_vars(Exit)

FairSpec == Spec /\ Fairness

(* What the code leaves to the peers: the session with the device, the     *)
(* exports of a tick and app.Shutdown return.                              *)
SessionsReturn(C) == \A c \in C, n \in Nodes : []<>(pc[c][n] # "fetch")
ExportsReturn     == []<>(leader[Ticker] # "exports")
ShutdownReturns   == WF_vars(Stop)

(* A cycle ends, so that isRunning does not stay set and block the later   *)
(* ones, provided that the sessions of the cycles return: one device that  *)
(* falls silent keeps the flag for ever.                                   *)
CyclesEnd == SessionsReturn(Leaders) => (isRunning ~> ~isRunning)

(* A pending node is backed up, whatever manual requests get in the way,   *)
(* or the process is told to stop - provided that every session, with      *)
(* whatever node, and the exports return.                                  *)
PendingServed ==
  SessionsReturn(Callers) /\ ExportsReturn =>
    \A n \in Nodes : pending[n] ~> (~pending[n] \/ server # "up")

(* A signal leads to the end of the process, whatever is under way then -  *)
(* provided that app.Shutdown, every session and the exports return: Stop  *)
(* waits without a limit.                                                  *)
ShutdownCompletes ==
  ShutdownReturns /\ ExportsReturn /\ SessionsReturn(Callers)
    => (server = "draining" ~> server = "down")

(* The configuration a device keeps becomes its newest version, provided   *)
(* that the device answers now and then, that exports return, that the     *)
(* clock goes on, and that a process that went down is started again for   *)
(* good (docker-compose.yml: restart). A crash may come before, between    *)
(* any two steps.                                                          *)
Answering ==
  /\ <>[](server = "up") /\ ExportsReturn
  /\ \A n \in Nodes : WF_vars(BecomePending(n))
  /\ \A c \in Callers, n \in Nodes : SF_vars(FetchOk(c, n))

Recorded(n) == \E r \in versions[n] : /\ IsNewest(r, n)
                                      /\ r.hash = device[n][Revision(n)]

LastConfigRecorded ==
  Answering => \A n \in Nodes : Revision(n) = MaxRevision ~> Recorded(n)
=============================================================================
