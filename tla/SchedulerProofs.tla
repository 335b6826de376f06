-------------------------- MODULE SchedulerProofs --------------------------
(* Theorems about Scheduler for every set of nodes, leaders and clients,   *)
(* every bound and every choice of faults.                                 *)
EXTENDS Scheduler, FiniteSetTheorems, SequenceTheorems, TLAPS

-----------------------------------------------------------------------------
(* The values a fresh process and a finished backup put into the variables *)
(* have the right types.                                                   *)
LEMMA FreshValues ==
  /\ NoRow \in RowView /\ NoConfig \in Config /\ NoVersion \in Version
  /\ IdleJobs("idle") \in [Callers -> [Nodes -> JobPc]]
  /\ IdleJobs(NoRow) \in [Callers -> [Nodes -> RowView]]
  /\ IdleJobs(NoConfig) \in [Callers -> [Nodes -> Config]]
  /\ IdleJobs(NoVersion) \in [Callers -> [Nodes -> Version]]
  /\ \A phase : FirstLeaders(phase) \in [Leaders -> LeaderPc]
<1>1. NoRow \in RowView
  BY DEF NoRow, RowView, Status
<1>2. NoConfig \in Config
  BY DEF NoConfig, Config
<1>3. NoVersion \in Version
  BY DEF NoVersion, Version
<1>4. \A S : \A v \in S : IdleJobs(v) \in [Callers -> [Nodes -> S]]
  BY DEF IdleJobs
<1>5. "idle" \in JobPc
  BY DEF JobPc
<1>6. \A phase : FirstLeaders(phase) \in [Leaders -> LeaderPc]
  BY DEF FirstLeaders, LeaderPc
<1> QED
  BY <1>1, <1>2, <1>3, <1>4, <1>5, <1>6

LEMMA ForgetType ==
  ASSUME TypeOK, NEW c \in Callers, NEW n \in Nodes, Forget(c, n)
  PROVE  /\ seen' \in [Callers -> [Nodes -> RowView]]
         /\ config' \in [Callers -> [Nodes -> Config]]
         /\ last' \in [Callers -> [Nodes -> Version]]
BY FreshValues DEF Forget, TypeOK

LEMMA TypeInit == Init => TypeOK
<1> SUFFICES ASSUME Init PROVE TypeOK
  OBVIOUS
<1>1. device \in [Nodes -> Seq(Hashes) \ {<<>>}]
  BY DEF Init
<1>2. /\ lastStatus \in [Nodes -> Status]
      /\ pending \in [Nodes -> BOOLEAN] /\ snoozed \in [Nodes -> BOOLEAN]
      /\ versions \in [Nodes -> SUBSET Version]
      /\ failures \in [Nodes -> Nat]
      /\ failureAlerts \in [Nodes -> 0..2]
  BY DEF Init, Status
<1> QED
  BY <1>1, <1>2, FreshValues DEF Init, TypeOK, ServerPhase

LEMMA TypeStep == TypeOK /\ [Next]_vars => TypeOK'
<1> SUFFICES ASSUME TypeOK, [Next]_vars PROVE TypeOK'
  OBVIOUS
<1> USE SchedulerAssumption
    DEF TypeOK, dbVars, jobVars, outsideVars, cycleVars
<1>1. CASE CheckBackups
  BY <1>1 DEF CheckBackups, SwapRunning, LeaderPc, Leaders
<1>2. CASE CheckExports
  BY <1>2 DEF CheckExports, LeaderPc, Leaders
<1>3. CASE TickerReturns
  BY <1>3 DEF TickerReturns, LeaderPc, Leaders
<1>4. ASSUME NEW l \in Cycles, TriggerBackups(l) \/ StartBackupCycle(l)
      PROVE  TypeOK'
  BY <1>4 DEF TriggerBackups, StartBackupCycle, SwapRunning, JobsAdd,
              LeaderPc, Leaders
<1>5. ASSUME NEW l \in Leaders, LoadPending(l) PROVE TypeOK'
  <2>1. \A n \in Nodes : RowOf(n) \in RowView
    BY DEF RowOf, RowView
  <2>2. "queued" \in JobPc /\ "pool" \in LeaderPc /\ l \in Callers
    BY DEF JobPc, LeaderPc, Callers
  <2>3. /\ pc' \in [Callers -> [Nodes -> JobPc]]
        /\ seen' \in [Callers -> [Nodes -> RowView]]
        /\ config' = config /\ last' = last
    <3>1. CASE UNCHANGED jobVars
      BY <3>1
    <3>2. CASE ~UNCHANGED jobVars
      <4> DEFINE P == [n \in Nodes |-> IF pending[n] THEN "queued"
                                       ELSE pc[l][n]]
                 R == [n \in Nodes |-> IF pending[n] THEN RowOf(n)
                                       ELSE seen[l][n]]
      <4>1. P \in [Nodes -> JobPc] /\ R \in [Nodes -> RowView]
        BY <2>1, <2>2
      <4>2. /\ pc' = [pc EXCEPT ![l] = P] /\ seen' = [seen EXCEPT ![l] = R]
            /\ UNCHANGED <<config, last>>
        BY <1>5, <3>2 DEF LoadPending
      <4> HIDE DEF P, R
      <4> QED BY <4>1, <4>2, <2>2
    <3> QED BY <3>1, <3>2
  <2> QED BY <1>5, <2>2, <2>3 DEF LoadPending
<1>6. ASSUME NEW l \in Leaders, CycleDone(l) PROVE TypeOK'
  BY <1>6 DEF CycleDone, ClearRunning, JobsDone, LeaderPc
<1>7. ASSUME NEW l \in Leaders, NEW n \in Nodes, Spawn(l, n) PROVE TypeOK'
  BY <1>7 DEF Spawn, JobPc, Callers
<1>8. ASSUME NEW l \in Leaders, NEW n \in Nodes, RunBackup(l, n) PROVE TypeOK'
  <2>1. l \in Callers
    BY DEF Callers
  <2>2. /\ seen' \in [Callers -> [Nodes -> RowView]]
        /\ config' \in [Callers -> [Nodes -> Config]]
        /\ last' \in [Callers -> [Nodes -> Version]]
    BY <1>8, <2>1, ForgetType DEF RunBackup
  <2>3. pc' \in [Callers -> [Nodes -> JobPc]]
    <3>1. \E label \in {"fetch", "idle"} :
             pc' = [pc EXCEPT ![l][n] = label]
      BY <1>8 DEF RunBackup
    <3> QED BY <2>1, <3>1 DEF JobPc, Working
  <2>4. locked' \subseteq Nodes
    BY <1>8 DEF RunBackup, tryLockNode
  <2>5. UNCHANGED <<cycleVars, jobs, dbVars, outsideVars>>
    BY <1>8 DEF RunBackup
  <2> QED
    BY <2>2, <2>3, <2>4, <2>5
<1>9. ASSUME NEW c \in Clients, NEW n \in Nodes, TriggerNode(c, n)
      PROVE TypeOK'
  BY <1>9 DEF TriggerNode, RowOf, RowView, JobPc, Callers
<1>10. ASSUME NEW c \in Clients, NEW n \in Nodes, StartBackup(c, n)
       PROVE TypeOK'
  <2>1. c \in Callers
    BY DEF Callers
  <2>2. /\ seen' \in [Callers -> [Nodes -> RowView]]
        /\ config' \in [Callers -> [Nodes -> Config]]
        /\ last' \in [Callers -> [Nodes -> Version]]
    BY <1>10, <2>1, ForgetType DEF StartBackup
  <2>3. pc' \in [Callers -> [Nodes -> JobPc]]
    <3>1. \E label \in {"fetch", "idle"} :
             pc' = [pc EXCEPT ![c][n] = label]
      BY <1>10 DEF StartBackup
    <3> QED BY <2>1, <3>1 DEF JobPc, Working
  <2>4. /\ locked' \subseteq Nodes
        /\ jobs' \subseteq {<<l>> : l \in Cycles} \cup (Clients \X Nodes)
    BY <1>10 DEF StartBackup, tryLockNode, JobsAdd
  <2>5. UNCHANGED <<cycleVars, dbVars, outsideVars>>
    BY <1>10 DEF StartBackup
  <2> QED
    BY <2>2, <2>3, <2>4, <2>5
<1>11. ASSUME NEW c \in Callers, NEW n \in Nodes, runBackup(c, n)
       PROVE TypeOK'
  <2> USE DEF Goto, JobPc, Working
  <2>1. CASE FetchOk(c, n)
    <3>1. Revision(n) \in Nat /\ device[n][Revision(n)] \in Hashes
      BY DEF Revision
    <3>2. [hash |-> device[n][Revision(n)], rev |-> Revision(n)] \in Config
      BY <3>1 DEF Config
    <3> QED BY <2>1, <3>2 DEF FetchOk
  <2>2. CASE FetchError(c, n)
    BY <2>2 DEF FetchError
  <2>3. CASE LoadLast(c, n)
    BY <2>3, FreshValues DEF LoadLast
  <2>4. CASE CreateVersion(c, n)
    <3>1. NewVersion(c, n) \in Version
      BY DEF NewVersion, Version, Config
    <3> QED BY <2>4, <3>1 DEF CreateVersion, AfterCreate
  <2>5. CASE AlertDrift(c, n)
    BY <2>5 DEF AlertDrift
  <2>6. CASE AlertRecovery(c, n)
    BY <2>6 DEF AlertRecovery, TellRecovery
  <2>7. CASE RecordFailure(c, n)
    <3>1. failures' = failures \/ \E r \in Version :
             failures' = [failures EXCEPT ![n] = r.version]
      BY <2>7, FreshValues DEF RecordFailure
    <3>2. failures' \in [Nodes -> Nat]
      BY <3>1 DEF Version
    <3> QED BY <2>7, <3>2 DEF RecordFailure
  <2>8. CASE AlertFailure(c, n)
    <3>1. failureAlerts' \in [Nodes -> 0..2]
      <4>1. failureAlerts[n] < 2 => failureAlerts[n] + 1 \in 0..2
        BY failureAlerts[n] \in 0..2
      <4>2. \/ failureAlerts' = failureAlerts
            \/ /\ failureAlerts[n] < 2
               /\ failureAlerts' = [failureAlerts EXCEPT ![n] = @ + 1]
        BY <2>8 DEF AlertFailure, TellFailure
      <4> QED BY <4>1, <4>2
    <3> QED BY <2>8, <3>1 DEF AlertFailure, TellFailure
  <2>9. CASE UpdateNode(c, n)
    BY <2>9, ForgetType DEF UpdateNode, Return, unlockNode, JobsDone, Outcome,
                            Status
  <2>10. CASE QueryFails(c, n)
    BY <2>10, ForgetType DEF QueryFails, Return, unlockNode, JobsDone
  <2> QED
    BY <1>11, <2>1, <2>2, <2>3, <2>4, <2>5, <2>6, <2>7, <2>8, <2>9, <2>10
       DEF runBackup
<1>12. CASE Shutdown \/ Stop \/ StopReturns
  BY <1>12 DEF Shutdown, Stop, StopReturns, ServerPhase
<1>13. CASE Exit \/ Crash \/ Start
  BY <1>13, FreshValues DEF Exit, Crash, Start, FreshProcess, ServerPhase
<1>14. CASE Environment
  <2> PICK n \in Nodes : \/ Reconfigure(n) \/ BecomePending(n)
                         \/ Disable(n) \/ SnoozeNode(n)
    BY <1>14 DEF Environment
  <2>1. CASE Reconfigure(n)
    <3> PICK h \in Hashes : device' = [device EXCEPT ![n] = Append(@, h)]
      BY <2>1 DEF Reconfigure
    <3>1. Append(device[n], h) \in Seq(Hashes) \ {<<>>}
      <4>1. device[n] \in Seq(Hashes)
        OBVIOUS
      <4> QED BY <4>1, AppendProperties
    <3> QED BY <2>1, <3>1 DEF Reconfigure
  <2>2. CASE BecomePending(n) \/ Disable(n)
    BY <2>2 DEF BecomePending, Disable
  <2>3. CASE SnoozeNode(n)
    BY <2>3 DEF SnoozeNode
  <2> QED BY <2>1, <2>2, <2>3
<1>15. CASE UNCHANGED vars
  BY <1>15 DEF vars
<1> QED
  BY <1>1, <1>2, <1>3, <1>4, <1>5, <1>6, <1>7, <1>8, <1>9, <1>10, <1>11,
     <1>12, <1>13, <1>14, <1>15 DEF Next, CycleStep

(* Every variable keeps its type, for every instance.                      *)
THEOREM TypeCorrect == Spec => []TypeOK
<1>1. TypeOK /\ UNCHANGED vars => TypeOK'
  BY TypeStep
<1> QED BY TypeInit, TypeStep, PTL DEF Spec

-----------------------------------------------------------------------------
(* The inductive invariant. BackupExclusive makes the steps of one backup  *)
(* atomic as far as its node's history goes; the other two conjuncts say   *)
(* what a backup knows between its steps: the configuration it fetched is  *)
(* no older than any recorded version, and the row it loaded is still the  *)
(* newest when it inserts the next one.                                    *)
FetchedIsFresh ==
  \A n \in Nodes : \A c \in Callers : pc[c][n] \in {"load", "create"} =>
    /\ config[c][n].rev \in 1..Len(device[n])
    /\ config[c][n].hash = device[n][config[c][n].rev]
    /\ \A r \in versions[n] : r.rev <= config[c][n].rev

LoadedIsNewest ==
  \A n \in Nodes : \A c \in Callers : pc[c][n] = "create" =>
    /\ IsNewest(last[c][n], n)
    /\ last[c][n].hash # config[c][n].hash

IInv == TypeOK /\ BackupExclusive /\ FetchedIsFresh /\ LoadedIsNewest
               /\ VersionsFollowDevice

LEMMA IInvInit == Init => IInv
<1> SUFFICES ASSUME Init PROVE IInv
  OBVIOUS
<1>1. \A c \in Callers, n \in Nodes : pc[c][n] = "idle"
  BY DEF Init, IdleJobs
<1>2. \A n \in Nodes : versions[n] = {}
  BY DEF Init
<1> QED
  BY <1>1, <1>2, TypeInit DEF IInv, BackupExclusive, FetchedIsFresh,
       LoadedIsNewest,
                        VersionsFollowDevice, Working

(* BackupExclusive by itself: who enters runBackup found the lock free,    *)
(* who leaves it was alone in it.                                          *)
LEMMA ExclusiveStep == TypeOK /\ BackupExclusive /\ [Next]_vars
                         => BackupExclusive'
<1> SUFFICES ASSUME TypeOK, BackupExclusive, [Next]_vars
             PROVE  BackupExclusive'
  OBVIOUS
<1> DEFINE In(c, n) == pc[c][n] \in Working
           Keeps == \A c \in Callers, n \in Nodes : In(c, n)' => In(c, n)
<1>0. pc \in [Callers -> [Nodes -> JobPc]]
  BY DEF TypeOK
<1> USE DEF dbVars, jobVars, outsideVars, cycleVars
<1>1. ASSUME UNCHANGED locked, Keeps PROVE BackupExclusive'
  BY <1>1 DEF BackupExclusive
<1>2. ASSUME UNCHANGED <<pc, locked>> PROVE BackupExclusive'
  BY <1>2 DEF BackupExclusive
<1>3. ASSUME NEW l \in Leaders, LoadPending(l) PROVE BackupExclusive'
  <2>1. Keeps
    BY <1>0, <1>3 DEF LoadPending, Working, Callers
  <2> QED BY <1>1, <1>3, <2>1 DEF LoadPending
<1>4. ASSUME NEW l \in Leaders, NEW n \in Nodes, Spawn(l, n)
      PROVE  BackupExclusive'
  <2>1. Keeps
    BY <1>0, <1>4 DEF Spawn, Working, Callers
  <2> QED BY <1>1, <1>4, <2>1 DEF Spawn
<1>5. ASSUME NEW c \in Clients, NEW n \in Nodes, TriggerNode(c, n)
      PROVE  BackupExclusive'
  <2>1. Keeps
    BY <1>0, <1>5 DEF TriggerNode, Working, Callers
  <2> QED BY <1>1, <1>5, <2>1 DEF TriggerNode
<1>6. ASSUME NEW c \in Callers, NEW n \in Nodes,
             n \notin locked, locked' = locked \cup {n},
             pc' = [pc EXCEPT ![c][n] = "fetch"]
      PROVE  BackupExclusive'
  <2>1. \A d \in Callers : ~In(d, n)
    BY <1>6 DEF BackupExclusive
  <2>2. \A d \in Callers, q \in Nodes : In(d, q)' => In(d, q) \/ (d = c /\ q = n)
    BY <1>0, <1>6
  <2> QED BY <1>6, <2>1, <2>2 DEF BackupExclusive
<1>7. ASSUME NEW c \in Callers, NEW n \in Nodes, UNCHANGED locked,
             pc' = [pc EXCEPT ![c][n] = "idle"]
      PROVE  BackupExclusive'
  <2>1. Keeps
    BY <1>0, <1>7 DEF Working
  <2> QED BY <1>1, <1>7, <2>1
<1>8. ASSUME NEW l \in Leaders, NEW n \in Nodes, RunBackup(l, n)
      PROVE  BackupExclusive'
  BY <1>6, <1>7, <1>8 DEF RunBackup, tryLockNode, Callers
<1>9. ASSUME NEW c \in Clients, NEW n \in Nodes, StartBackup(c, n)
      PROVE  BackupExclusive'
  BY <1>6, <1>7, <1>9 DEF StartBackup, tryLockNode, Callers
<1>10. ASSUME NEW c \in Callers, NEW n \in Nodes, runBackup(c, n)
       PROVE  BackupExclusive'
  <2>0. In(c, n)
    BY <1>10 DEF runBackup, FetchOk, FetchError, LoadLast, CreateVersion,
         AlertDrift, AlertRecovery, TellRecovery, RecordFailure,
         AlertFailure, TellFailure, UpdateNode,
         QueryFails, Working
  <2>1. CASE UpdateNode(c, n) \/ QueryFails(c, n)
    <3>1. /\ locked' = locked \ {n}
          /\ pc' = [pc EXCEPT ![c][n] = "idle"]
      BY <2>1 DEF UpdateNode, QueryFails, Return, unlockNode
    <3>2. \A d \in Callers, q \in Nodes : In(d, q)' => In(d, q) /\ q # n
      BY <1>0, <2>0, <3>1 DEF BackupExclusive, Working
    <3> QED BY <3>1, <3>2 DEF BackupExclusive
  <2>2. CASE ~(UpdateNode(c, n) \/ QueryFails(c, n))
    <3>1. \E label : UNCHANGED locked /\ pc' = [pc EXCEPT ![c][n] = label]
      BY <1>10, <2>2 DEF runBackup, FetchOk, FetchError, LoadLast,
           CreateVersion, AlertDrift, AlertRecovery, TellRecovery,
           RecordFailure,
           AlertFailure, TellFailure, Goto
    <3>2. Keeps
      BY <1>0, <2>0, <3>1
    <3> QED BY <1>1, <3>1, <3>2
  <2> QED BY <2>1, <2>2
<1>11. CASE Exit \/ Crash \/ Start
  <2>1. \A c \in Callers, n \in Nodes : ~In(c, n)'
    BY <1>11 DEF Exit, Crash, Start, FreshProcess, IdleJobs, Working
  <2> QED BY <2>1 DEF BackupExclusive
<1>12. CASE Environment
  BY <1>2, <1>12 DEF Environment, Reconfigure, BecomePending, Disable,
                     SnoozeNode
<1>13. CASE \/ CheckBackups \/ CheckExports \/ TickerReturns
            \/ Shutdown \/ Stop \/ StopReturns \/ UNCHANGED vars
  BY <1>2, <1>13 DEF CheckBackups, CheckExports, TickerReturns, Shutdown,
                     Stop, StopReturns, vars
<1>14. ASSUME NEW l \in Leaders,
             \/ CycleDone(l)
             \/ l \in Cycles /\ (TriggerBackups(l) \/ StartBackupCycle(l))
       PROVE  BackupExclusive'
  BY <1>2, <1>14 DEF CycleDone, TriggerBackups, StartBackupCycle
<1> QED
  BY <1>3, <1>4, <1>5, <1>8, <1>9, <1>10, <1>11, <1>12, <1>13, <1>14
     DEF Next, CycleStep, Leaders

(* A step that touches neither the history nor a backup that has fetched.  *)
LEMMA Undisturbed ==
  ASSUME IInv, TypeOK', BackupExclusive', UNCHANGED <<device, versions>>,
         \A c \in Callers, n \in Nodes : pc'[c][n] \in {"load", "create"} =>
            /\ pc[c][n] = pc'[c][n]
            /\ config'[c][n] = config[c][n]
            /\ last'[c][n] = last[c][n]
  PROVE  IInv'
<1>1. FetchedIsFresh'
  BY DEF IInv, FetchedIsFresh
<1>2. LoadedIsNewest'
  BY DEF IInv, LoadedIsNewest, IsNewest
<1>3. VersionsFollowDevice'
  BY DEF IInv, VersionsFollowDevice
<1> QED BY <1>1, <1>2, <1>3 DEF IInv

LEMMA FetchStep ==
  ASSUME IInv, TypeOK', BackupExclusive',
         NEW c \in Callers, NEW n \in Nodes, FetchOk(c, n)
  PROVE  IInv'
<1> USE DEF dbVars, outsideVars
<1>1. /\ pc' = [pc EXCEPT ![c][n] = "load"]
      /\ config' = [config EXCEPT ![c][n] = [hash |-> device[n][Revision(n)],
                                             rev  |-> Revision(n)]]
      /\ UNCHANGED <<last, versions, device>>
  BY DEF FetchOk, Goto
<1>2. TypeOK
  BY DEF IInv
<1>3. /\ config'[c][n].rev = Len(device[n])
      /\ config'[c][n].hash = device[n][Len(device[n])]
      /\ pc'[c][n] = "load"
  BY <1>1, <1>2 DEF TypeOK, Revision
<1>4. \A d \in Callers, q \in Nodes : <<d, q>> # <<c, n>> =>
         pc'[d][q] = pc[d][q] /\ config'[d][q] = config[d][q]
  BY <1>1, <1>2 DEF TypeOK
<1>5. Len(device[n]) \in Nat \ {0}
  BY <1>2 DEF TypeOK
<1>6. FetchedIsFresh'
  <2> SUFFICES ASSUME NEW q \in Nodes, NEW d \in Callers,
                      pc'[d][q] \in {"load", "create"}
               PROVE  /\ config'[d][q].rev \in 1..Len(device'[q])
                      /\ config'[d][q].hash = device'[q][config'[d][q].rev]
                      /\ \A r \in versions'[q] : r.rev <= config'[d][q].rev
    BY DEF FetchedIsFresh
  <2>1. CASE <<d, q>> = <<c, n>>
    <3>1. \A r \in versions[n] : r.rev \in 1..Len(device[n])
      BY DEF IInv, VersionsFollowDevice
    <3> QED BY <1>1, <1>3, <1>5, <2>1, <3>1
  <2>2. CASE <<d, q>> # <<c, n>>
    BY <1>1, <1>4, <2>2 DEF IInv, FetchedIsFresh
  <2> QED BY <2>1, <2>2
<1>7. LoadedIsNewest'
  BY <1>1, <1>3, <1>4 DEF IInv, LoadedIsNewest, IsNewest
<1>8. VersionsFollowDevice'
  BY <1>1 DEF IInv, VersionsFollowDevice
<1> QED BY <1>6, <1>7, <1>8 DEF IInv

LEMMA LoadStep ==
  ASSUME IInv, TypeOK', BackupExclusive',
         NEW c \in Callers, NEW n \in Nodes, LoadLast(c, n)
  PROVE  IInv'
<1> USE DEF dbVars, outsideVars
<1> PICK r \in versions[n] \cup {NoVersion} :
      /\ IsNewest(r, n)
      /\ last' = [last EXCEPT ![c][n] = r]
      /\ pc' = [pc EXCEPT ![c][n] =
                  IF SameConfig(c, n, r) THEN "recover" ELSE "create"]
  BY DEF LoadLast, Goto
<1>1. pc[c][n] = "load" /\ UNCHANGED <<config, versions, device>>
  BY DEF LoadLast
<1>2. TypeOK
  BY DEF IInv
<1>3. \A d \in Callers, q \in Nodes : <<d, q>> # <<c, n>> =>
         pc'[d][q] = pc[d][q] /\ last'[d][q] = last[d][q]
  BY <1>2 DEF TypeOK
<1>4. /\ last'[c][n] = r
      /\ pc'[c][n] = "create" => r.hash # config[c][n].hash
  BY <1>2 DEF TypeOK, SameConfig
<1>5. FetchedIsFresh'
  <2>1. \A d \in Callers, q \in Nodes : pc'[d][q] \in {"load", "create"} =>
           pc[d][q] \in {"load", "create"}
    BY <1>1, <1>3
  <2> QED BY <1>1, <2>1 DEF IInv, FetchedIsFresh
<1>6. LoadedIsNewest'
  <2> SUFFICES ASSUME NEW q \in Nodes, NEW d \in Callers,
                      pc'[d][q] = "create"
               PROVE  /\ IsNewest(last[d][q], q)'
                      /\ last'[d][q].hash # config'[d][q].hash
    BY DEF LoadedIsNewest
  <2>1. CASE <<d, q>> = <<c, n>>
    BY <1>1, <1>4, <2>1 DEF IsNewest
  <2>2. CASE <<d, q>> # <<c, n>>
    BY <1>1, <1>3, <2>2 DEF IInv, LoadedIsNewest, IsNewest
  <2> QED BY <2>1, <2>2
<1>7. VersionsFollowDevice'
  BY <1>1 DEF IInv, VersionsFollowDevice
<1> QED BY <1>5, <1>6, <1>7 DEF IInv

(* What the inserted row adds: it is later than every recorded one, in     *)
(* number and in the life of the device, and differs from the newest.      *)
LEMMA InsertedIsNext ==
  ASSUME IInv, NEW c \in Callers, NEW n \in Nodes, pc[c][n] = "create",
         NEW new, new = NewVersion(c, n)
  PROVE  /\ new.rev \in 1..Len(device[n]) /\ new.hash = device[n][new.rev]
         /\ \A q \in versions[n] : q.version < new.version /\ q.rev < new.rev
         /\ \/ new.version = 1
            \/ \E q \in versions[n] : /\ q.version = new.version - 1
                                      /\ q.hash # new.hash
<1> DEFINE l == last[c][n]
           f == config[c][n]
<1>1. /\ new.version = l.version + 1 /\ new.hash = f.hash /\ new.rev = f.rev
      /\ l.version \in Nat
  BY DEF NewVersion, IInv, TypeOK, Version
<1>2. /\ f.rev \in 1..Len(device[n]) /\ f.hash = device[n][f.rev]
      /\ \A q \in versions[n] : q.rev <= f.rev
  BY DEF IInv, FetchedIsFresh
<1>3. IsNewest(l, n) /\ l.hash # f.hash
  BY DEF IInv, LoadedIsNewest
<1>4. \A q \in versions[n] : q.version \in Nat /\ q.rev \in Nat
  BY DEF IInv, TypeOK, Version
<1>5. CASE versions[n] = {} /\ l = NoVersion
  BY <1>1, <1>2, <1>5 DEF NoVersion
<1>6. CASE l \in versions[n] /\ \A q \in versions[n] : q.version <= l.version
  <2>1. l.hash = device[n][l.rev]
    BY <1>6 DEF IInv, VersionsFollowDevice
  <2>2. l.rev < f.rev
    BY <1>2, <1>3, <1>4, <1>6, <2>1
  <2>3. \A q \in versions[n] : q = l \/ q.version < l.version
    BY <1>1, <1>4, <1>6 DEF IInv, VersionsFollowDevice
  <2>4. \A q \in versions[n] : q.version < l.version => q.rev < l.rev
    BY <1>6 DEF IInv, VersionsFollowDevice
  <2>5. \A q \in versions[n] : q.version < new.version /\ q.rev < new.rev
    BY <1>1, <1>2, <1>4, <1>6, <2>2, <2>3, <2>4
  <2> QED BY <1>1, <1>2, <1>3, <1>6, <2>5
<1> QED BY <1>3, <1>5, <1>6 DEF IsNewest

LEMMA CreateStep ==
  ASSUME IInv, TypeOK', BackupExclusive',
         NEW c \in Callers, NEW n \in Nodes, CreateVersion(c, n)
  PROVE  IInv'
<1> USE DEF outsideVars
<1> DEFINE new == NewVersion(c, n)
<1>1. /\ pc[c][n] = "create"
      /\ versions' = [versions EXCEPT ![n] = @ \cup {new}]
      /\ pc' = [pc EXCEPT ![c][n] = AfterCreate(c, n)]
      /\ UNCHANGED <<config, last, device>>
  BY DEF CreateVersion, Goto
<1>2. TypeOK /\ TypeOK'
  BY DEF IInv
<1>3. /\ versions'[n] = versions[n] \cup {new}
      /\ \A q \in Nodes \ {n} : versions'[q] = versions[q]
  BY <1>1, <1>2 DEF TypeOK
<1>4. \A d \in Callers, q \in Nodes : pc'[d][q] \in {"load", "create"} =>
         q # n /\ pc'[d][q] = pc[d][q]
  <2>1. AfterCreate(c, n) \notin {"load", "create"}
    BY DEF AfterCreate
  <2>2. \A d \in Callers : pc[d][n] \in {"load", "create"} => d = c
    BY <1>1 DEF IInv, BackupExclusive, Working
  <2> QED BY <1>1, <1>2, <2>1, <2>2 DEF TypeOK
<1>5. FetchedIsFresh'
  BY <1>1, <1>3, <1>4 DEF IInv, FetchedIsFresh
<1>6. LoadedIsNewest'
  BY <1>1, <1>3, <1>4 DEF IInv, LoadedIsNewest, IsNewest
<1>7. /\ new.rev \in 1..Len(device[n]) /\ new.hash = device[n][new.rev]
      /\ \A q \in versions[n] : q.version < new.version /\ q.rev < new.rev
      /\ \/ new.version = 1
         \/ \E q \in versions[n] : /\ q.version = new.version - 1
                                   /\ q.hash # new.hash
  BY <1>1, InsertedIsNext
<1>8. \A r \in versions'[n] : r.version \in Nat /\ r.rev \in Nat
  BY <1>2 DEF TypeOK, Version
<1> HIDE DEF new
<1>9. VersionsFollowDevice'
  <2> SUFFICES ASSUME NEW q \in Nodes, NEW r \in versions'[q]
      PROVE /\ r.rev \in 1..Len(device[q]) /\ r.hash = device[q][r.rev]
            /\ \/ r.version = 1
               \/ \E p \in versions'[q] : /\ p.version = r.version - 1
                                          /\ p.hash # r.hash
            /\ \A p \in versions'[q] : p.version < r.version => p.rev < r.rev
            /\ \A p \in versions'[q] : p.version = r.version => p = r
    BY <1>1 DEF VersionsFollowDevice
  <2>1. CASE q # n
    BY <1>3, <2>1 DEF IInv, VersionsFollowDevice
  <2>2. CASE q = n /\ r = new
    BY <1>3, <1>7, <1>8, <2>2
  <2>3. CASE q = n /\ r \in versions[n]
    <3>1. /\ r.rev \in 1..Len(device[n]) /\ r.hash = device[n][r.rev]
          /\ \/ r.version = 1
             \/ \E p \in versions[n] : /\ p.version = r.version - 1
                                       /\ p.hash # r.hash
          /\ \A p \in versions[n] : p.version < r.version => p.rev < r.rev
          /\ \A p \in versions[n] : p.version = r.version => p = r
      BY <2>3 DEF IInv, VersionsFollowDevice
    <3>2. ~(new.version < r.version) /\ new.version # r.version
      BY <1>3, <1>7, <1>8, <2>3
    <3> QED BY <1>3, <2>3, <3>1, <3>2
  <2> QED BY <1>3, <2>1, <2>2, <2>3
<1> QED BY <1>5, <1>6, <1>9 DEF IInv

(* A device changes: what it had before keeps its place.                   *)
LEMMA ReconfigureStep ==
  ASSUME IInv, TypeOK', BackupExclusive', NEW n \in Nodes, Reconfigure(n)
  PROVE  IInv'
<1> USE DEF dbVars, jobVars, cycleVars
<1> PICK h \in Hashes : device' = [device EXCEPT ![n] = Append(@, h)]
  BY DEF Reconfigure
<1>1. UNCHANGED <<pc, config, last, versions>>
  BY DEF Reconfigure
<1>2. \A q \in Nodes : device[q] \in Seq(Hashes)
  BY DEF IInv, TypeOK
<1>3. \A q \in Nodes : device'[q] = IF q = n THEN Append(device[q], h)
                                              ELSE device[q]
  BY DEF IInv, TypeOK
<1>4. \A q \in Nodes : \A i \in 1..Len(device[q]) :
         i \in 1..Len(device'[q]) /\ device'[q][i] = device[q][i]
  BY <1>2, <1>3
<1>5. FetchedIsFresh'
  BY <1>1, <1>4 DEF IInv, FetchedIsFresh
<1>6. LoadedIsNewest'
  BY <1>1 DEF IInv, LoadedIsNewest, IsNewest
<1>7. VersionsFollowDevice'
  BY <1>1, <1>4 DEF IInv, VersionsFollowDevice
<1> QED BY <1>5, <1>6, <1>7 DEF IInv

LEMMA IInvStep == IInv /\ [Next]_vars => IInv'
<1> SUFFICES ASSUME IInv, [Next]_vars PROVE IInv'
  OBVIOUS
<1> USE DEF dbVars, jobVars, outsideVars, cycleVars
<1>1. TypeOK' /\ BackupExclusive'
  BY TypeStep, ExclusiveStep DEF IInv
<1>0. /\ pc \in [Callers -> [Nodes -> JobPc]]
      /\ config \in [Callers -> [Nodes -> Config]]
      /\ last \in [Callers -> [Nodes -> Version]]
  BY DEF IInv, TypeOK
<1>2. ASSUME UNCHANGED <<device, versions, pc, config, last>> PROVE IInv'
  BY <1>1, <1>2, Undisturbed
<1>3. ASSUME UNCHANGED <<device, versions, config, last>>,
             NEW c \in Callers, NEW n \in Nodes, NEW label,
             label \notin {"load", "create"}, Goto(c, n, label)
      PROVE  IInv'
  BY <1>0, <1>1, <1>3, Undisturbed DEF Goto
<1>4. ASSUME UNCHANGED <<device, versions>>, NEW c \in Callers,
             NEW n \in Nodes, Goto(c, n, "idle"), Forget(c, n)
      PROVE  IInv'
  <2>1. \A d \in Callers, q \in Nodes : pc'[d][q] \in {"load", "create"} =>
           /\ pc[d][q] = pc'[d][q]
           /\ config'[d][q] = config[d][q]
           /\ last'[d][q] = last[d][q]
    BY <1>0, <1>4 DEF Goto, Forget
  <2> QED BY <1>1, <1>4, <2>1, Undisturbed
<1>5. ASSUME NEW l \in Leaders, LoadPending(l) PROVE IInv'
  <2>1. \A d \in Callers, q \in Nodes : pc'[d][q] \in {"load", "create"} =>
           pc[d][q] = pc'[d][q]
    BY <1>0, <1>5 DEF LoadPending, Callers
  <2>2. UNCHANGED <<device, versions, config, last>>
    BY <1>5 DEF LoadPending
  <2> QED BY <1>1, <2>1, <2>2, Undisturbed
<1>6. ASSUME NEW l \in Leaders, NEW n \in Nodes, Spawn(l, n) PROVE IInv'
  <2>1. /\ l \in Callers /\ Goto(l, n, "spawned")
        /\ UNCHANGED <<device, versions, config, last>>
    BY <1>6 DEF Spawn, Goto, Callers
  <2> QED BY <1>3, <2>1
<1>7. ASSUME NEW l \in Leaders, NEW n \in Nodes, RunBackup(l, n) PROVE IInv'
  <2>1. l \in Callers
    BY DEF Callers
  <2>2. CASE Goto(l, n, "fetch") /\ UNCHANGED <<config, last>>
    BY <1>3, <1>7, <2>1, <2>2 DEF RunBackup
  <2>3. CASE Goto(l, n, "idle") /\ Forget(l, n)
    BY <1>4, <1>7, <2>1, <2>3 DEF RunBackup
  <2> QED BY <1>7, <2>2, <2>3 DEF RunBackup, Goto
<1>8. ASSUME NEW c \in Clients, NEW n \in Nodes, TriggerNode(c, n)
      PROVE  IInv'
  <2>1. /\ c \in Callers /\ Goto(c, n, "handler")
        /\ UNCHANGED <<device, versions, config, last>>
    BY <1>8 DEF TriggerNode, Goto, Callers
  <2> QED BY <1>3, <2>1
<1>9. ASSUME NEW c \in Clients, NEW n \in Nodes, StartBackup(c, n)
      PROVE  IInv'
  <2>1. c \in Callers
    BY DEF Callers
  <2>2. CASE Goto(c, n, "fetch") /\ UNCHANGED <<config, last>>
    BY <1>3, <1>9, <2>1, <2>2 DEF StartBackup
  <2>3. CASE Goto(c, n, "idle") /\ Forget(c, n)
    BY <1>4, <1>9, <2>1, <2>3 DEF StartBackup
  <2> QED BY <1>9, <2>2, <2>3 DEF StartBackup, Goto
<1>10. ASSUME NEW c \in Callers, NEW n \in Nodes, runBackup(c, n)
       PROVE  IInv'
  <2>1. CASE FetchOk(c, n)
    BY <1>1, <2>1, FetchStep
  <2>2. CASE LoadLast(c, n)
    BY <1>1, <2>2, LoadStep
  <2>3. CASE CreateVersion(c, n)
    BY <1>1, <2>3, CreateStep
  <2>4. CASE UpdateNode(c, n) \/ QueryFails(c, n)
    BY <1>4, <2>4 DEF UpdateNode, QueryFails, Return, Goto
  <2>5. CASE \/ FetchError(c, n) \/ AlertDrift(c, n) \/ AlertRecovery(c, n)
             \/ RecordFailure(c, n) \/ AlertFailure(c, n)
    <3>1. UNCHANGED <<device, versions, config, last>>
      BY <2>5 DEF FetchError, AlertDrift, AlertRecovery,
           TellRecovery, RecordFailure,
                  AlertFailure, TellFailure
    <3>2. \E label \in {"fail", "recover", "saveSuccess", "alert",
                        "saveError"} : Goto(c, n, label)
      BY <2>5 DEF FetchError, AlertDrift, AlertRecovery,
           TellRecovery, RecordFailure,
                  AlertFailure, TellFailure
    <3> QED BY <1>3, <3>1, <3>2
  <2> QED BY <1>10, <2>1, <2>2, <2>3, <2>4, <2>5 DEF runBackup
<1>11. CASE Exit \/ Crash \/ Start
  <2>1. \A d \in Callers, q \in Nodes : pc'[d][q] = "idle"
    BY <1>11 DEF Exit, Crash, Start, FreshProcess, IdleJobs
  <2>2. UNCHANGED <<device, versions>>
    BY <1>11 DEF Exit, Crash, Start
  <2> QED BY <1>1, <2>1, <2>2, Undisturbed
<1>12. CASE Environment
  <2> PICK n \in Nodes : \/ Reconfigure(n) \/ BecomePending(n)
                         \/ Disable(n) \/ SnoozeNode(n)
    BY <1>12 DEF Environment
  <2>1. CASE Reconfigure(n)
    BY <1>1, <2>1, ReconfigureStep
  <2>2. CASE BecomePending(n) \/ Disable(n) \/ SnoozeNode(n)
    BY <1>2, <2>2 DEF BecomePending, Disable, SnoozeNode
  <2> QED BY <2>1, <2>2
<1>13. CASE \/ CheckBackups \/ CheckExports \/ TickerReturns
            \/ Shutdown \/ Stop \/ StopReturns \/ UNCHANGED vars
  BY <1>2, <1>13 DEF CheckBackups, CheckExports, TickerReturns, Shutdown,
                     Stop, StopReturns, vars
<1>14. ASSUME NEW l \in Leaders,
             \/ CycleDone(l)
             \/ l \in Cycles /\ (TriggerBackups(l) \/ StartBackupCycle(l))
       PROVE  IInv'
  BY <1>2, <1>14 DEF CycleDone, TriggerBackups, StartBackupCycle
<1> QED
  BY <1>5, <1>6, <1>7, <1>8, <1>9, <1>10, <1>11, <1>12, <1>13, <1>14
     DEF Next, CycleStep, Leaders

LEMMA Invariant == Spec => []IInv
<1>1. IInv /\ UNCHANGED vars => IInv'
  BY IInvStep
<1> QED BY IInvInit, IInvStep, PTL DEF Spec

(* One goroutine at most is inside runBackup for a node, with its lock.    *)
THEOREM Exclusive == Spec => []BackupExclusive
<1>1. IInv => BackupExclusive
  BY DEF IInv
<1> QED BY <1>1, Invariant, PTL

(* The version history of every node follows its device, without gaps,     *)
(* repeats or equal neighbours, under any interleaving, fault and crash.   *)
THEOREM HistoryCorrect == Spec => []VersionsFollowDevice
<1>1. IInv => VersionsFollowDevice
  BY DEF IInv
<1> QED BY <1>1, Invariant, PTL

-----------------------------------------------------------------------------
(* Scheduler implements BackupHistory: only CreateVersion and Reconfigure  *)
(* are steps of it.                                                        *)
LEMMA RefinesInit == Init => History!Init
BY DEF Init, History!Init

LEMMA RefinesStep ==
  IInv /\ [Next]_vars => History!Next \/ UNCHANGED <<device, versions>>
<1> SUFFICES ASSUME IInv, [Next]_vars
             PROVE  History!Next \/ UNCHANGED <<device, versions>>
  OBVIOUS
<1> USE DEF dbVars, jobVars, outsideVars, cycleVars
<1>1. ASSUME NEW n \in Nodes, Reconfigure(n) PROVE History!Next
  <2>1. History!Reconfigure(n)
    BY <1>1 DEF Reconfigure, Revision, History!Reconfigure
  <2> QED BY <2>1 DEF History!Next
<1>2. ASSUME NEW c \in Callers, NEW n \in Nodes, CreateVersion(c, n)
      PROVE  History!Next
  <2> DEFINE new == NewVersion(c, n)
             v   == new.version - 1
  <2>1. /\ pc[c][n] = "create"
        /\ versions' = [versions EXCEPT ![n] = @ \cup {new}]
        /\ UNCHANGED device
    BY <1>2 DEF CreateVersion
  <2>2. /\ new.rev \in 1..Len(device[n]) /\ new.hash = device[n][new.rev]
        /\ \A q \in versions[n] : q.version < new.version /\ q.rev < new.rev
        /\ \/ new.version = 1
           \/ \E q \in versions[n] : q.version = v /\ q.hash # new.hash
    BY <2>1, InsertedIsNext
  <2>3. /\ new.version \in Nat \ {0}
        /\ \A q \in versions[n] : q.version \in Nat \ {0}
    <3>1. /\ last[c][n].version \in Nat
          /\ \A q \in versions[n] : q.version \in Nat
      BY DEF IInv, TypeOK, Version
    <3>2. \A q \in versions[n] : q.version # 0
      <4> SUFFICES ASSUME NEW q \in versions[n], q.version = 0 PROVE FALSE
        OBVIOUS
      <4>1. PICK p \in versions[n] : p.version = q.version - 1
        BY DEF IInv, VersionsFollowDevice
      <4> QED BY <3>1, <4>1
    <3> QED BY <3>1, <3>2 DEF NewVersion
  <2>4. new = [version |-> v + 1, hash |-> device[n][new.rev],
               rev |-> new.rev]
    BY <2>2, <2>3 DEF NewVersion
  <2>5. v \in {0} \cup {q.version : q \in versions[n]}
    BY <2>2, <2>3
  <2>6. \A q \in versions[n] :
           /\ q.rev < new.rev /\ q.version <= v
           /\ q.version = v => q.hash # device[n][new.rev]
    BY <2>2, <2>3 DEF IInv, VersionsFollowDevice
  <2> HIDE DEF new, v
  <2>7. History!Record(n)
    BY <2>1, <2>2, <2>4, <2>5, <2>6 DEF History!Record
  <2> QED BY <2>7 DEF History!Next
<1>3. ASSUME NEW c \in Callers, NEW n \in Nodes, runBackup(c, n),
             ~CreateVersion(c, n)
      PROVE  UNCHANGED <<device, versions>>
  BY <1>3 DEF runBackup, FetchOk, FetchError, LoadLast, AlertDrift,
       AlertRecovery, TellRecovery, RecordFailure, AlertFailure, TellFailure,
       UpdateNode, QueryFails
<1>4. ASSUME NEW n \in Nodes, BecomePending(n) \/ Disable(n) \/ SnoozeNode(n)
      PROVE  UNCHANGED <<device, versions>>
  BY <1>4 DEF BecomePending, Disable, SnoozeNode
<1>5. ASSUME NEW l \in Leaders,
             \/ LoadPending(l) \/ CycleDone(l)
             \/ TriggerBackups(l) \/ StartBackupCycle(l)
             \/ \E n \in Nodes : Spawn(l, n) \/ RunBackup(l, n)
      PROVE  UNCHANGED <<device, versions>>
  BY <1>5 DEF LoadPending, CycleDone, TriggerBackups, StartBackupCycle, Spawn,
              RunBackup
<1>6. ASSUME NEW c \in Clients, NEW n \in Nodes,
             TriggerNode(c, n) \/ StartBackup(c, n)
      PROVE  UNCHANGED <<device, versions>>
  BY <1>6 DEF TriggerNode, StartBackup
<1>7. CASE \/ CheckBackups \/ CheckExports \/ TickerReturns \/ Shutdown
           \/ Stop \/ StopReturns \/ Exit \/ Crash \/ Start
           \/ UNCHANGED vars
  BY <1>7 DEF CheckBackups, CheckExports, TickerReturns, Shutdown, Stop,
              StopReturns, Exit, Crash, Start, vars
<1> QED
  BY <1>1, <1>2, <1>3, <1>4, <1>5, <1>6, <1>7
     DEF Next, CycleStep, Environment, Leaders

(* The scheduler never does to a history what BackupHistory does not allow.*)
THEOREM RefinesBackupHistory == Spec => ImplementsHistory
<1>1. IInv /\ [Next]_vars => [History!Next]_(History!historyVars)
  BY RefinesStep DEF History!historyVars
<1> QED
  BY <1>1, RefinesInit, Invariant, PTL
     DEF Spec, ImplementsHistory, History!Spec
-----------------------------------------------------------------------------
(* The life of the process: what is left when Stop has returned, and how   *)
(* many backups its cycles run at a time.                                  *)
InCycle(l) == leader[l] \in {"query", "pool"}

-----------------------------------------------------------------------------
(* The phases in which a handler may be under way.                         *)
Handling == {"up", "draining", "hasty", "exiting"}

(* The inductive invariant. The flag belongs to the one cycle there is...  *)
OneCycle ==
  /\ \A l, k \in Leaders : InCycle(l) /\ InCycle(k) => l = k
  /\ isRunning <=> \E l \in Leaders : InCycle(l)

(* ... the WaitGroup counts a cycle that was started by hand...            *)
CyclesCounted ==
  \A l \in Cycles : /\ leader[l] \in {"idle", "handler", "query", "pool"}
                    /\ InCycle(l) => <<l>> \in jobs
                    /\ leader[l] = "handler" => server \in Handling

(* ... while Stop waits for the ticker's on s.stopped...                   *)
TickerAwaited ==
  /\ leader[Ticker] \notin {"idle", "handler"}
  /\ leader[Ticker] = "stopped" => server \notin {"up", "draining"}
  /\ server \in {"closing", "down"} => leader[Ticker] = "stopped" /\ jobs = {}

(* ... no goroutine of a cycle outlives it...                              *)
PoolOnly ==
  \A l \in Leaders, n \in Nodes : leader[l] # "pool" => pc[l][n] = "idle"

(* ... and a request is awaited by app.Shutdown until it is counted, unless*)
(* app.Shutdown fails.                                                     *)
RequestsCounted ==
  \A c \in Clients, n \in Nodes :
    /\ pc[c][n] \in {"idle", "handler"} \cup Working
    /\ pc[c][n] \in Working => <<c, n>> \in jobs
    /\ pc[c][n] = "handler" => server \in Handling

(* A lock is held by somebody who is going to release it, and the slots of *)
(* a semaphore by the goroutines of its pool.                              *)
LocksHeld == \A n \in locked : \E c \in Callers : pc[c][n] \in Working

SlotsHeld == \A l \in Leaders : Cardinality(Workers(l)) <= MaxConcurrent

LifeInv == /\ TypeOK /\ OneCycle /\ CyclesCounted /\ TickerAwaited
           /\ PoolOnly /\ RequestsCounted /\ LocksHeld /\ SlotsHeld

-----------------------------------------------------------------------------
(* What a step of runBackup does to the process: it moves on, or it ends   *)
(* with the deferred calls.                                                *)
LEMMA BackupShape ==
  ASSUME NEW c \in Callers, NEW n \in Nodes, runBackup(c, n)
  PROVE  /\ pc[c][n] \in Working
         /\ UNCHANGED <<server, isRunning, leader>>
         /\ \/ /\ \E label \in Working : pc' = [pc EXCEPT ![c][n] = label]
               /\ UNCHANGED <<locked, jobs>>
            \/ /\ pc' = [pc EXCEPT ![c][n] = "idle"]
               /\ locked' = locked \ {n} /\ jobs' = jobs \ {<<c, n>>}
<1> USE DEF cycleVars, dbVars, outsideVars, jobVars
<1>1. CASE UpdateNode(c, n) \/ QueryFails(c, n)
  BY <1>1 DEF UpdateNode, QueryFails, Return, unlockNode, JobsDone, Working
<1>2. CASE FetchOk(c, n) \/ FetchError(c, n) \/ LoadLast(c, n)
  BY <1>2 DEF FetchOk, FetchError, LoadLast, Goto, Working
<1>3. CASE CreateVersion(c, n) \/ RecordFailure(c, n)
  BY <1>3 DEF CreateVersion, AfterCreate, RecordFailure, Goto, Working
<1>4. CASE AlertDrift(c, n) \/ AlertRecovery(c, n) \/ AlertFailure(c, n)
  BY <1>4 DEF AlertDrift, AlertRecovery, TellRecovery,
              AlertFailure, TellFailure, Goto, Working
<1> QED BY <1>1, <1>2, <1>3, <1>4 DEF runBackup

(* What RunBackup and StartBackup do at the lock of a node.                *)
LEMMA LockShape ==
  /\ \A l \in Leaders, n \in Nodes : RunBackup(l, n) =>
       /\ pc[l][n] = "spawned" /\ UNCHANGED <<server, isRunning, leader, jobs>>
       /\ \/ /\ locked' = locked \cup {n}
             /\ pc' = [pc EXCEPT ![l][n] = "fetch"]
          \/ pc' = [pc EXCEPT ![l][n] = "idle"] /\ UNCHANGED locked
  /\ \A c \in Clients, n \in Nodes : StartBackup(c, n) =>
       /\ pc[c][n] = "handler" /\ UNCHANGED <<server, isRunning, leader>>
       /\ \/ /\ locked' = locked \cup {n} /\ jobs' = jobs \cup {<<c, n>>}
             /\ pc' = [pc EXCEPT ![c][n] = "fetch"]
          \/ /\ pc' = [pc EXCEPT ![c][n] = "idle"]
             /\ UNCHANGED <<locked, jobs>>
BY DEF RunBackup, StartBackup, tryLockNode, JobsAdd, cycleVars

(* What LoadPending does to the jobs of its cycle.                         *)
LEMMA QueryShape ==
  ASSUME TypeOK, NEW l \in Leaders, LoadPending(l)
  PROVE  /\ leader[l] = "query" /\ leader' = [leader EXCEPT ![l] = "pool"]
         /\ UNCHANGED <<server, isRunning, locked, jobs>>
         /\ \A c \in Callers, n \in Nodes :
              pc'[c][n] = pc[c][n] \/ (c = l /\ pc'[c][n] = "queued")
<1>1. l \in Callers /\ pc \in [Callers -> [Nodes -> JobPc]]
  BY DEF Callers, TypeOK
<1> QED BY <1>1 DEF LoadPending, jobVars

(* A fresh process has nothing to do.                                      *)
LEMMA FreshShape ==
  ASSUME Exit \/ Crash \/ Start
  PROVE  /\ server' \in {"up", "down"} /\ ~isRunning' /\ locked' = {}
         /\ jobs' = {} /\ \A c \in Callers, n \in Nodes : pc'[c][n] = "idle"
         /\ \A l \in Cycles : leader'[l] = "idle"
         /\ leader'[Ticker] = IF server' = "up" THEN "select" ELSE "stopped"
<1>1. \E phase \in {"up", "down"} : FreshProcess(phase)
  BY DEF Exit, Crash, Start
<1> QED
  BY <1>1, SchedulerAssumption DEF FreshProcess, FirstLeaders, IdleJobs,
     Leaders

(* Everything else that leaves the process as it is.                       *)
processVars == <<server, isRunning, leader, locked, jobs, pc>>

LEMMA OutsideShape ==
  ASSUME Environment \/ UNCHANGED vars PROVE UNCHANGED processVars
BY DEF Environment, Reconfigure, BecomePending, Disable, SnoozeNode, vars,
       cycleVars, jobVars, dbVars, outsideVars, processVars

-----------------------------------------------------------------------------
(* The parts of the invariant one by one. Different goroutines are counted *)
(* under different names.                                                  *)
LEMMA Names ==
  /\ \A l, k : <<l>> = <<k>> => l = k
  /\ \A c, n, d, m : <<c, n>> = <<d, m>> => c = d /\ n = m
  /\ \A l, c, n : <<l>> # <<c, n>>
<1>1. \A l, c, n : <<l>> # <<c, n>>
  <2> TAKE l, c, n
  <2>1. Len(<<l>>) = 1 /\ Len(<<c, n>>) = 2
    OBVIOUS
  <2> QED BY <2>1
<1> QED BY <1>1

LEMMA OneCycleStep ==
  LifeInv /\ [Next]_vars => OneCycle' /\ CyclesCounted' /\ TickerAwaited'
<1> DEFINE P == OneCycle /\ CyclesCounted /\ TickerAwaited
<1> SUFFICES ASSUME LifeInv, [Next]_vars PROVE P'
  OBVIOUS
<1>0. /\ OneCycle /\ CyclesCounted /\ TickerAwaited
      /\ leader \in [Leaders -> LeaderPc] /\ isRunning \in BOOLEAN
      /\ Ticker \in Leaders /\ Ticker \notin Cycles
      /\ \A l \in Leaders : l = Ticker \/ l \in Cycles
      /\ \A l \in Cycles : l \in Leaders
  BY SchedulerAssumption DEF LifeInv, TypeOK, Leaders
<1>a. ASSUME UNCHANGED <<server, isRunning, leader, jobs>> PROVE P'
  BY <1>0, <1>a DEF OneCycle, InCycle, CyclesCounted, TickerAwaited
<1> USE DEF OneCycle, InCycle, CyclesCounted, TickerAwaited, Handling
<1>1. CASE CheckBackups
  BY <1>0, <1>1 DEF CheckBackups, SwapRunning
<1>2. CASE CheckExports
  BY <1>0, <1>2 DEF CheckExports
<1>3. CASE TickerReturns
  BY <1>0, <1>3 DEF TickerReturns
<1>4. ASSUME NEW l \in Cycles, TriggerBackups(l) \/ StartBackupCycle(l)
      PROVE  P'
  <2>1. /\ leader[l] \in {"idle", "handler"} /\ UNCHANGED server
        /\ leader[l] = "handler" \/ server = "up"
    BY <1>4 DEF TriggerBackups, StartBackupCycle
  <2>2. CASE /\ leader' = [leader EXCEPT ![l] = "query"]
             /\ ~isRunning /\ isRunning' /\ jobs' = jobs \cup {<<l>>}
    BY <1>0, <2>1, <2>2
  <2>3. CASE /\ \/ leader' = [leader EXCEPT ![l] = "idle"]
                \/ server = "up" /\ leader' = [leader EXCEPT ![l] = "handler"]
             /\ UNCHANGED <<isRunning, jobs>>
    <3>1. \A k \in Leaders : InCycle(k)' <=> InCycle(k)
      BY <1>0, <2>1, <2>3
    <3> QED BY <1>0, <2>1, <2>3, <3>1
  <2> QED BY <1>4, <2>1, <2>2, <2>3
          DEF TriggerBackups, StartBackupCycle, SwapRunning, JobsAdd
<1>5. ASSUME NEW l \in Leaders, LoadPending(l) PROVE P'
  <2> USE <1>0, <1>5, QueryShape DEF LifeInv
  <2>1. \A k \in Leaders : InCycle(k)' <=> InCycle(k)
    OBVIOUS
  <2> QED BY <2>1
<1>6. ASSUME NEW l \in Leaders, CycleDone(l) PROVE P'
  <2>1. /\ leader[l] = "pool" /\ ~isRunning' /\ UNCHANGED server
        /\ jobs' = jobs \ {<<l>>}
        /\ leader' = [leader EXCEPT ![l] =
                        IF l = Ticker THEN "exports" ELSE "idle"]
    BY <1>6 DEF CycleDone, ClearRunning, JobsDone
  <2>2. \A k \in Leaders : ~InCycle(k)'
    BY <1>0, <2>1
  <2>3. /\ \A k \in Cycles : leader'[k] = leader[k] \/ leader'[k] = "idle"
        /\ leader'[Ticker] = leader[Ticker] \/ leader'[Ticker] = "exports"
    BY <1>0, <2>1
  <2> QED BY <1>0, <2>1, <2>2, <2>3
<1>7. ASSUME NEW l \in Leaders, NEW n \in Nodes, Spawn(l, n) PROVE P'
  BY <1>a, <1>7 DEF Spawn, cycleVars
<1>8. ASSUME NEW l \in Leaders, NEW n \in Nodes, RunBackup(l, n) PROVE P'
  BY <1>a, <1>8, LockShape
<1>9. ASSUME NEW c \in Clients, NEW n \in Nodes, TriggerNode(c, n) PROVE P'
  BY <1>a, <1>9 DEF TriggerNode, cycleVars
<1>10. ASSUME NEW c \in Clients, NEW n \in Nodes, StartBackup(c, n) PROVE P'
  <2>1. server \notin {"closing", "down"}
    BY <1>10, LockShape DEF LifeInv, RequestsCounted
  <2>2. UNCHANGED <<server, isRunning, leader>> /\ jobs \subseteq jobs'
    BY <1>10, LockShape
  <2> QED BY <1>0, <2>1, <2>2
<1>11. ASSUME NEW c \in Callers, NEW n \in Nodes, runBackup(c, n) PROVE P'
  <2>1. UNCHANGED <<server, isRunning, leader>>
    BY <1>11, BackupShape
  <2>2. jobs' = jobs \/ jobs' = jobs \ {<<c, n>>}
    BY <1>11, BackupShape
  <2>3. \A l \in Cycles : <<l>> \in jobs => <<l>> \in jobs'
    BY <2>2, Names
  <2> QED BY <1>0, <2>1, <2>2, <2>3
<1>12. CASE Shutdown \/ Stop
  BY <1>0, <1>12 DEF Shutdown, Stop
<1>13. CASE StopReturns
  BY <1>0, <1>13 DEF StopReturns
<1>14. CASE Exit \/ Crash \/ Start
  BY <1>0, <1>14, FreshShape
<1>15. CASE Environment \/ UNCHANGED vars
  BY <1>a, <1>15, OutsideShape DEF processVars
<1> QED
  BY <1>1, <1>2, <1>3, <1>4, <1>5, <1>6, <1>7, <1>8, <1>9, <1>10, <1>11,
     <1>12, <1>13, <1>14, <1>15 DEF Next, CycleStep

LEMMA PoolOnlyStep == LifeInv /\ [Next]_vars => PoolOnly'
<1> SUFFICES ASSUME LifeInv, [Next]_vars PROVE PoolOnly'
  OBVIOUS
<1>0. /\ PoolOnly /\ Ticker \in Leaders
      /\ leader \in [Leaders -> LeaderPc]
      /\ pc \in [Callers -> [Nodes -> JobPc]]
      /\ \A l \in Leaders : l \in Callers /\ l \notin Clients
      /\ \A l \in Cycles : l \in Leaders
  BY SchedulerAssumption DEF LifeInv, TypeOK, Leaders, Callers
<1>a. ASSUME UNCHANGED <<leader, pc>> PROVE PoolOnly'
  BY <1>0, <1>a DEF PoolOnly
<1> USE DEF PoolOnly, jobVars, cycleVars
<1>1. CASE CheckBackups \/ CheckExports \/ TickerReturns
  <2>1. /\ pc' = pc /\ leader[Ticker] # "pool"
        /\ \E x : leader' = [leader EXCEPT ![Ticker] = x]
    BY <1>1 DEF CheckBackups, CheckExports, TickerReturns
  <2> QED BY <1>0, <2>1
<1>2. ASSUME NEW l \in Cycles, TriggerBackups(l) \/ StartBackupCycle(l)
      PROVE  PoolOnly'
  <2>1. /\ pc' = pc /\ leader[l] # "pool"
        /\ \E x : leader' = [leader EXCEPT ![l] = x]
    BY <1>2 DEF TriggerBackups, StartBackupCycle
  <2> QED BY <1>0, <2>1
<1>3. ASSUME NEW l \in Leaders, LoadPending(l) PROVE PoolOnly'
  BY <1>0, <1>3, QueryShape DEF LifeInv
<1>4. ASSUME NEW l \in Leaders, CycleDone(l) PROVE PoolOnly'
  BY <1>0, <1>4 DEF CycleDone
<1>5. ASSUME NEW c \in Callers, NEW n \in Nodes, NEW x,
             pc[c][n] # "idle" \/ c \notin Leaders,
             pc' = [pc EXCEPT ![c][n] = x], UNCHANGED leader
      PROVE  PoolOnly'
  BY <1>0, <1>5
<1>6. ASSUME NEW l \in Leaders, NEW n \in Nodes, Spawn(l, n) PROVE PoolOnly'
  BY <1>0, <1>5, <1>6 DEF Spawn
<1>7. ASSUME NEW l \in Leaders, NEW n \in Nodes, RunBackup(l, n)
      PROVE  PoolOnly'
  BY <1>0, <1>5, <1>7, LockShape
<1>8. ASSUME NEW c \in Clients, NEW n \in Nodes,
             TriggerNode(c, n) \/ StartBackup(c, n)
      PROVE  PoolOnly'
  <2>1. c \in Callers /\ c \notin Leaders
    BY <1>0 DEF Callers
  <2>2. UNCHANGED leader /\ \E x : pc' = [pc EXCEPT ![c][n] = x]
    BY <1>8, LockShape DEF TriggerNode
  <2> QED BY <1>5, <2>1, <2>2
<1>9. ASSUME NEW c \in Callers, NEW n \in Nodes, runBackup(c, n)
      PROVE  PoolOnly'
  <2>1. pc[c][n] # "idle"
    BY <1>9, BackupShape DEF Working
  <2> QED BY <1>5, <1>9, <2>1, BackupShape
<1>10. CASE Shutdown \/ Stop \/ StopReturns
  BY <1>a, <1>10 DEF Shutdown, Stop, StopReturns
<1>11. CASE Exit \/ Crash \/ Start
  BY <1>0, <1>11, FreshShape
<1>12. CASE Environment \/ UNCHANGED vars
  BY <1>a, <1>12, OutsideShape DEF processVars
<1> QED
  BY <1>1, <1>2, <1>3, <1>4, <1>6, <1>7, <1>8, <1>9, <1>10, <1>11, <1>12
     DEF Next, CycleStep
LEMMA RequestsStep == LifeInv /\ [Next]_vars => RequestsCounted'
<1> SUFFICES ASSUME LifeInv, [Next]_vars PROVE RequestsCounted'
  OBVIOUS
<1>0. /\ RequestsCounted
      /\ pc \in [Callers -> [Nodes -> JobPc]]
      /\ \A c \in Clients : c \in Callers /\ c \notin Leaders
      /\ "idle" \notin Working /\ "handler" \notin Working
      /\ "fetch" \in Working
  BY SchedulerAssumption DEF LifeInv, TypeOK, Leaders, Callers, Working
<1> USE DEF RequestsCounted, Handling, jobVars, cycleVars
<1>a. ASSUME UNCHANGED <<server, pc>>,
             \A c \in Clients, n \in Nodes :
               <<c, n>> \in jobs => <<c, n>> \in jobs'
      PROVE  RequestsCounted'
  BY <1>0, <1>a
<1>b. ASSUME UNCHANGED <<server, jobs>>,
             \A c \in Clients, n \in Nodes : pc'[c][n] = pc[c][n]
      PROVE  RequestsCounted'
  BY <1>0, <1>b
<1>1. CASE CheckBackups \/ CheckExports \/ TickerReturns
  BY <1>a, <1>1 DEF CheckBackups, CheckExports, TickerReturns
<1>2. ASSUME NEW l \in Cycles, TriggerBackups(l) \/ StartBackupCycle(l)
      PROVE  RequestsCounted'
  BY <1>a, <1>2 DEF TriggerBackups, StartBackupCycle, JobsAdd
<1>3. ASSUME NEW l \in Leaders, LoadPending(l) PROVE RequestsCounted'
  <2>1. TypeOK /\ UNCHANGED <<server, jobs>>
    BY <1>3, QueryShape DEF LifeInv
  <2>2. \A c \in Callers, n \in Nodes : c # l => pc'[c][n] = pc[c][n]
    BY <1>3, <2>1, QueryShape
  <2> QED BY <1>0, <1>b, <2>1, <2>2
<1>4. ASSUME NEW l \in Leaders, CycleDone(l) PROVE RequestsCounted'
  <2>1. UNCHANGED <<server, pc>> /\ jobs' = jobs \ {<<l>>}
    BY <1>4 DEF CycleDone, JobsDone
  <2> QED BY <1>a, <2>1, Names
<1>5. ASSUME NEW l \in Leaders, NEW n \in Nodes, Spawn(l, n) \/ RunBackup(l, n)
      PROVE  RequestsCounted'
  <2>1. UNCHANGED <<server, jobs>> /\ \E x : pc' = [pc EXCEPT ![l][n] = x]
    BY <1>5, LockShape DEF Spawn
  <2> QED BY <1>0, <1>b, <2>1
<1>6. ASSUME NEW c \in Clients, NEW n \in Nodes, TriggerNode(c, n)
      PROVE  RequestsCounted'
  BY <1>0, <1>6 DEF TriggerNode
<1>7. ASSUME NEW c \in Clients, NEW n \in Nodes, StartBackup(c, n)
      PROVE  RequestsCounted'
  <2>1. UNCHANGED server
    BY <1>7, LockShape
  <2>2. CASE /\ jobs' = jobs \cup {<<c, n>>}
             /\ pc' = [pc EXCEPT ![c][n] = "fetch"]
    <3>1. \A d \in Clients, m \in Nodes :
             pc'[d][m] = pc[d][m] \/ (<<d, m>> \in jobs' /\ pc'[d][m] = "fetch")
      BY <1>0, <2>2
    <3> QED BY <1>0, <2>1, <2>2, <3>1
  <2>3. CASE pc' = [pc EXCEPT ![c][n] = "idle"] /\ UNCHANGED jobs
    BY <1>0, <2>1, <2>3
  <2> QED BY <1>7, <2>2, <2>3, LockShape
<1>8. ASSUME NEW c \in Callers, NEW n \in Nodes, runBackup(c, n)
      PROVE  RequestsCounted'
  <2>1. ASSUME NEW label \in Working, pc' = [pc EXCEPT ![c][n] = label],
               UNCHANGED jobs
        PROVE  RequestsCounted'
    <3>1. UNCHANGED server /\ pc[c][n] \in Working
      BY <1>8, BackupShape
    <3>2. \A d \in Clients, m \in Nodes :
             \/ pc'[d][m] = pc[d][m]
             \/ pc'[d][m] \in Working /\ pc[d][m] \in Working
      BY <1>0, <2>1, <3>1
    <3> QED BY <1>0, <2>1, <3>1, <3>2
  <2>2. CASE pc' = [pc EXCEPT ![c][n] = "idle"] /\ jobs' = jobs \ {<<c, n>>}
    <3>1. \A d \in Clients, m \in Nodes : pc'[d][m] # "idle" =>
             pc'[d][m] = pc[d][m] /\ (<<d, m>> \in jobs => <<d, m>> \in jobs')
      BY <1>0, <2>2, Names
    <3>2. \A d \in Clients, m \in Nodes :
             pc'[d][m] = "idle" \/ pc'[d][m] = pc[d][m]
      BY <1>0, <2>2
    <3>3. UNCHANGED server
      BY <1>8, BackupShape
    <3> QED BY <1>0, <3>1, <3>2, <3>3
  <2> QED BY <1>8, <2>1, <2>2, BackupShape
<1>9. CASE Shutdown \/ StopReturns
  BY <1>0, <1>9 DEF Shutdown, StopReturns
<1>10. CASE Stop
  BY <1>0, <1>10 DEF Stop
<1>11. CASE Exit \/ Crash \/ Start
  BY <1>0, <1>11, FreshShape
<1>12. CASE Environment \/ UNCHANGED vars
  BY <1>a, <1>12, OutsideShape DEF processVars
<1> QED
  BY <1>1, <1>2, <1>3, <1>4, <1>5, <1>6, <1>7, <1>8, <1>9, <1>10, <1>11,
     <1>12 DEF Next, CycleStep

LEMMA LocksStep == LifeInv /\ [Next]_vars => LocksHeld'
<1> SUFFICES ASSUME LifeInv, [Next]_vars PROVE LocksHeld'
  OBVIOUS
<1>0. /\ LocksHeld
      /\ pc \in [Callers -> [Nodes -> JobPc]] /\ locked \subseteq Nodes
      /\ \A c \in Leaders \cup Clients : c \in Callers
      /\ \A x \in {"idle", "queued", "spawned", "handler"} : x \notin Working
      /\ "fetch" \in Working
  BY SchedulerAssumption DEF LifeInv, TypeOK, Callers, Working
<1> USE DEF LocksHeld, jobVars, cycleVars
<1>a. ASSUME UNCHANGED locked,
             \A c \in Callers, n \in Nodes :
               pc[c][n] \in Working => pc'[c][n] \in Working
      PROVE  LocksHeld'
  BY <1>0, <1>a
<1>b. ASSUME NEW c \in Callers, NEW n \in Nodes, NEW x, UNCHANGED locked,
             pc[c][n] \notin Working \/ x \in Working,
             pc' = [pc EXCEPT ![c][n] = x]
      PROVE  LocksHeld'
  BY <1>0, <1>a, <1>b
<1>c. ASSUME NEW c \in Callers, NEW n \in Nodes, locked' = locked \cup {n},
             pc' = [pc EXCEPT ![c][n] = "fetch"]
      PROVE  LocksHeld'
  BY <1>0, <1>c
<1>1. CASE CheckBackups \/ CheckExports \/ TickerReturns \/ Shutdown \/ Stop
           \/ StopReturns
  BY <1>a, <1>1 DEF CheckBackups, CheckExports, TickerReturns, Shutdown, Stop,
                    StopReturns
<1>2. ASSUME NEW l \in Leaders,
             \/ CycleDone(l)
             \/ l \in Cycles /\ (TriggerBackups(l) \/ StartBackupCycle(l))
      PROVE  LocksHeld'
  BY <1>a, <1>2 DEF CycleDone, TriggerBackups, StartBackupCycle
<1>3. ASSUME NEW l \in Leaders, LoadPending(l) PROVE LocksHeld'
  <2>1. \A n \in Nodes : pc[l][n] = "idle"
    BY <1>3, QueryShape DEF LifeInv, PoolOnly
  <2> QED BY <1>0, <1>a, <1>3, <2>1, QueryShape DEF LifeInv
<1>4. ASSUME NEW l \in Leaders, NEW n \in Nodes, Spawn(l, n) PROVE LocksHeld'
  BY <1>0, <1>b, <1>4 DEF Spawn
<1>5. ASSUME NEW l \in Leaders, NEW n \in Nodes, RunBackup(l, n)
      PROVE  LocksHeld'
  BY <1>0, <1>b, <1>c, <1>5, LockShape
<1>6. ASSUME NEW c \in Clients, NEW n \in Nodes, TriggerNode(c, n)
      PROVE  LocksHeld'
  BY <1>0, <1>b, <1>6 DEF TriggerNode
<1>7. ASSUME NEW c \in Clients, NEW n \in Nodes, StartBackup(c, n)
      PROVE  LocksHeld'
  BY <1>0, <1>b, <1>c, <1>7, LockShape
<1>8. ASSUME NEW c \in Callers, NEW n \in Nodes, runBackup(c, n)
      PROVE  LocksHeld'
  <2>1. CASE locked' = locked \ {n} /\ pc' = [pc EXCEPT ![c][n] = "idle"]
    <3>1. \A d \in Callers, m \in Nodes : m # n => pc'[d][m] = pc[d][m]
      BY <1>0, <2>1
    <3> QED BY <1>0, <2>1, <3>1
  <2> QED BY <1>b, <1>8, <2>1, BackupShape
<1>9. CASE Exit \/ Crash \/ Start
  BY <1>9, FreshShape
<1>10. CASE Environment \/ UNCHANGED vars
  BY <1>a, <1>10, OutsideShape DEF processVars
<1> QED
  BY <1>0, <1>1, <1>2, <1>3, <1>4, <1>5, <1>6, <1>7, <1>8, <1>9, <1>10
     DEF Next, CycleStep, Leaders

(* A pool grows only in Spawn, which counts it first.                      *)
LEMMA SlotsStep == LifeInv /\ [Next]_vars => SlotsHeld'
<1> SUFFICES ASSUME LifeInv, [Next]_vars, NEW k \in Leaders
             PROVE  Cardinality(Workers(k)') <= MaxConcurrent
  BY DEF SlotsHeld
<1>0. /\ pc \in [Callers -> [Nodes -> JobPc]] /\ k \in Callers
      /\ MaxConcurrent \in Nat
      /\ Cardinality(Workers(k)) <= MaxConcurrent
      /\ \A c \in Clients : c \in Callers /\ c # k
      /\ \A l \in Leaders : l \in Callers
  BY SchedulerAssumption DEF LifeInv, TypeOK, Callers, SlotsHeld
<1>1. IsFiniteSet(Workers(k)) /\ Cardinality(Workers(k)) \in Nat
  <2>1. Workers(k) \in SUBSET Nodes
    BY DEF Workers
  <2> QED BY <2>1, SchedulerAssumption, FS_Subset, FS_CardinalityType
<1> USE DEF jobVars, cycleVars
<1>a. ASSUME Workers(k)' \subseteq Workers(k)
      PROVE  Cardinality(Workers(k)') <= MaxConcurrent
  <2>1. /\ Cardinality(Workers(k)') <= Cardinality(Workers(k))
        /\ Cardinality(Workers(k)') \in Nat
    BY <1>a, <1>1, FS_Subset, FS_CardinalityType
  <2> QED BY <1>0, <1>1, <2>1
<1>b. ASSUME \A n \in Nodes : pc[k][n] \in {"idle", "queued"}
                                => pc'[k][n] \in {"idle", "queued"}
      PROVE  Cardinality(Workers(k)') <= MaxConcurrent
  BY <1>a, <1>b DEF Workers
<1>2. CASE CheckBackups \/ CheckExports \/ TickerReturns \/ Shutdown \/ Stop
           \/ StopReturns
  BY <1>b, <1>2 DEF CheckBackups, CheckExports, TickerReturns, Shutdown, Stop,
                    StopReturns
<1>3. ASSUME NEW l \in Leaders,
             \/ CycleDone(l)
             \/ l \in Cycles /\ (TriggerBackups(l) \/ StartBackupCycle(l))
      PROVE  Cardinality(Workers(k)') <= MaxConcurrent
  BY <1>b, <1>3 DEF CycleDone, TriggerBackups, StartBackupCycle
<1>4. ASSUME NEW l \in Leaders, LoadPending(l)
      PROVE  Cardinality(Workers(k)') <= MaxConcurrent
  BY <1>0, <1>b, <1>4, QueryShape DEF LifeInv
<1>5. ASSUME NEW l \in Leaders, NEW n \in Nodes, Spawn(l, n)
      PROVE  Cardinality(Workers(k)') <= MaxConcurrent
  <2>1. CASE l # k
    BY <1>0, <1>b, <1>5, <2>1 DEF Spawn
  <2>2. CASE l = k
    <3>1. Workers(k)' = Workers(k) \cup {n} /\ n \notin Workers(k)
      BY <1>0, <1>5, <2>2 DEF Spawn, Workers
    <3>2. Cardinality(Workers(k)') = Cardinality(Workers(k)) + 1
      BY <1>1, <3>1, FS_AddElement
    <3>3. Cardinality(Workers(k)) < MaxConcurrent
      BY <1>5, <2>2 DEF Spawn
    <3> QED BY <1>0, <1>1, <3>2, <3>3
  <2> QED BY <2>1, <2>2
<1>6. ASSUME NEW l \in Leaders, NEW n \in Nodes, RunBackup(l, n)
      PROVE  Cardinality(Workers(k)') <= MaxConcurrent
  <2>1. /\ pc[l][n] = "spawned"
        /\ \E x : pc' = [pc EXCEPT ![l][n] = x]
    BY <1>6, LockShape
  <2> QED BY <1>0, <1>b, <2>1
<1>7. ASSUME NEW c \in Clients, NEW n \in Nodes,
             TriggerNode(c, n) \/ StartBackup(c, n)
      PROVE  Cardinality(Workers(k)') <= MaxConcurrent
  <2>1. \E x : pc' = [pc EXCEPT ![c][n] = x]
    BY <1>7, LockShape DEF TriggerNode
  <2> QED BY <1>0, <1>b, <2>1
<1>8. ASSUME NEW c \in Callers, NEW n \in Nodes, runBackup(c, n)
      PROVE  Cardinality(Workers(k)') <= MaxConcurrent
  <2>1. /\ pc[c][n] \notin {"idle", "queued"}
        /\ \E x : pc' = [pc EXCEPT ![c][n] = x]
    BY <1>8, BackupShape DEF Working
  <2> QED BY <1>0, <1>b, <2>1
<1>9. CASE Exit \/ Crash \/ Start
  BY <1>0, <1>b, <1>9, FreshShape
<1>10. CASE Environment \/ UNCHANGED vars
  BY <1>b, <1>10, OutsideShape DEF processVars
<1> QED
  BY <1>2, <1>3, <1>4, <1>5, <1>6, <1>7, <1>8, <1>9, <1>10
     DEF Next, CycleStep, Leaders

LEMMA LifeInit == Init => LifeInv
<1> SUFFICES ASSUME Init PROVE LifeInv
  OBVIOUS
<1>1. /\ Ticker \in Leaders /\ leader[Ticker] = "select"
      /\ \A l \in Leaders : l # Ticker => leader[l] = "idle"
      /\ \A l \in Cycles : l \in Leaders /\ l # Ticker
      /\ \A c \in Callers, n \in Nodes : pc[c][n] = "idle"
      /\ \A c \in Leaders \cup Clients : c \in Callers
  BY SchedulerAssumption DEF Init, FirstLeaders, IdleJobs, Leaders, Callers
<1>2. OneCycle /\ CyclesCounted /\ TickerAwaited /\ PoolOnly /\ RequestsCounted
      /\ LocksHeld
  BY <1>1 DEF Init, OneCycle, InCycle, CyclesCounted, TickerAwaited, PoolOnly,
              RequestsCounted, LocksHeld, Working
<1>3. SlotsHeld
  <2>1. \A l \in Leaders : Workers(l) = {}
    BY <1>1 DEF Workers
  <2> QED BY <2>1, FS_EmptySet, SchedulerAssumption DEF SlotsHeld
<1> QED BY <1>2, <1>3, TypeInit DEF LifeInv

LEMMA LifeInvariant == Spec => []LifeInv
<1>1. LifeInv /\ [Next]_vars => LifeInv'
  BY TypeStep, OneCycleStep, PoolOnlyStep, RequestsStep, LocksStep, SlotsStep
     DEF LifeInv
<1> QED BY LifeInit, <1>1, PTL DEF Spec

-----------------------------------------------------------------------------
(* When Stop has returned and main closes the database, no cycle, backup   *)
(* or request is left, provided that app.Shutdown waited for the handlers: *)
(* however ticker, cycles and requests overlapped with the signal, for any *)
(* number of them. The goroutines that send alerts are not among them.     *)
THEOREM StopLeavesNothing == Spec => []QuiescentAtClose
<1>1. LifeInv => QuiescentAtClose
  <2> SUFFICES ASSUME LifeInv, server = "closing"
               PROVE  /\ locked = {} /\ ~isRunning
                      /\ \A c \in Callers, n \in Nodes : pc[c][n] = "idle"
                      /\ \A l \in Leaders : leader[l] \in {"idle", "stopped"}
    BY DEF QuiescentAtClose
  <2>1. \A l \in Leaders : leader[l] \in {"idle", "stopped"}
    BY DEF LifeInv, TickerAwaited, CyclesCounted, InCycle, Handling, Leaders
  <2>2. ~isRunning
    BY <2>1 DEF LifeInv, OneCycle, InCycle
  <2>3. \A l \in Leaders, n \in Nodes : pc[l][n] = "idle"
    BY <2>1 DEF LifeInv, PoolOnly
  <2>4. \A c \in Clients, n \in Nodes : pc[c][n] = "idle"
    BY DEF LifeInv, RequestsCounted, TickerAwaited, Handling
  <2>5. \A c \in Callers, n \in Nodes : pc[c][n] = "idle"
    BY <2>3, <2>4 DEF Callers
  <2>6. locked = {}
    BY <2>5 DEF LifeInv, LocksHeld, TypeOK, Working
  <2> QED BY <2>1, <2>2, <2>5, <2>6
<1> QED BY LifeInvariant, <1>1, PTL

(* The cycles together run no more backups than one semaphore has slots,   *)
(* although each of them makes its own.                                    *)
THEOREM OneSemaphore == Spec => []CycleBackupsBounded
<1>1. LifeInv => CycleBackupsBounded
  <2> SUFFICES ASSUME LifeInv PROVE CycleBackupsBounded
    OBVIOUS
  <2> DEFINE B == {p \in Leaders \X Nodes : pc[p[1]][p[2]] \in Working}
  <2>1. CASE B = {}
    BY <2>1, FS_EmptySet, SchedulerAssumption DEF CycleBackupsBounded
  <2>2. CASE B # {}
    <3> PICK b \in B : TRUE
      BY <2>2
    <3> DEFINE l == b[1]
               S == {<<l, n>> : n \in Workers(l)}
    <3>1. \A p \in B : p[1] = l /\ p[2] \in Workers(l)
      BY DEF LifeInv, PoolOnly, OneCycle, InCycle, Workers, Working
    <3>2. B \in SUBSET S
      BY <3>1
    <3>3. l \in Leaders
      OBVIOUS
    <3>4. IsFiniteSet(Workers(l)) /\ Cardinality(Workers(l)) \in Nat
      <4>1. Workers(l) \in SUBSET Nodes
        BY DEF Workers
      <4> QED BY <4>1, SchedulerAssumption, FS_Subset, FS_CardinalityType
    <3>5. IsFiniteSet(S) /\ Cardinality(S) <= Cardinality(Workers(l))
      <4> DEFINE f == [n \in Workers(l) |-> <<l, n>>]
      <4>1. f \in Surjection(Workers(l), S)
        BY DEF Surjection
      <4> HIDE DEF f, S
      <4> QED BY <4>1, <3>4, FS_Surjection
    <3>6. Cardinality(B) <= Cardinality(S)
      BY <3>2, <3>5, FS_Subset
    <3>7. Cardinality(B) \in Nat /\ Cardinality(S) \in Nat
      BY <3>2, <3>5, FS_Subset, FS_CardinalityType
    <3>8. Cardinality(Workers(l)) <= MaxConcurrent
      BY <3>3 DEF LifeInv, SlotsHeld
    <3> QED
      BY <3>4, <3>5, <3>6, <3>7, <3>8, SchedulerAssumption
         DEF CycleBackupsBounded
  <2> QED BY <2>1, <2>2
<1> QED BY LifeInvariant, <1>1, PTL

-----------------------------------------------------------------------------
(* What the liveness of the scheduler rests on. A lock stands for a backup *)
(* under way, and so does a count of the WaitGroup, or for a cycle under   *)
(* way: nothing that Stop, a cycle or a request waits for has been left    *)
(* behind by a goroutine that returned early.                              *)
JobsOwned ==
  \A g \in jobs :
    \/ \E l \in Cycles : g = <<l>> /\ InCycle(l)
    \/ \E c \in Clients, n \in Nodes : g = <<c, n>> /\ pc[c][n] \in Working

NothingHeldInVain == LocksHeld /\ JobsOwned

LEMMA JobsStep == LifeInv /\ JobsOwned /\ [Next]_vars => JobsOwned'
<1> SUFFICES ASSUME LifeInv, JobsOwned, [Next]_vars PROVE JobsOwned'
  OBVIOUS
<1>0. /\ pc \in [Callers -> [Nodes -> JobPc]]
      /\ leader \in [Leaders -> LeaderPc]
      /\ \A c \in Leaders \cup Clients : c \in Callers
      /\ \A l \in Cycles : l \in Leaders /\ l # Ticker
      /\ \A c \in Clients, l \in Leaders : c # l
      /\ \A x \in {"idle", "queued", "spawned", "handler"} : x \notin Working
      /\ "fetch" \in Working /\ TypeOK
  BY SchedulerAssumption DEF LifeInv, TypeOK, Callers, Working, Leaders
<1> USE DEF InCycle, jobVars, cycleVars
<1>a. ASSUME \A g \in jobs' : g \in jobs,
             \A l \in Cycles : <<l>> \in jobs' /\ InCycle(l) => InCycle(l)',
             \A c \in Clients, n \in Nodes :
               <<c, n>> \in jobs' /\ pc[c][n] \in Working
                 => pc'[c][n] \in Working
      PROVE  JobsOwned'
  BY <1>a DEF JobsOwned
<1>1. CASE CheckBackups \/ CheckExports \/ TickerReturns
  BY <1>0, <1>1, <1>a DEF CheckBackups, CheckExports, TickerReturns
<1>2. CASE Shutdown \/ Stop \/ StopReturns
  BY <1>a, <1>2 DEF Shutdown, Stop, StopReturns
<1>3. ASSUME NEW l \in Cycles, TriggerBackups(l) \/ StartBackupCycle(l)
      PROVE  JobsOwned'
  <2>1. leader[l] \in {"idle", "handler"} /\ UNCHANGED pc
    BY <1>3 DEF TriggerBackups, StartBackupCycle
  <2>2. CASE /\ jobs' = jobs \cup {<<l>>}
             /\ leader' = [leader EXCEPT ![l] = "query"]
    <3>1. InCycle(l)' /\ \A m \in Cycles : InCycle(m) => InCycle(m)'
      BY <1>0, <2>1, <2>2
    <3> QED BY <2>1, <2>2, <3>1 DEF JobsOwned
  <2>3. CASE /\ \E x : leader' = [leader EXCEPT ![l] = x]
             /\ UNCHANGED jobs
    BY <1>0, <1>a, <2>1, <2>3
  <2> QED BY <1>3, <2>2, <2>3 DEF TriggerBackups, StartBackupCycle, JobsAdd
<1>4. ASSUME NEW l \in Leaders, CycleDone(l) PROVE JobsOwned'
  <2>1. /\ jobs' = jobs \ {<<l>>} /\ UNCHANGED pc
        /\ \A m \in Leaders : m # l => leader'[m] = leader[m]
    BY <1>0, <1>4 DEF CycleDone, JobsDone
  <2> QED BY <1>0, <1>a, <2>1
<1>5. ASSUME NEW l \in Leaders, LoadPending(l) PROVE JobsOwned'
  BY <1>0, <1>5, <1>a, QueryShape
<1>6. ASSUME NEW l \in Leaders, NEW n \in Nodes, Spawn(l, n) \/ RunBackup(l, n)
      PROVE  JobsOwned'
  <2>1. /\ UNCHANGED <<leader, jobs>>
        /\ \E x : pc' = [pc EXCEPT ![l][n] = x]
    BY <1>6, LockShape DEF Spawn
  <2> QED BY <1>0, <1>a, <2>1
<1>7. ASSUME NEW c \in Clients, NEW n \in Nodes, TriggerNode(c, n)
      PROVE  JobsOwned'
  BY <1>0, <1>7, <1>a DEF TriggerNode
<1>8. ASSUME NEW c \in Clients, NEW n \in Nodes, StartBackup(c, n)
      PROVE  JobsOwned'
  <2>0. pc[c][n] = "handler" /\ UNCHANGED leader
    BY <1>8, LockShape
  <2>1. CASE /\ jobs' = jobs \cup {<<c, n>>}
             /\ pc' = [pc EXCEPT ![c][n] = "fetch"]
    <3>1. UNCHANGED leader /\ pc'[c][n] \in Working
      BY <1>0, <2>0, <2>1
    <3>2. \A d \in Clients, m \in Nodes :
            pc[d][m] \in Working => pc'[d][m] \in Working
      BY <1>0, <2>1
    <3> QED BY <2>1, <3>1, <3>2 DEF JobsOwned
  <2>2. CASE pc' = [pc EXCEPT ![c][n] = "idle"] /\ UNCHANGED jobs
    BY <1>0, <1>a, <2>0, <2>2
  <2> QED BY <1>8, <2>1, <2>2, LockShape
<1>9. ASSUME NEW c \in Callers, NEW n \in Nodes, runBackup(c, n)
      PROVE  JobsOwned'
  <2>0. UNCHANGED leader
    BY <1>9, BackupShape
  <2>1. ASSUME NEW label \in Working, pc' = [pc EXCEPT ![c][n] = label],
               UNCHANGED jobs
        PROVE  JobsOwned'
    BY <1>0, <1>a, <2>0, <2>1
  <2>2. CASE pc' = [pc EXCEPT ![c][n] = "idle"] /\ jobs' = jobs \ {<<c, n>>}
    BY <1>0, <1>a, <2>0, <2>2
  <2> QED BY <1>9, <2>1, <2>2, BackupShape
<1>10. CASE Exit \/ Crash \/ Start
  BY <1>10, FreshShape DEF JobsOwned
<1>11. CASE Environment \/ UNCHANGED vars
  BY <1>a, <1>11, OutsideShape DEF processVars
<1> QED
  BY <1>1, <1>2, <1>3, <1>4, <1>5, <1>6, <1>7, <1>8, <1>9, <1>10, <1>11
     DEF Next, CycleStep

(* No lock and no count of the WaitGroup is ever left behind, on whatever  *)
(* early return: Stop and the next backup of a node wait only for work     *)
(* that is under way.                                                      *)
THEOREM NothingLeaks == Spec => []NothingHeldInVain
<1>1. Init => JobsOwned
  BY DEF Init, JobsOwned
<1>2. LifeInv => LocksHeld
  BY DEF LifeInv
<1> QED
  BY <1>1, <1>2, JobsStep, LifeInvariant, PTL DEF Spec, NothingHeldInVain
=============================================================================
