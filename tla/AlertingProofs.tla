--------------------------- MODULE AlertingProofs ---------------------------
(* Alerting for every instance: the composition is the scheduler, and what *)
(* is told agrees with what is stored.                                     *)
EXTENDS Alerting, SchedulerProofs

(* Alerts are decided and dispatched in one step of runBackup.             *)
LEMMA TellIsNext ==
  ASSUME NEW c \in Callers, NEW n \in Nodes, Tell(c, n) PROVE Next
<1>1. PICK muted \in Muted(c, n) : \/ AlertDrift(c, n)
                                    \/ TellRecovery(c, n, muted)
                                    \/ TellFailure(c, n, muted)
  BY DEF Tell
<1>2. runBackup(c, n)
  BY <1>1 DEF runBackup, AlertRecovery, AlertFailure
<1> QED BY <1>2 DEF Next

LEMMA StepIsNext == [AlertingNext]_alertingVars => [Next]_vars
<1>1. CASE UNCHANGED alertingVars
  BY <1>1 DEF alertingVars
<1>2. CASE \E c \in Callers, n \in Nodes : Tell(c, n)
  BY <1>2, TellIsNext
<1>3. CASE Elapse
  BY <1>3 DEF Elapse
<1>4. CASE Destination
  BY <1>4 DEF Destination
<1> QED BY <1>1, <1>2, <1>3, <1>4 DEF AlertingNext

(* Dispatching takes nothing away from the scheduler and adds nothing to   *)
(* it: what is proved of Scheduler holds of the composition.               *)
THEOREM AlertingIsScheduling == AlertingSpec => Spec
<1>1. AlertingInit => Init
  BY DEF AlertingInit
<1> QED BY <1>1, StepIsNext, PTL DEF AlertingSpec, Spec

-----------------------------------------------------------------------------
(* The messages. Those about a version are not news, and those about other *)
(* nodes are neither.                                                      *)
LEMMA Kinds ==
  /\ Other \in Messages /\ Other \notin Drifts /\ About(Other) = {}
  /\ \A n \in Watched, news \in News :
       /\ <<n, news, 0>> \in Messages /\ <<n, news, 0>> \notin Drifts
       /\ About(<<n, news, 0>>) = {n}
  /\ \A d \in Drifts : d \in Messages /\ About(d) = {}
  /\ \A m \in Messages, w \in Watched : w \in About(m) =>
       m[1] = w /\ m[2] \in News /\ m = <<w, m[2], 0>>
<1>1. "drift" \notin News /\ "other" \notin News
  BY DEF News
<1>2. \A d \in Drifts : d[1] \in Watched /\ d[2] = "drift"
  BY DEF Drifts
<1>3. \A m \in Messages : m[2] \in News => m \in Watched \X News \X {0}
  BY <1>1, <1>2 DEF Messages, Other
<1> QED
  BY <1>1, <1>2, <1>3, AlertDispatchAssumption DEF Messages, Other, About

LEMMA CallsMessages ==
  /\ \A n, news : NewsAbout(n, news) = IF n \in Watched THEN <<n, news, 0>>
                                       ELSE Other
  /\ \A n, v : DriftOf(n, v) \in Drifts \cup {Other}
BY DEF NewsAbout, DriftOf

(* A message is sent by as many goroutines as were started for it.         *)
SendingType == sending \in [Messages -> Nat]

LEMMA SendingStep == SendingType /\ [AlertingNext]_alertingVars => SendingType'
<1> SUFFICES ASSUME SendingType, [AlertingNext]_alertingVars
             PROVE  SendingType'
  OBVIOUS
<1> USE DEF SendingType
<1>1. ASSUME NEW sent, NEW m, Calls(sent, m) PROVE SendingType'
  BY <1>1 DEF Calls, Dispatch, Sends, Skips, dispatchVars
<1>2. ASSUME NEW c \in Callers, NEW n \in Nodes, Tell(c, n) PROVE SendingType'
  BY <1>1, <1>2 DEF Tell
<1>3. CASE Elapse
  BY <1>3 DEF Elapse, LoseAll, dispatchVars
<1>4. CASE Destination
  BY <1>4 DEF Destination, Sent, SendFails, Gone
<1>5. CASE UNCHANGED alertingVars
  BY <1>5 DEF alertingVars, dispatchVars
<1> QED BY <1>2, <1>3, <1>4, <1>5 DEF AlertingNext

LEMMA SendingInvariant == AlertingSpec => []SendingType
<1>1. AlertingInit => SendingType
  BY DEF AlertingInit, DispatchInit, SendingType
<1> QED BY <1>1, SendingStep, PTL DEF AlertingSpec

-----------------------------------------------------------------------------
(* Which alerts the scheduler decides on. What a request for a single node *)
(* can do to them is the finding of scheduler_manual_alerts, so the next   *)
(* results are about the cycles; a failing query or a crash between an     *)
(* alert and its UPDATE, and a mute, keep an alert away or repeat it, so   *)
(* some of them exclude these as well.                                     *)
CyclesOnly == Clients = {}
NoFaults   == DbFails = FALSE /\ Crashes = FALSE /\ Operators = FALSE

SchedulerInv == LifeInv /\ IInv

LEMMA SchedulerInvariant == Spec => []SchedulerInv
BY LifeInvariant, Invariant, PTL DEF SchedulerInv

(* A cycle decides by the row it loaded, and while it has a node in hand   *)
(* nobody else changes the row's status.                                   *)
SeenIsRow ==
  \A l \in Leaders, n \in Nodes :
    pc[l][n] # "idle" => seen[l][n].lastStatus = lastStatus[n]

LEMMA OneLeader ==
  ASSUME LifeInv, NEW l \in Leaders, NEW k \in Leaders,
         NEW n \in Nodes, NEW m \in Nodes,
         pc[l][n] # "idle", pc[k][m] # "idle"
  PROVE  l = k
BY DEF LifeInv, PoolOnly, OneCycle, InCycle

LEMMA SeenStep ==
  CyclesOnly /\ SchedulerInv /\ SeenIsRow /\ [Next]_vars => SeenIsRow'
<1> SUFFICES ASSUME CyclesOnly, SchedulerInv, SeenIsRow, [Next]_vars
             PROVE  SeenIsRow'
  OBVIOUS
<1>0. /\ LifeInv /\ TypeOK /\ Callers = Leaders /\ Clients = {}
      /\ pc \in [Callers -> [Nodes -> JobPc]]
      /\ seen \in [Callers -> [Nodes -> RowView]]
      /\ lastStatus \in [Nodes -> Status]
      /\ \A l \in Cycles : l \in Leaders
  BY DEF SchedulerInv, LifeInv, TypeOK, CyclesOnly, Callers, Leaders
<1> USE DEF jobVars, cycleVars, dbVars
<1>a. ASSUME UNCHANGED <<pc, seen, lastStatus>> PROVE SeenIsRow'
  BY <1>0, <1>a DEF SeenIsRow
<1>b. ASSUME NEW l \in Leaders, NEW n \in Nodes, pc[l][n] # "idle", NEW x,
             UNCHANGED <<seen, lastStatus>>, pc' = [pc EXCEPT ![l][n] = x]
      PROVE  SeenIsRow'
  BY <1>0, <1>b DEF SeenIsRow
<1>c. ASSUME NEW l \in Leaders, NEW n \in Nodes, Forget(l, n),
             pc[l][n] # "idle", pc' = [pc EXCEPT ![l][n] = "idle"],
             \A m \in Nodes : m # n => lastStatus'[m] = lastStatus[m]
      PROVE  SeenIsRow'
  <2> SUFFICES ASSUME NEW k \in Leaders, NEW m \in Nodes, pc'[k][m] # "idle"
               PROVE  seen'[k][m].lastStatus = lastStatus'[m]
    BY DEF SeenIsRow
  <2>1. pc[k][m] # "idle"
    BY <1>0, <1>c
  <2>2. k = l
    BY <1>0, <1>c, <2>1, OneLeader
  <2>3. m # n
    BY <1>0, <1>c, <2>2
  <2>4. seen'[k][m] = seen[k][m]
    BY <1>0, <1>c, <2>2, <2>3 DEF Forget
  <2> QED BY <1>c, <2>1, <2>3, <2>4 DEF SeenIsRow
<1>1. ASSUME NEW l \in Leaders, LoadPending(l) PROVE SeenIsRow'
  <2>1. CASE UNCHANGED jobVars
    BY <1>1, <1>a, <2>1 DEF LoadPending
  <2>2. CASE ~UNCHANGED jobVars
    <3>1. /\ leader[l] = "query" /\ UNCHANGED lastStatus
          /\ pc' = [pc EXCEPT ![l] =
                      [n \in Nodes |-> IF pending[n] THEN "queued" ELSE @[n]]]
          /\ seen' = [seen EXCEPT ![l] =
                      [n \in Nodes |-> IF pending[n] THEN RowOf(n) ELSE @[n]]]
      BY <1>1, <2>2 DEF LoadPending
    <3>2. \A n \in Nodes : pc[l][n] = "idle"
      BY <1>0, <3>1 DEF LifeInv, PoolOnly
    <3>3. \A n \in Nodes : RowOf(n).lastStatus = lastStatus[n]
      BY DEF RowOf
    <3>4. ASSUME NEW k \in Leaders, NEW n \in Nodes, pc'[k][n] # "idle"
          PROVE  seen'[k][n].lastStatus = lastStatus'[n]
      <4>1. CASE k = l
        <5>1. pending[n]
          BY <1>0, <3>1, <3>2, <3>4, <4>1
        <5>2. seen'[k][n] = RowOf(n)
          BY <1>0, <3>1, <4>1, <5>1
        <5> QED BY <3>1, <3>3, <5>2
      <4>2. CASE k # l
        <5>1. pc'[k] = pc[k] /\ seen'[k] = seen[k]
          BY <1>0, <3>1, <4>2
        <5> QED BY <3>1, <3>4, <5>1 DEF SeenIsRow
      <4> QED BY <4>1, <4>2
    <3> QED BY <3>4 DEF SeenIsRow
  <2> QED BY <2>1, <2>2
<1>2. ASSUME NEW l \in Leaders, NEW n \in Nodes, Spawn(l, n) PROVE SeenIsRow'
  BY <1>b, <1>2 DEF Spawn
<1>3. ASSUME NEW l \in Leaders, NEW n \in Nodes, RunBackup(l, n)
      PROVE  SeenIsRow'
  <2>1. pc[l][n] = "spawned" /\ UNCHANGED lastStatus
    BY <1>3 DEF RunBackup
  <2>2. CASE UNCHANGED seen
    BY <1>3, <1>b, <2>1, <2>2 DEF RunBackup
  <2>3. CASE Forget(l, n) /\ pc' = [pc EXCEPT ![l][n] = "idle"]
    BY <1>c, <2>1, <2>3
  <2> QED BY <1>3, <2>2, <2>3 DEF RunBackup
<1>4. ASSUME NEW c \in Callers, NEW n \in Nodes, runBackup(c, n)
      PROVE  SeenIsRow'
  <2>0. pc[c][n] # "idle" /\ c \in Leaders
    BY <1>0, <1>4, BackupShape DEF Working
  <2>1. CASE UpdateNode(c, n) \/ QueryFails(c, n)
    <3>1. /\ Forget(c, n) /\ pc' = [pc EXCEPT ![c][n] = "idle"]
          /\ \A m \in Nodes : m # n => lastStatus'[m] = lastStatus[m]
      BY <1>0, <2>1 DEF UpdateNode, QueryFails, Return
    <3> QED BY <1>c, <2>0, <3>1
  <2>2. CASE ~(UpdateNode(c, n) \/ QueryFails(c, n))
    <3>1. /\ UNCHANGED <<seen, lastStatus>>
          /\ \E x : pc' = [pc EXCEPT ![c][n] = x]
      BY <1>4, <2>2 DEF runBackup, FetchOk, FetchError, LoadLast,
         CreateVersion, AlertDrift, AlertRecovery, TellRecovery,
         RecordFailure, AlertFailure, TellFailure, Goto
    <3> QED BY <1>b, <2>0, <3>1
  <2> QED BY <2>1, <2>2
<1>5. CASE Exit \/ Crash \/ Start
  BY <1>0, <1>5, FreshShape DEF SeenIsRow
<1>6. CASE Environment
  BY <1>a, <1>6 DEF Environment, Reconfigure, BecomePending, Disable,
                    SnoozeNode
<1>7. CASE \/ CheckBackups \/ CheckExports \/ TickerReturns
           \/ Shutdown \/ Stop \/ StopReturns \/ UNCHANGED vars
  BY <1>a, <1>7 DEF CheckBackups, CheckExports, TickerReturns, Shutdown,
                    Stop, StopReturns, vars
<1>8. ASSUME NEW l \in Leaders,
             \/ CycleDone(l)
             \/ l \in Cycles /\ (TriggerBackups(l) \/ StartBackupCycle(l))
      PROVE  SeenIsRow'
  BY <1>a, <1>8 DEF CycleDone, TriggerBackups, StartBackupCycle
<1> QED
  BY <1>0, <1>1, <1>2, <1>3, <1>4, <1>5, <1>6, <1>7, <1>8
     DEF Next, CycleStep

LEMMA SeenInvariant == CyclesOnly => (Spec => []SeenIsRow)
<1> SUFFICES ASSUME CyclesOnly PROVE Spec => []SeenIsRow
  OBVIOUS
<1>1. Init => SeenIsRow
  BY DEF Init, SeenIsRow, IdleJobs, Callers
<1>2. SchedulerInv /\ SeenIsRow /\ [Next]_vars => SeenIsRow'
  BY SeenStep
<1> QED BY <1>1, <1>2, SchedulerInvariant, PTL DEF Spec

(* Only a failed backup raises the number of failure alerts, and only if   *)
(* the row it goes by was not failing.                                     *)
LEMMA WhoRaises ==
  ASSUME TypeOK, [Next]_vars, NEW n \in Nodes,
         failureAlerts'[n] > failureAlerts[n]
  PROVE  \E c \in Callers : pc[c][n] = "alert" /\ FailureIsNews(c, n)
<1> USE DEF TypeOK, dbVars, jobVars, outsideVars, cycleVars
<1>0. failureAlerts' # failureAlerts /\ failureAlerts[n] \in 0 .. 2
  OBVIOUS
<1>1. PICK c \in Callers, m \in Nodes : runBackup(c, m)
  BY <1>0 DEF Next, CycleStep, CheckBackups, CheckExports, TickerReturns,
     TriggerBackups, StartBackupCycle, LoadPending, CycleDone, Spawn,
     RunBackup, TriggerNode, StartBackup, Shutdown, Stop, StopReturns, Exit,
     Crash, Start, Environment,
     Reconfigure, BecomePending, Disable, SnoozeNode, vars
<1>2. CASE AlertFailure(c, m)
  <2>1. PICK muted : TellFailure(c, m, muted)
    BY <1>2 DEF AlertFailure
  <2>2. /\ pc[c][m] = "alert" /\ FailureIsNews(c, m)
        /\ failureAlerts' = [failureAlerts EXCEPT ![m] = @ + 1]
    BY <1>0, <2>1 DEF TellFailure
  <2>3. m = n
    BY <1>0, <2>2
  <2> QED BY <2>2, <2>3
<1>3. CASE AlertRecovery(c, m)
  <2>1. failureAlerts' = [failureAlerts EXCEPT ![m] = 0]
    BY <1>0, <1>3 DEF AlertRecovery, TellRecovery
  <2> QED BY <1>0, <2>1
<1>4. AlertFailure(c, m) \/ AlertRecovery(c, m)
  BY <1>0, <1>1 DEF runBackup, FetchOk, FetchError, LoadLast, CreateVersion,
     AlertDrift, RecordFailure, UpdateNode, QueryFails
<1> QED BY <1>2, <1>3, <1>4

(* A cycle never announces an outage twice: with requests for single nodes *)
(* out of the way, no failure alert goes out for a node whose row says     *)
(* that it is failing, whatever fails or crashes and however the ticker's  *)
(* cycle and one started by hand follow each other. runBackup decides by   *)
(* the row that was read at the start, but nobody changes it until then.   *)
THEOREM OutageToldOnce == CyclesOnly => (Spec => AlertOnTransitionOnly)
<1> SUFFICES ASSUME CyclesOnly PROVE Spec => AlertOnTransitionOnly
  OBVIOUS
<1>1. SchedulerInv /\ SeenIsRow /\ [Next]_vars =>
        [\A n \in Nodes : failureAlerts'[n] > failureAlerts[n]
                            => lastStatus[n] # "error"]_vars
  <2> SUFFICES ASSUME SchedulerInv, SeenIsRow, [Next]_vars, NEW n \in Nodes,
                      failureAlerts'[n] > failureAlerts[n]
               PROVE  lastStatus[n] # "error"
    OBVIOUS
  <2>1. TypeOK
    BY DEF SchedulerInv, IInv
  <2>2. PICK c \in Callers : pc[c][n] = "alert" /\ FailureIsNews(c, n)
    BY <2>1, WhoRaises
  <2> QED BY <2>2 DEF SeenIsRow, FailureIsNews, CyclesOnly, Callers
<1> QED
  BY <1>1, SchedulerInvariant, SeenInvariant, PTL
     DEF Spec, AlertOnTransitionOnly

-----------------------------------------------------------------------------
(* Without a mute every alert of a node that a rule matches is sent.       *)
Unmuted ==
  \A n \in Nodes : ~snoozed[n] /\ \A c \in Callers : ~seen[c][n].snoozed

LEMMA AllHeard ==
  ASSUME NoFaults, Unmuted, NEW c \in Callers, NEW n \in Alerted
  PROVE  Muted(c, n) = {FALSE}
BY SchedulerAssumption DEF NoFaults, Unmuted, Muted

LEMMA UnmutedStep ==
  NoFaults /\ TypeOK /\ Unmuted /\ [Next]_vars => Unmuted'
<1> SUFFICES ASSUME NoFaults, TypeOK, Unmuted, [Next]_vars PROVE Unmuted'
  OBVIOUS
<1> USE DEF dbVars, jobVars, outsideVars, cycleVars
<1>0. /\ seen \in [Callers -> [Nodes -> RowView]]
      /\ NoRow.snoozed = FALSE
      /\ \A n \in Nodes : RowOf(n).snoozed = snoozed[n]
      /\ \A c \in Leaders \cup Clients : c \in Callers
  BY DEF TypeOK, NoRow, RowOf, Callers
<1>a. ASSUME UNCHANGED <<snoozed, seen>> PROVE Unmuted'
  BY <1>a DEF Unmuted
<1>b. ASSUME UNCHANGED snoozed, NEW c \in Callers, NEW n \in Nodes, NEW x,
             ~x.snoozed, seen' = [seen EXCEPT ![c][n] = x]
      PROVE  Unmuted'
  BY <1>0, <1>b DEF Unmuted
<1>1. ASSUME NEW l \in Leaders, LoadPending(l) PROVE Unmuted'
  <2>1. CASE UNCHANGED jobVars
    BY <1>1, <1>a, <2>1 DEF LoadPending
  <2>2. CASE ~UNCHANGED jobVars
    <3> DEFINE R == [n \in Nodes |-> IF pending[n] THEN RowOf(n)
                                     ELSE seen[l][n]]
    <3>1. seen' = [seen EXCEPT ![l] = R] /\ UNCHANGED snoozed
      BY <1>1, <2>2 DEF LoadPending
    <3>2. \A n \in Nodes : ~R[n].snoozed
      BY <1>0 DEF Unmuted
    <3> HIDE DEF R
    <3> QED BY <1>0, <3>1, <3>2 DEF Unmuted
  <2> QED BY <2>1, <2>2
<1>2. ASSUME NEW c \in Callers, NEW n \in Nodes,
             RunBackup(c, n) \/ StartBackup(c, n)
      PROVE  Unmuted'
  BY <1>0, <1>2, <1>a, <1>b DEF RunBackup, StartBackup, Forget
<1>3. ASSUME NEW c \in Callers, NEW n \in Nodes, TriggerNode(c, n)
      PROVE  Unmuted'
  <2>1. ~RowOf(n).snoozed
    BY <1>0 DEF Unmuted
  <2> QED BY <1>3, <1>b, <2>1 DEF TriggerNode
<1>4. ASSUME NEW c \in Callers, NEW n \in Nodes, runBackup(c, n)
      PROVE  Unmuted'
  <2>1. UNCHANGED snoozed
    BY <1>4 DEF runBackup, FetchOk, FetchError, LoadLast, CreateVersion,
       AlertDrift, AlertRecovery, TellRecovery, RecordFailure,
       AlertFailure, TellFailure, UpdateNode, QueryFails
  <2>2. UNCHANGED seen \/ Forget(c, n)
    BY <1>4 DEF runBackup, FetchOk, FetchError, LoadLast, CreateVersion,
       AlertDrift, AlertRecovery, TellRecovery, RecordFailure,
       AlertFailure, TellFailure, UpdateNode, QueryFails, Return
  <2> QED BY <1>0, <1>a, <1>b, <2>1, <2>2 DEF Forget
<1>5. CASE Exit \/ Start
  BY <1>0, <1>5 DEF Exit, Start, FreshProcess, IdleJobs, Unmuted
<1>6. CASE Environment
  BY <1>a, <1>6 DEF Environment, Reconfigure, BecomePending, Disable,
                    SnoozeNode, NoFaults
<1>7. CASE \/ CheckBackups \/ CheckExports \/ TickerReturns
           \/ Shutdown \/ Stop \/ StopReturns \/ UNCHANGED vars
  BY <1>a, <1>7 DEF CheckBackups, CheckExports, TickerReturns, Shutdown,
                    Stop, StopReturns, vars
<1>8. ASSUME NEW l \in Leaders,
             \/ CycleDone(l) \/ (\E n \in Nodes : Spawn(l, n))
             \/ l \in Cycles /\ (TriggerBackups(l) \/ StartBackupCycle(l))
      PROVE  Unmuted'
  BY <1>a, <1>8 DEF CycleDone, Spawn, TriggerBackups, StartBackupCycle
<1>9. ~Crash
  BY DEF Crash, NoFaults
<1> QED
  BY <1>0, <1>1, <1>2, <1>3, <1>4, <1>5, <1>6, <1>7, <1>8, <1>9
     DEF Next, CycleStep, Leaders

LEMMA UnmutedInvariant == NoFaults => (Spec => []Unmuted)
<1> SUFFICES ASSUME NoFaults PROVE Spec => []Unmuted
  OBVIOUS
<1>1. Init => Unmuted
  BY DEF Init, IdleJobs, NoRow, Unmuted
<1>2. TypeOK /\ Unmuted /\ [Next]_vars => Unmuted'
  BY UnmutedStep
<1> QED BY <1>1, <1>2, TypeCorrect, PTL DEF Spec

(* A stop that does not wait for the handlers may leave a backup behind,   *)
(* between its alert and its UPDATE: the results are about the others.     *)
Orderly == server \notin {"hasty", "exiting"}

LEMMA OrderlyInvariant == Spec /\ [](server # "hasty") => []Orderly
<1> DEFINE NotExiting == server # "exiting"
<1>1. Init => NotExiting
  BY DEF Init
<1>2. server # "hasty" /\ NotExiting /\ [Next]_vars => NotExiting'
  <2> SUFFICES ASSUME server # "hasty", server # "exiting", [Next]_vars
               PROVE  server' # "exiting"
    OBVIOUS
  <2>1. ASSUME NEW c \in Callers, NEW n \in Nodes, runBackup(c, n)
        PROVE  server' = server
    BY <2>1, BackupShape
  <2> QED
    BY <2>1 DEF Next, CycleStep, CheckBackups, CheckExports, TickerReturns,
       TriggerBackups, StartBackupCycle, LoadPending, CycleDone, Spawn,
       RunBackup, TriggerNode, StartBackup, Shutdown, Stop, StopReturns, Exit,
       Crash, Start, FreshProcess, Environment, Reconfigure, BecomePending,
       Disable, SnoozeNode, vars, cycleVars
<1>3. server # "hasty" /\ NotExiting => Orderly
  BY DEF Orderly
<1> HIDE DEF NotExiting
<1> QED BY <1>1, <1>2, <1>3, PTL DEF Spec

(* What a backup has to tell is decided between the fetch and the return:  *)
(* every other step leaves those backups, and what alerts depend on, as    *)
(* they are.                                                               *)
Deciding == Working \ {"fetch"}

LEMMA DownIsQuiet ==
  ASSUME LifeInv, server \in {"closing", "down"},
         NEW c \in Callers, NEW n \in Nodes
  PROVE  pc[c][n] = "idle"
<1>1. \A l \in Leaders : leader[l] # "pool"
  BY DEF LifeInv, TickerAwaited, CyclesCounted, InCycle, Leaders
<1>2. CASE c \in Leaders
  BY <1>1, <1>2 DEF LifeInv, PoolOnly
<1>3. CASE c \in Clients
  BY <1>3 DEF LifeInv, RequestsCounted, TickerAwaited, Handling
<1> QED BY <1>2, <1>3 DEF Callers

LEMMA Aside ==
  ASSUME NoFaults, Orderly, LifeInv, [Next]_vars,
         ~\E c \in Callers, n \in Nodes : runBackup(c, n)
  PROVE  /\ UNCHANGED <<lastStatus, versions, failureAlerts>>
         /\ \A c \in Callers, n \in Nodes :
              pc[c][n] \in Deciding \/ pc'[c][n] \in Deciding =>
                pc'[c][n] = pc[c][n] /\ last'[c][n] = last[c][n]
<1> DEFINE Same == \A c \in Callers, n \in Nodes :
              pc[c][n] \in Deciding \/ pc'[c][n] \in Deciding =>
                pc'[c][n] = pc[c][n] /\ last'[c][n] = last[c][n]
<1>0. /\ pc \in [Callers -> [Nodes -> JobPc]]
      /\ last \in [Callers -> [Nodes -> Version]]
      /\ \A c \in Leaders \cup Clients : c \in Callers
      /\ \A x \in {"idle", "queued", "spawned", "handler", "fetch"} :
            x \notin Deciding
  BY DEF LifeInv, TypeOK, Callers, Working, Deciding
<1> USE DEF dbVars, jobVars, outsideVars, cycleVars
<1>1. UNCHANGED <<lastStatus, versions, failureAlerts>>
  BY DEF Next, CycleStep, CheckBackups, CheckExports, TickerReturns,
     TriggerBackups, StartBackupCycle, LoadPending, CycleDone, Spawn,
     RunBackup, TriggerNode, StartBackup, Shutdown, Stop, StopReturns, Exit,
     Crash, Start, Environment,
     Reconfigure, BecomePending, Disable, SnoozeNode, vars
<1>a. ASSUME UNCHANGED <<pc, last>> PROVE Same
  BY <1>a
<1>b. ASSUME NEW c \in Callers, NEW n \in Nodes, NEW x, NEW y,
             pc[c][n] \notin Deciding, x \notin Deciding,
             pc' = [pc EXCEPT ![c][n] = x],
             last' = last \/ last' = [last EXCEPT ![c][n] = y]
      PROVE  Same
  BY <1>0, <1>b
<1>2. ASSUME NEW l \in Leaders, LoadPending(l) PROVE Same
  <2>1. CASE UNCHANGED jobVars
    BY <1>a, <2>1
  <2>2. CASE ~UNCHANGED jobVars
    <3>1. \A n \in Nodes : pc[l][n] = "idle"
      BY <1>2 DEF LoadPending, LifeInv, PoolOnly
    <3>2. /\ pc' = [pc EXCEPT ![l] =
                      [n \in Nodes |-> IF pending[n] THEN "queued" ELSE @[n]]]
          /\ UNCHANGED last
      BY <1>2, <2>2 DEF LoadPending
    <3> QED BY <1>0, <3>1, <3>2
  <2> QED BY <2>1, <2>2
<1>3. ASSUME NEW l \in Leaders, NEW n \in Nodes, Spawn(l, n) PROVE Same
  BY <1>0, <1>3, <1>b DEF Spawn
<1>4. ASSUME NEW c \in Callers, NEW n \in Nodes,
             RunBackup(c, n) \/ StartBackup(c, n) \/ TriggerNode(c, n)
      PROVE  Same
  <2>1. /\ pc[c][n] \in {"idle", "spawned", "handler"}
        /\ \E x \in {"idle", "handler", "fetch"} :
              pc' = [pc EXCEPT ![c][n] = x]
        /\ \E y : last' = last \/ last' = [last EXCEPT ![c][n] = y]
    BY <1>4 DEF RunBackup, StartBackup, TriggerNode, Forget
  <2> QED BY <1>0, <1>b, <2>1
<1>5. ASSUME Exit \/ Start PROVE Same
  <2>1. \A c \in Callers, n \in Nodes : pc[c][n] = "idle"
    BY <1>5, DownIsQuiet DEF Exit, Start, Orderly
  <2>2. \A c \in Callers, n \in Nodes : pc'[c][n] = "idle"
    BY <1>5, FreshShape
  <2> QED BY <1>0, <2>1, <2>2
<1>6. ASSUME Environment PROVE Same
  BY <1>a, <1>6 DEF Environment, Reconfigure, BecomePending, Disable,
                    SnoozeNode
<1>7. ASSUME \/ CheckBackups \/ CheckExports \/ TickerReturns
             \/ Shutdown \/ Stop \/ StopReturns \/ UNCHANGED vars
      PROVE  Same
  BY <1>a, <1>7 DEF CheckBackups, CheckExports, TickerReturns, Shutdown,
                    Stop, StopReturns, vars
<1>8. ASSUME NEW l \in Leaders,
             \/ CycleDone(l)
             \/ l \in Cycles /\ (TriggerBackups(l) \/ StartBackupCycle(l))
      PROVE  Same
  BY <1>a, <1>8 DEF CycleDone, TriggerBackups, StartBackupCycle
<1>9. ~Crash
  BY DEF Crash, NoFaults
<1>10. Same
  BY <1>0, <1>2, <1>3, <1>4, <1>5, <1>6, <1>7, <1>8, <1>9
     DEF Next, CycleStep, Leaders
<1> QED BY <1>1, <1>10

(* A version is told as soon as there is one, but for the backup that is   *)
(* about to.                                                               *)
HasVersion(n, v)  == \E r \in versions[n] : r.version = v
AboutToTell(n, v) == \E c \in Callers : /\ pc[c][n] = "drift"
                                         /\ last[c][n].version + 1 = v

FateInv ==
  \A n \in Watched, v \in Followed \ {0, 1} :
    /\ fate[<<n, "drift", v>>] # "repeated"
    /\ fate[<<n, "drift", v>>] = "untold" <=>
         ~HasVersion(n, v) \/ AboutToTell(n, v)
    /\ AboutToTell(n, v) => HasVersion(n, v)

(* Most steps do not change what there is to tell of versions.             *)
LEMMA NothingNew ==
  ASSUME FateInv,
         \A n \in Watched, v \in Followed \ {0, 1} :
           /\ HasVersion(n, v)' <=> HasVersion(n, v)
           /\ AboutToTell(n, v)' <=> AboutToTell(n, v),
         \A d \in Drifts : /\ fate'[d] = "repeated" <=> fate[d] = "repeated"
                           /\ fate'[d] = "untold" <=> fate[d] = "untold"
  PROVE  FateInv'
<1>1. \A n \in Watched, v \in Followed : <<n, "drift", v>> \in Drifts
  BY DEF Drifts
<1> QED BY <1>1 DEF FateInv

LEMMA OnTheirWay ==
  ASSUME LoseAll \/ Destination
  PROVE  \A d \in Drifts : /\ fate'[d] = "repeated" <=> fate[d] = "repeated"
                           /\ fate'[d] = "untold" <=> fate[d] = "untold"
<1>1. CASE LoseAll
  BY <1>1 DEF LoseAll
<1>2. CASE Destination
  BY <1>2 DEF Destination, Sent, SendFails, Ends
<1> QED BY <1>1, <1>2

(* What the steps of the scheduler do to the versions and their backups.   *)
LEMMA VersionsStep ==
  ASSUME NoFaults, Orderly, SchedulerInv, [Next]_vars,
         ~\E c \in Callers, n \in Nodes : CreateVersion(c, n) \/ AlertDrift(c, n)
  PROVE  \A n \in Nodes : \A v : /\ HasVersion(n, v)' <=> HasVersion(n, v)
                                 /\ AboutToTell(n, v)' <=> AboutToTell(n, v)
<1>0. /\ LifeInv /\ TypeOK
      /\ pc \in [Callers -> [Nodes -> JobPc]]
      /\ last \in [Callers -> [Nodes -> Version]]
  BY DEF SchedulerInv, IInv, TypeOK
<1>1. SUFFICES
        /\ UNCHANGED versions
        /\ \A c \in Callers, n \in Nodes :
             pc[c][n] = "drift" \/ pc'[c][n] = "drift" =>
               pc'[c][n] = pc[c][n] /\ last'[c][n] = last[c][n]
  BY DEF HasVersion, AboutToTell
<1>2. CASE ~\E c \in Callers, n \in Nodes : runBackup(c, n)
  BY <1>0, <1>2, Aside DEF Deciding, Working
<1>3. ASSUME NEW c \in Callers, NEW n \in Nodes, runBackup(c, n)
      PROVE  /\ UNCHANGED versions
             /\ \A d \in Callers, m \in Nodes :
                  pc[d][m] = "drift" \/ pc'[d][m] = "drift" =>
                    pc'[d][m] = pc[d][m] /\ last'[d][m] = last[d][m]
  <2>1. /\ pc[c][n] # "drift" /\ UNCHANGED versions
        /\ \E x : x # "drift" /\ pc' = [pc EXCEPT ![c][n] = x]
        /\ \E y : last' = last \/ last' = [last EXCEPT ![c][n] = y]
    BY <1>3 DEF runBackup, FetchOk, FetchError, LoadLast, AlertRecovery,
       TellRecovery, RecordFailure, AlertFailure, TellFailure, UpdateNode,
       QueryFails, Return, Forget, Goto, dbVars
  <2> QED BY <1>0, <2>1
<1> QED BY <1>2, <1>3

(* A version appears with the backup that is going to tell it.             *)
LEMMA CreateTells ==
  ASSUME SchedulerInv, NEW c \in Callers, NEW n \in Nodes, CreateVersion(c, n),
         NEW m \in Nodes, NEW v \in Nat \ {0, 1}
  PROVE  LET new == m = n /\ v = last[c][n].version + 1 IN
           /\ new => ~HasVersion(m, v) /\ HasVersion(m, v)'
                     /\ AboutToTell(m, v)'
           /\ ~new => /\ HasVersion(m, v)' <=> HasVersion(m, v)
                      /\ AboutToTell(m, v)' <=> AboutToTell(m, v)
<1>0. /\ pc \in [Callers -> [Nodes -> JobPc]]
      /\ last[c][n].version \in Nat
      /\ versions \in [Nodes -> SUBSET Version]
  BY DEF SchedulerInv, IInv, TypeOK, Version
<1>1. /\ pc[c][n] = "create" /\ UNCHANGED last
      /\ versions' = [versions EXCEPT ![n] = @ \cup {NewVersion(c, n)}]
      /\ pc' = [pc EXCEPT ![c][n] = AfterCreate(c, n)]
      /\ \A r \in versions[n] : r.version # NewVersion(c, n).version
      /\ NewVersion(c, n).version = last[c][n].version + 1
  BY DEF CreateVersion, Goto, NewVersion
<1>2. \A d \in Callers, q \in Nodes : d # c \/ q # n => pc'[d][q] = pc[d][q]
  BY <1>0, <1>1
<1>3. pc'[c][n] = AfterCreate(c, n)
  BY <1>0, <1>1
<1>4. ASSUME m = n, v = last[c][n].version + 1
      PROVE  ~HasVersion(m, v) /\ HasVersion(m, v)' /\ AboutToTell(m, v)'
  <2>1. last[c][n] # NoVersion
    BY <1>4 DEF NoVersion
  <2>2. pc'[c][n] = "drift"
    BY <1>3, <2>1 DEF AfterCreate
  <2> QED BY <1>0, <1>1, <1>4, <2>2 DEF HasVersion, AboutToTell
<1>5. ASSUME m # n \/ v # last[c][n].version + 1
      PROVE  /\ HasVersion(m, v)' <=> HasVersion(m, v)
             /\ AboutToTell(m, v)' <=> AboutToTell(m, v)
  <2>1. HasVersion(m, v)' <=> HasVersion(m, v)
    <3> HIDE DEF NewVersion
    <3> QED BY <1>0, <1>1, <1>5 DEF HasVersion
  <2>2. AboutToTell(m, v)' <=> AboutToTell(m, v)
    BY <1>0, <1>1, <1>2, <1>5 DEF AboutToTell
  <2> QED BY <2>1, <2>2
<1> QED BY <1>4, <1>5

(* An alert hands over the version that its backup was about to tell.      *)
LEMMA AlertTells ==
  ASSUME SchedulerInv, NEW c \in Callers, NEW n \in Nodes, AlertDrift(c, n),
         NEW m \in Nodes, NEW v
  PROVE  LET now == m = n /\ v = last[c][n].version + 1 IN
           /\ HasVersion(m, v)' <=> HasVersion(m, v)
           /\ now => AboutToTell(m, v) /\ ~AboutToTell(m, v)'
           /\ ~now => (AboutToTell(m, v)' <=> AboutToTell(m, v))
<1>0. /\ pc \in [Callers -> [Nodes -> JobPc]] /\ BackupExclusive
  BY DEF SchedulerInv, IInv, TypeOK
<1>1. /\ pc[c][n] = "drift" /\ UNCHANGED <<last, versions>>
      /\ pc' = [pc EXCEPT ![c][n] = "recover"]
  BY DEF AlertDrift, Goto, dbVars
<1>2. /\ pc'[c][n] = "recover"
      /\ \A d \in Callers, q \in Nodes : d # c \/ q # n => pc'[d][q] = pc[d][q]
  BY <1>0, <1>1
<1>3. \A d \in Callers : pc[d][n] = "drift" => d = c
  BY <1>0, <1>1 DEF BackupExclusive, Working
<1> QED BY <1>1, <1>2, <1>3 DEF HasVersion, AboutToTell

LEMMA FateStep ==
  /\ NoFaults /\ Watched \subseteq Alerted /\ Orderly
  /\ SchedulerInv /\ Unmuted /\ FateInv /\ [AlertingNext]_alertingVars
  => FateInv'
<1> SUFFICES ASSUME NoFaults, Watched \subseteq Alerted, Orderly,
                    SchedulerInv, Unmuted, FateInv,
                    [AlertingNext]_alertingVars
             PROVE  FateInv'
  OBVIOUS
<1>0. /\ \A w \in Watched : w \in Nodes /\ w \in Alerted
      /\ \A v \in Followed : v \in Nat
      /\ \A n \in Watched, v \in Followed : <<n, "drift", v>> \in Drifts
      /\ pc \in [Callers -> [Nodes -> JobPc]] /\ LifeInv
  BY SchedulerAssumption, AlertDispatchAssumption
     DEF Drifts, SchedulerInv, LifeInv, TypeOK
<1>1. [Next]_vars
  BY StepIsNext
<1>2. ASSUME UNCHANGED fate \/ LoseAll \/ Destination,
             ~\E c \in Callers, n \in Nodes :
                CreateVersion(c, n) \/ AlertDrift(c, n)
      PROVE  FateInv'
  BY <1>0, <1>1, <1>2, NothingNew, OnTheirWay, VersionsStep
<1>3. ASSUME NEW c \in Callers, NEW n \in Nodes, CreateVersion(c, n),
             UNCHANGED fate
      PROVE  FateInv'
  <2> SUFFICES ASSUME NEW m \in Watched, NEW v \in Followed \ {0, 1}
               PROVE  /\ fate'[<<m, "drift", v>>] # "repeated"
                      /\ fate'[<<m, "drift", v>>] = "untold" <=>
                           ~HasVersion(m, v)' \/ AboutToTell(m, v)'
                      /\ AboutToTell(m, v)' => HasVersion(m, v)'
    BY DEF FateInv
  <2>1. m \in Nodes /\ v \in Nat \ {0, 1}
    BY <1>0
  <2>2. CASE m = n /\ v = last[c][n].version + 1
    BY <1>3, <2>1, <2>2, CreateTells DEF FateInv
  <2>3. CASE ~(m = n /\ v = last[c][n].version + 1)
    BY <1>3, <2>1, <2>3, CreateTells DEF FateInv
  <2> QED BY <2>2, <2>3
<1>4. ASSUME NEW c \in Callers, NEW n \in Nodes, NEW muted \in Muted(c, n),
             AlertDrift(c, n),
             Calls(~muted, DriftOf(n, last[c][n].version + 1))
      PROVE  FateInv'
  <2> DEFINE w == last[c][n].version + 1
  <2>1. ASSUME NEW m \in Watched, NEW v \in Followed \ {0, 1}
        PROVE  /\ fate'[<<m, "drift", v>>] # "repeated"
               /\ fate'[<<m, "drift", v>>] = "untold" <=>
                    ~HasVersion(m, v)' \/ AboutToTell(m, v)'
               /\ AboutToTell(m, v)' => HasVersion(m, v)'
    <3>1. m \in Nodes /\ <<m, "drift", v>> \in Drifts
      BY <1>0
    <3>2. CASE m = n /\ v = w
      <4>1. ~muted
        BY <1>0, <1>4, <3>2, AllHeard
      <4>2. DriftOf(n, w) = <<m, "drift", v>>
        BY <3>1, <3>2 DEF DriftOf
      <4>3. Dispatch(<<m, "drift", v>>)
        BY <1>4, <4>1, <4>2 DEF Calls
      <4>4. /\ HasVersion(m, v)' <=> HasVersion(m, v)
            /\ AboutToTell(m, v) /\ ~AboutToTell(m, v)'
        BY <1>4, <3>1, <3>2, AlertTells
      <4>5. fate[<<m, "drift", v>>] = "untold" /\ HasVersion(m, v)
        BY <4>4 DEF FateInv
      <4>6. fate'[<<m, "drift", v>>] \in {"pending", "lost"}
        BY <3>1, <4>3, <4>5 DEF Dispatch, Sends, Skips, Begins
      <4> QED BY <4>4, <4>5, <4>6
    <3>3. CASE ~(m = n /\ v = w)
      <4>1. DriftOf(n, w) # <<m, "drift", v>>
        BY <3>1, <3>3, Kinds DEF DriftOf
      <4>2. fate'[<<m, "drift", v>>] = fate[<<m, "drift", v>>]
        BY <1>4, <3>1, <4>1
           DEF Calls, Dispatch, Sends, Skips, Begins, dispatchVars
      <4>3. /\ HasVersion(m, v)' <=> HasVersion(m, v)
            /\ AboutToTell(m, v)' <=> AboutToTell(m, v)
        BY <1>4, <3>1, <3>3, AlertTells
      <4> QED BY <4>2, <4>3 DEF FateInv
    <3> QED BY <3>2, <3>3
  <2> QED BY <2>1 DEF FateInv
<1>5. ASSUME NEW c \in Callers, NEW n \in Nodes, NEW muted, NEW sent,
             NEW news \in News,
             TellRecovery(c, n, muted) \/ TellFailure(c, n, muted),
             Calls(sent, NewsAbout(n, news))
      PROVE  FateInv'
  <2>1. \A d \in Drifts : d # NewsAbout(n, news)
    BY Kinds, CallsMessages
  <2>2. \A d \in Drifts : fate'[d] = fate[d]
    BY <1>5, <2>1 DEF Calls, Dispatch, Sends, Skips, Begins, dispatchVars
  <2>3. UNCHANGED <<versions, last>> /\ pc[c][n] # "drift"
        /\ \E x : x # "drift" /\ pc' = [pc EXCEPT ![c][n] = x]
    BY <1>5 DEF TellRecovery, TellFailure, Goto, dbVars
  <2>4. \A m \in Nodes : \A v : /\ HasVersion(m, v)' <=> HasVersion(m, v)
                                /\ AboutToTell(m, v)' <=> AboutToTell(m, v)
    BY <1>0, <2>3 DEF HasVersion, AboutToTell
  <2> QED BY <1>0, <2>2, <2>4, NothingNew
<1>6. ASSUME NEW c \in Callers, NEW n \in Nodes, Tell(c, n) PROVE FateInv'
  <2>1. "failed" \in News /\ "recovered" \in News
    BY DEF News
  <2> QED BY <1>4, <1>5, <1>6, <2>1 DEF Tell
<1>7. CASE Elapse
  <2>1. ~\E c \in Callers, n \in Nodes : AlertDrift(c, n)
    <3> SUFFICES ASSUME NEW c \in Callers, NEW n \in Nodes, AlertDrift(c, n)
                 PROVE  FALSE
      OBVIOUS
    <3>1. /\ pc[c][n] = "drift" /\ UNCHANGED server
          /\ pc' = [pc EXCEPT ![c][n] = "recover"]
      BY DEF AlertDrift, Goto, cycleVars
    <3>2. Telling
      BY <1>0, <3>1 DEF Telling
    <3>3. server = "down"
      BY <1>7, <3>1, <3>2 DEF Elapse
    <3> QED BY <1>0, <3>1, <3>3, DownIsQuiet
  <2>2. UNCHANGED fate \/ LoseAll
    BY <1>7 DEF Elapse, dispatchVars
  <2>3. CASE \E c \in Callers, n \in Nodes : CreateVersion(c, n)
    <3>1. PICK c \in Callers, n \in Nodes : CreateVersion(c, n)
      BY <2>3
    <3>2. UNCHANGED server
      BY <3>1 DEF CreateVersion, cycleVars
    <3>3. UNCHANGED fate
      BY <1>7, <3>2 DEF Elapse, dispatchVars
    <3> QED BY <1>3, <3>1, <3>3
  <2> QED BY <1>2, <2>1, <2>2, <2>3
<1>8. CASE Destination \/ UNCHANGED alertingVars
  <2>1. UNCHANGED vars /\ (Destination \/ UNCHANGED fate)
    BY <1>8 DEF Destination, alertingVars, dispatchVars
  <2>2. \A n \in Nodes : \A v : /\ HasVersion(n, v)' <=> HasVersion(n, v)
                                /\ AboutToTell(n, v)' <=> AboutToTell(n, v)
    BY <2>1 DEF vars, HasVersion, AboutToTell
  <2> QED BY <1>0, <2>1, <2>2, NothingNew, OnTheirWay
<1> QED BY <1>6, <1>7, <1>8 DEF AlertingNext

(* Every new version of a node that the rule is about is told once, by the *)
(* backup that recorded it, and lost only on the way, however cycles,      *)
(* requests and an orderly stop overlap - as long as the database answers  *)
(* and the process does not die between the INSERT and the alert.          *)
THEOREM DriftIsTold ==
  NoFaults /\ Watched \subseteq Alerted
    => (AlertingSpec /\ [](server # "hasty") => []DriftAnnounced)
<1> SUFFICES ASSUME NoFaults, Watched \subseteq Alerted
             PROVE  AlertingSpec /\ [](server # "hasty") => []DriftAnnounced
  OBVIOUS
<1>1. AlertingInit => FateInv
  <2> SUFFICES ASSUME AlertingInit,
                      NEW n \in Watched, NEW v \in Followed \ {0, 1}
               PROVE  /\ fate[<<n, "drift", v>>] = "untold"
                      /\ ~HasVersion(n, v)
                      /\ ~AboutToTell(n, v)
    BY DEF FateInv
  <2>1. n \in Nodes
    BY SchedulerAssumption
  <2>2. <<n, "drift", v>> \in Drifts
    BY DEF Drifts
  <2>3. fate[<<n, "drift", v>>] = "untold"
    BY <2>2 DEF AlertingInit, DispatchInit
  <2>4. versions[n] = {}
    BY <2>1 DEF AlertingInit, Init
  <2>5. ASSUME NEW c \in Callers PROVE pc[c][n] = "idle"
    BY <2>1 DEF AlertingInit, Init, IdleJobs
  <2> QED BY <2>3, <2>4, <2>5 DEF HasVersion, AboutToTell
<1>2. Orderly /\ SchedulerInv /\ Unmuted /\ FateInv
      /\ [AlertingNext]_alertingVars => FateInv'
  BY FateStep
<1>3. FateInv => DriftAnnounced
  <2> SUFFICES ASSUME FateInv, NEW n \in Watched, NEW v \in Followed \ {0, 1}
               PROVE  /\ fate[<<n, "drift", v>>] # "repeated"
                      /\ fate[<<n, "drift", v>>] = "untold"
                           => ~HasVersion(n, v) \/ AboutToTell(n, v)
    BY DEF DriftAnnounced, HasVersion, AboutToTell
  <2> QED BY DEF FateInv
<1>4. AlertingSpec /\ [](server # "hasty")
        => [](Orderly /\ SchedulerInv /\ Unmuted)
  BY AlertingIsScheduling, OrderlyInvariant, SchedulerInvariant,
     UnmutedInvariant, PTL
<1> QED BY <1>1, <1>2, <1>3, <1>4, PTL DEF AlertingSpec

-----------------------------------------------------------------------------
(* The verdict of a backup is on the row, or on its way there: the alert   *)
(* is decided before the UPDATE.                                           *)
Saving(n, label) == \E c \in Callers : pc[c][n] = label

Saves == {"saveSuccess", "saveError"}

LEMMA SaveShape ==
  ASSUME NoFaults, NEW c \in Callers, NEW n \in Nodes, runBackup(c, n)
  PROVE  \/ AlertRecovery(c, n) \/ AlertFailure(c, n) \/ UpdateNode(c, n)
         \/ /\ UNCHANGED lastStatus
            /\ pc[c][n] \notin Saves
            /\ \E x : x \notin Saves /\ pc' = [pc EXCEPT ![c][n] = x]
<1> USE DEF Saves, NoFaults, dbVars, jobVars, outsideVars
<1>1. CASE FetchOk(c, n) \/ FetchError(c, n) \/ LoadLast(c, n)
  BY <1>1 DEF FetchOk, FetchError, LoadLast, Goto
<1>2. CASE CreateVersion(c, n) \/ AlertDrift(c, n) \/ RecordFailure(c, n)
  BY <1>2 DEF CreateVersion, AfterCreate, AlertDrift,
              RecordFailure, Goto
<1>3. CASE QueryFails(c, n)
  BY <1>3 DEF QueryFails, Return
<1> QED BY <1>1, <1>2, <1>3 DEF runBackup

(* Only one backup of a node has something to save.                        *)
LEMMA OneSaves ==
  ASSUME TypeOK, BackupExclusive, NEW c \in Callers, NEW n \in Nodes, NEW x,
         pc[c][n] \in Working, pc' = [pc EXCEPT ![c][n] = x]
  PROVE  /\ \A label \in Saves : Saving(n, label) <=> pc[c][n] = label
         /\ \A label \in Saves : Saving(n, label)' <=> x = label
         /\ \A m \in Nodes : m # n =>
              \A label : Saving(m, label)' <=> Saving(m, label)
<1>0. /\ pc \in [Callers -> [Nodes -> JobPc]]
      /\ \A d \in Callers : pc[d][n] \in Working => d = c
      /\ \A label \in Saves : label \in Working
  BY DEF TypeOK, BackupExclusive, Saves, Working
<1>1. /\ pc'[c][n] = x
      /\ \A d \in Callers, m \in Nodes : d # c \/ m # n => pc'[d][m] = pc[d][m]
  BY <1>0
<1> QED BY <1>0, <1>1 DEF Saving

LEMMA AsideSaves ==
  ASSUME NoFaults, Orderly, LifeInv, [Next]_vars,
         ~\E c \in Callers, n \in Nodes : runBackup(c, n)
  PROVE  /\ UNCHANGED lastStatus
         /\ \A n \in Nodes, label \in Saves :
              Saving(n, label)' <=> Saving(n, label)
<1>1. \A label \in Saves : label \in Deciding
  BY DEF Saves, Deciding, Working
<1>2. /\ UNCHANGED lastStatus
      /\ \A c \in Callers, n \in Nodes :
           pc[c][n] \in Deciding \/ pc'[c][n] \in Deciding =>
             pc'[c][n] = pc[c][n]
  BY Aside
<1> QED BY <1>1, <1>2 DEF Saving

-----------------------------------------------------------------------------
(* What the destination should have heard of a node once the backup in     *)
(* hand has saved its outcome.                                             *)
Verdict(n) == IF \/ Saving(n, "saveError")
                 \/ lastStatus[n] = "error" /\ ~Saving(n, "saveSuccess")
              THEN "failed" ELSE "recovered"

(* ... and that is what it heard last or, if the newest message is on its  *)
(* way and can arrive, what every message about the node says.             *)
ToldInv ==
  \A n \in Watched :
    /\ told[n] \in {"pending", "unsure", Verdict(n)}
    /\ told[n] = "pending" =>
         \A m \in Messages : n \in About(m) /\ sending[m] > 0
                              => m[2] = Verdict(n)

(* Only the alerts change what there is to tell.                           *)
LEMMA VerdictStays ==
  ASSUME NoFaults, Orderly, SchedulerInv, [Next]_vars,
         ~\E c \in Callers, n \in Nodes :
            AlertRecovery(c, n) \/ AlertFailure(c, n)
  PROVE  \A n \in Nodes : Verdict(n)' = Verdict(n)
<1>0. /\ TypeOK /\ LifeInv /\ BackupExclusive
      /\ lastStatus \in [Nodes -> Status]
  BY DEF SchedulerInv, IInv, TypeOK
<1>1. CASE ~\E c \in Callers, n \in Nodes : runBackup(c, n)
  BY <1>0, <1>1, AsideSaves DEF Verdict, Saves
<1>2. ASSUME NEW c \in Callers, NEW n \in Nodes, runBackup(c, n),
             NEW m \in Nodes
      PROVE  Verdict(m)' = Verdict(m)
  <2>0. pc[c][n] \in Working
    BY <1>2, BackupShape
  <2>1. CASE UpdateNode(c, n)
    <3>1. /\ pc' = [pc EXCEPT ![c][n] = "idle"] /\ pc[c][n] \in Saves
          /\ lastStatus' = [lastStatus EXCEPT ![n] = Outcome(c, n)]
      BY <2>1 DEF UpdateNode, Return, Saves
    <3>2. CASE m # n
      BY <1>0, <2>0, <3>1, <3>2, OneSaves DEF Verdict
    <3>3. CASE m = n
      <4>1. /\ \A label \in Saves : Saving(n, label) <=> pc[c][n] = label
            /\ \A label \in Saves : Saving(n, label)' <=> "idle" = label
        BY <1>0, <2>0, <3>1, OneSaves
      <4>2. lastStatus'[n] = IF pc[c][n] = "saveSuccess" THEN "success"
                             ELSE "error"
        BY <1>0, <3>1 DEF Outcome
      <4> QED BY <3>1, <3>3, <4>1, <4>2 DEF Verdict, Saves
    <3> QED BY <3>2, <3>3
  <2>2. CASE /\ UNCHANGED lastStatus
             /\ pc[c][n] \notin Saves
             /\ \E x : x \notin Saves /\ pc' = [pc EXCEPT ![c][n] = x]
    <3> PICK x : x \notin Saves /\ pc' = [pc EXCEPT ![c][n] = x]
      BY <2>2
    <3>1. \A label \in Saves : Saving(m, label)' <=> Saving(m, label)
      <4>1. CASE m # n
        BY <1>0, <2>0, <4>1, OneSaves
      <4>2. CASE m = n
        <5>1. /\ \A label \in Saves : Saving(n, label) <=> pc[c][n] = label
              /\ \A label \in Saves : Saving(n, label)' <=> x = label
          BY <1>0, <2>0, OneSaves
        <5> QED BY <2>2, <4>2, <5>1
      <4> QED BY <4>1, <4>2
    <3> QED BY <2>2, <3>1 DEF Verdict, Saves
  <2> QED BY <1>2, <2>1, <2>2, SaveShape
<1> QED BY <1>1, <1>2

(* An alert that goes out says the verdict of its backup, and one that is  *)
(* left out would have repeated what the row says already.                 *)
LEMMA VerdictTold ==
  ASSUME NoFaults, CyclesOnly, SchedulerInv, Unmuted, SeenIsRow,
         NEW c \in Callers, NEW n \in Nodes, NEW muted \in Muted(c, n)
  PROVE  /\ TellRecovery(c, n, muted) =>
              /\ Verdict(n)' = "recovered"
              /\ ~RecoveryIsNews(c, n) => Verdict(n) = "recovered"
         /\ TellFailure(c, n, muted) =>
              /\ Verdict(n)' = "failed"
              /\ ~FailureIsNews(c, n) => Verdict(n) = "failed"
         /\ TellRecovery(c, n, muted) \/ TellFailure(c, n, muted) =>
              \A m \in Nodes : m # n => Verdict(m)' = Verdict(m)
<1>0. /\ TypeOK /\ BackupExclusive /\ Callers = Leaders
  BY DEF SchedulerInv, IInv, CyclesOnly, Callers, Leaders
<1>1. ASSUME TellRecovery(c, n, muted) \/ TellFailure(c, n, muted)
      PROVE  /\ pc[c][n] \in Working /\ UNCHANGED lastStatus
             /\ \A label \in Saves : ~Saving(n, label)
             /\ seen[c][n].lastStatus = lastStatus[n]
             /\ \A m \in Nodes : m # n => Verdict(m)' = Verdict(m)
  <2>1. PICK x : /\ pc[c][n] \in {"recover", "alert"}
                 /\ pc' = [pc EXCEPT ![c][n] = x] /\ UNCHANGED lastStatus
    BY <1>1 DEF TellRecovery, TellFailure, Goto, dbVars
  <2>2. pc[c][n] \in Working /\ pc[c][n] \notin Saves
    BY <2>1 DEF Working, Saves
  <2>3. /\ \A label \in Saves : ~Saving(n, label)
        /\ \A m \in Nodes : m # n => Verdict(m)' = Verdict(m)
    BY <1>0, <2>1, <2>2, OneSaves DEF Verdict
  <2> QED BY <1>0, <2>1, <2>2, <2>3 DEF SeenIsRow
<1>2. ASSUME TellRecovery(c, n, muted)
      PROVE  /\ Verdict(n)' = "recovered"
             /\ ~RecoveryIsNews(c, n) => Verdict(n) = "recovered"
  <2>1. pc' = [pc EXCEPT ![c][n] = "saveSuccess"]
    BY <1>2 DEF TellRecovery, Goto
  <2>2. Saving(n, "saveSuccess")' /\ ~Saving(n, "saveError")'
    BY <1>0, <1>1, <1>2, <2>1, OneSaves DEF Saves
  <2> QED BY <1>1, <1>2, <2>2 DEF Verdict, RecoveryIsNews, Saves
<1>3. ASSUME TellFailure(c, n, muted)
      PROVE  /\ Verdict(n)' = "failed"
             /\ ~FailureIsNews(c, n) => Verdict(n) = "failed"
  <2>1. pc' = [pc EXCEPT ![c][n] = "saveError"]
    BY <1>3 DEF TellFailure, Goto
  <2>2. Saving(n, "saveError")'
    BY <1>0, <1>1, <1>3, <2>1, OneSaves DEF Saves
  <2> QED BY <1>1, <1>3, <2>2 DEF Verdict, FailureIsNews, Saves
<1> QED BY <1>1, <1>2, <1>3

(* The dispatch of a message, sent or not.                                 *)
LEMMA CallsTold ==
  ASSUME SendingType, ToldInv, NEW k \in Messages, NEW sent \in BOOLEAN,
         Calls(sent, k),
         \A w \in Watched : Verdict(w)' = IF sent /\ w \in About(k) THEN k[2]
                                          ELSE Verdict(w)
  PROVE  ToldInv'
<1>0. /\ \A m \in Messages : sending[m] \in Nat
      /\ \A m \in Messages, w \in Watched : w \in About(m) =>
            m[1] = w /\ m = <<w, m[2], 0>>
  BY Kinds DEF SendingType
<1>1. ASSUME NEW w \in Watched, told'[w] = told[w], Verdict(w)' = Verdict(w),
             \A m \in Messages : w \in About(m) => sending'[m] = sending[m]
      PROVE  /\ told'[w] \in {"pending", "unsure", Verdict(w)'}
             /\ told'[w] = "pending" =>
                  \A m \in Messages :
                    w \in About(m) /\ sending'[m] > 0 => m[2] = Verdict(w)'
  BY <1>1 DEF ToldInv
<1>2. ASSUME NEW w \in Watched
      PROVE  /\ told'[w] \in {"pending", "unsure", Verdict(w)'}
             /\ told'[w] = "pending" =>
                  \A m \in Messages :
                    w \in About(m) /\ sending'[m] > 0 => m[2] = Verdict(w)'
  <2>1. CASE ~sent
    BY <1>1, <2>1 DEF Calls, dispatchVars
  <2>2. CASE sent /\ w \notin About(k)
    <3>1. told'[w] = told[w] /\ Verdict(w)' = Verdict(w)
      BY <2>2 DEF Calls, Dispatch, Sends, Skips, Tells
    <3>2. \A m \in Messages : w \in About(m) => sending'[m] = sending[m]
      BY <2>2 DEF Calls, Dispatch, Sends, Skips, SendingType
    <3> QED BY <1>1, <3>1, <3>2
  <2>3. CASE sent /\ w \in About(k) /\ Skips(k)
    BY <2>3 DEF Skips, Tells
  <2>4. CASE sent /\ w \in About(k) /\ Sends(k)
    <3>1. /\ k[1] = w /\ k[2] = Verdict(w)'
          /\ told'[w] = IF InFlight(w) THEN "unsure" ELSE "pending"
      BY <1>0, <2>4 DEF Sends, Tells
    <3>2. told'[w] = "pending" =>
            \A m \in Messages : w \in About(m) /\ m # k => sending'[m] = 0
      BY <1>0, <2>4, <3>1 DEF Sends, InFlight, SendingType
    <3> QED BY <3>1, <3>2
  <2> QED BY <2>1, <2>2, <2>3, <2>4 DEF Calls, Dispatch
<1> QED BY <1>2 DEF ToldInv

(* A step that is not an alert, whatever it does to the messages.          *)
LEMMA ElapseIsQuiet ==
  ASSUME SchedulerInv, Elapse
  PROVE  ~\E c \in Callers, n \in Nodes :
            AlertRecovery(c, n) \/ AlertFailure(c, n)
<1> SUFFICES ASSUME NEW c \in Callers, NEW n \in Nodes,
                    AlertRecovery(c, n) \/ AlertFailure(c, n)
             PROVE  FALSE
  OBVIOUS
<1>0. LifeInv /\ pc \in [Callers -> [Nodes -> JobPc]]
  BY DEF SchedulerInv, LifeInv, TypeOK
<1>1. /\ pc[c][n] \in {"recover", "alert"} /\ UNCHANGED server
      /\ \E x \in Saves : pc' = [pc EXCEPT ![c][n] = x]
  BY DEF AlertRecovery, TellRecovery, AlertFailure, TellFailure, Goto,
         cycleVars, Saves
<1>2. Telling
  BY <1>0, <1>1 DEF Telling, Saves
<1>3. server = "down"
  BY <1>1, <1>2 DEF Elapse
<1> QED BY <1>0, <1>1, <1>3, DownIsQuiet

LEMMA ToldStep ==
  /\ NoFaults /\ CyclesOnly /\ Watched \subseteq Alerted /\ Orderly
  /\ SchedulerInv /\ Unmuted /\ SeenIsRow /\ SendingType /\ ToldInv
  /\ [AlertingNext]_alertingVars
  => ToldInv'
<1> SUFFICES ASSUME NoFaults, CyclesOnly, Watched \subseteq Alerted, Orderly,
                    SchedulerInv, Unmuted, SeenIsRow, SendingType, ToldInv,
                    [AlertingNext]_alertingVars
             PROVE  ToldInv'
  OBVIOUS
<1>0. \A w \in Watched : w \in Nodes /\ w \in Alerted
  BY SchedulerAssumption
<1>1. ASSUME UNCHANGED dispatchVars, \A w \in Watched : Verdict(w)' = Verdict(w)
      PROVE  ToldInv'
  BY <1>1 DEF ToldInv, dispatchVars
<1>2. ASSUME NEW c \in Callers, NEW n \in Nodes, Tell(c, n) PROVE ToldInv'
  <2>1. PICK muted \in Muted(c, n) :
          \/ /\ AlertDrift(c, n)
             /\ Calls(~muted, DriftOf(n, last[c][n].version + 1))
          \/ /\ TellRecovery(c, n, muted)
             /\ Calls(~muted /\ RecoveryIsNews(c, n),
                      NewsAbout(n, "recovered"))
          \/ /\ TellFailure(c, n, muted)
             /\ Calls(~muted /\ FailureIsNews(c, n), NewsAbout(n, "failed"))
    BY <1>2 DEF Tell
  <2>2. muted \in BOOLEAN /\ (n \in Watched => ~muted)
    BY <1>0, AllHeard DEF Muted
  <2>3. "failed" \in News /\ "recovered" \in News
    BY DEF News
  <2>4. CASE /\ AlertDrift(c, n)
             /\ Calls(~muted, DriftOf(n, last[c][n].version + 1))
    <3>1. pc[c][n] = "drift" /\ pc' = [pc EXCEPT ![c][n] = "recover"]
      BY <2>4 DEF AlertDrift, Goto
    <3>2. /\ TypeOK /\ BackupExclusive /\ UNCHANGED lastStatus
          /\ pc[c][n] \in Working
      BY <2>4, <3>1 DEF SchedulerInv, IInv, AlertDrift, dbVars, Working
    <3>3. \A label \in Saves :
            Saving(n, label)' <=> Saving(n, label)
      <4>1. \A label \in Saves : Saving(n, label) <=> "drift" = label
        BY <3>1, <3>2, OneSaves
      <4>2. \A label \in Saves : Saving(n, label)' <=> "recover" = label
        BY <3>1, <3>2, OneSaves
      <4> QED BY <4>1, <4>2 DEF Saves
    <3>4. \A m \in Nodes : m # n =>
            \A label \in Saves : Saving(m, label)' <=> Saving(m, label)
      BY <3>1, <3>2, OneSaves
    <3>5. \A m \in Nodes : Verdict(m)' = Verdict(m)
      BY <3>2, <3>3, <3>4 DEF Verdict, Saves
    <3> DEFINE k == DriftOf(n, last[c][n].version + 1)
    <3>6. k \in Messages /\ About(k) = {}
      BY Kinds, CallsMessages
    <3> HIDE DEF k
    <3>7. Calls(~muted, k)
      BY <2>4 DEF k
    <3> QED BY <1>0, <2>2, <3>5, <3>6, <3>7, CallsTold
  <2>5. ASSUME NEW news \in News, NEW sent \in BOOLEAN,
               Calls(sent, NewsAbout(n, news)), Verdict(n)' = news,
               n \in Watched /\ ~sent => Verdict(n) = news,
               \A m \in Nodes : m # n => Verdict(m)' = Verdict(m)
        PROVE  ToldInv'
    <3> DEFINE k == NewsAbout(n, news)
    <3>1. /\ k \in Messages
          /\ n \in Watched => About(k) = {n} /\ k[2] = news
          /\ n \notin Watched => About(k) = {}
      BY Kinds, CallsMessages
    <3> HIDE DEF k
    <3>2. Calls(sent, k)
      BY <2>5 DEF k
    <3>3. \A w \in Watched : Verdict(w)' = IF sent /\ w \in About(k) THEN k[2]
                                            ELSE Verdict(w)
      BY <1>0, <2>5, <3>1
    <3> QED BY <2>5, <3>1, <3>2, <3>3, CallsTold
  <2>6. CASE /\ TellRecovery(c, n, muted)
             /\ Calls(~muted /\ RecoveryIsNews(c, n),
                      NewsAbout(n, "recovered"))
    <3>1. /\ Verdict(n)' = "recovered"
          /\ ~RecoveryIsNews(c, n) => Verdict(n) = "recovered"
          /\ \A m \in Nodes : m # n => Verdict(m)' = Verdict(m)
      BY <2>6, VerdictTold
    <3> DEFINE sent == ~muted /\ RecoveryIsNews(c, n)
    <3>2. /\ sent \in BOOLEAN /\ Calls(sent, NewsAbout(n, "recovered"))
          /\ n \in Watched /\ ~sent => Verdict(n) = "recovered"
      BY <2>2, <2>6, <3>1
    <3> HIDE DEF sent
    <3> QED BY <2>3, <2>5, <3>1, <3>2
  <2>7. CASE /\ TellFailure(c, n, muted)
             /\ Calls(~muted /\ FailureIsNews(c, n), NewsAbout(n, "failed"))
    <3>1. /\ Verdict(n)' = "failed"
          /\ ~FailureIsNews(c, n) => Verdict(n) = "failed"
          /\ \A m \in Nodes : m # n => Verdict(m)' = Verdict(m)
      BY <2>7, VerdictTold
    <3> DEFINE sent == ~muted /\ FailureIsNews(c, n)
    <3>2. /\ sent \in BOOLEAN /\ Calls(sent, NewsAbout(n, "failed"))
          /\ n \in Watched /\ ~sent => Verdict(n) = "failed"
      BY <2>2, <2>7, <3>1
    <3> HIDE DEF sent
    <3> QED BY <2>3, <2>5, <3>1, <3>2
  <2> QED BY <2>1, <2>4, <2>6, <2>7
<1>3. CASE Elapse
  <2>1. \A w \in Watched : Verdict(w)' = Verdict(w)
    BY <1>0, <1>3, ElapseIsQuiet, VerdictStays DEF Elapse
  <2>2. CASE LoseAll
    BY <2>1, <2>2 DEF LoseAll, ToldInv
  <2> QED BY <1>1, <1>3, <2>1, <2>2 DEF Elapse
<1>4. CASE Destination
  <2>1. PICK k \in Messages : Sent(k) \/ SendFails(k)
    BY <1>4 DEF Destination
  <2>2. /\ sending[k] > 0
        /\ \A m \in Messages : sending'[m] > 0 => sending[m] > 0
    BY <2>1 DEF Sent, SendFails, Gone, SendingType
  <2>3. ASSUME NEW w \in Watched PROVE Verdict(w)' = Verdict(w)
    BY <1>4 DEF Destination, Verdict, Saving, vars
  <2>4. ASSUME NEW w \in Watched
        PROVE  /\ told'[w] \in {"pending", "unsure", Verdict(w)}
               /\ told'[w] = "pending" => told[w] = "pending"
    <3>1. CASE Sent(k)
      BY <2>2, <3>1 DEF Sent, ToldInv
    <3>2. CASE SendFails(k)
      BY <3>2 DEF SendFails, Tells, ToldInv
    <3> QED BY <2>1, <3>1, <3>2
  <2> QED BY <2>2, <2>3, <2>4 DEF ToldInv
<1>5. CASE UNCHANGED alertingVars
  <2>1. \A w \in Watched : Verdict(w)' = Verdict(w)
    BY <1>5 DEF alertingVars, vars, Verdict, Saving
  <2> QED BY <1>1, <1>5, <2>1 DEF alertingVars
<1> QED BY <1>2, <1>3, <1>4, <1>5 DEF AlertingNext

(* What the destination heard last of a node agrees with the node's row,   *)
(* though the alert leaves before the UPDATE, in a goroutine of its own    *)
(* that nobody waits for: for any number of nodes, messages under way and  *)
(* cycles, under the conditions under which the scheduler decides on the   *)
(* right alerts at all, for a rule that is on and a process that is not    *)
(* stopped with handlers under way.                                        *)
THEOREM DestinationHears ==
  NoFaults /\ CyclesOnly /\ Watched \subseteq Alerted
    => (AlertingSpec /\ [](server # "hasty") => []DestinationInformed)
<1> SUFFICES ASSUME NoFaults, CyclesOnly, Watched \subseteq Alerted
             PROVE  AlertingSpec /\ [](server # "hasty")
                      => []DestinationInformed
  OBVIOUS
<1>1. AlertingInit => ToldInv
  <2>1. AlertingInit => \A n \in Watched : Verdict(n) = "recovered"
    BY SchedulerAssumption
       DEF AlertingInit, Init, IdleJobs, Verdict, Saving
  <2> QED BY <2>1 DEF AlertingInit, DispatchInit, ToldInv
<1>2. /\ Orderly /\ SchedulerInv /\ Unmuted /\ SeenIsRow /\ SendingType
      /\ ToldInv /\ [AlertingNext]_alertingVars
      => ToldInv'
  BY ToldStep
<1>3. ToldInv => DestinationInformed
  BY DEF ToldInv, DestinationInformed, Verdict, Saving
<1>4. AlertingSpec /\ [](server # "hasty")
        => [](Orderly /\ SchedulerInv /\ Unmuted /\ SeenIsRow)
  BY AlertingIsScheduling, OrderlyInvariant, SchedulerInvariant,
     UnmutedInvariant, SeenInvariant, PTL
<1> QED BY <1>1, <1>2, <1>3, <1>4, SendingInvariant, PTL DEF AlertingSpec
=============================================================================
