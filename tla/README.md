# Verification of Mimic

Mimic backs up the configurations of network devices: a Go process with a
PostgreSQL database logs in to every device on a schedule, stores a new version
when the text has changed, shows the differences, alerts on drift and failure,
and copies versions to an SFTP server. This directory holds TLA+ models of its
core logic, TLC configurations that check them on small instances, and TLAPS
proofs for all values of their constants.

To check: `tlc -config SchedulerSafety.cfg MCScheduler` and so on for each run
listed below; to prove: `tlapm SchedulerProofs.tla`, likewise
`AlertingProofs`, `UserAdminProofs`, `NextRunProofs`, `LineDiffProofs`,
`SftpExportProofs`, `DeviceSessionProofs`, `NodeInventoryProofs`.

## 1. The system

All paths are below `src/`.

| component | source | state | operations |
|---|---|---|---|
| backup scheduler | `internal/services/scheduler/scheduler.go`, `cmd/mimic/main.go` | `isRunning`, `nodeLocks`, `jobs`, `stop`/`stopped`; in the database `nodes.last_status`, `next_backup_at`, `node_backups` | ticker, `CheckBackups`, `StartBackupCycle`, `StartBackup`, `RunBackup`, `runBackup`, `Stop` |
| next run | `scheduler.go` `nextRunAfter` | `next_backup_at` | computed at the end of every backup |
| user administration | `internal/handlers/forms.go`, `setup.go`, `internal/middleware/auth.go` | table `users`, `userMutationMu` | `SaveUser`, `DeleteUser`, `SaveProfile`, `PostCreateSuperuser` |
| configuration diff | `pkg/diff/diff.go` | none | `GenerateDiff` |
| SFTP export | `scheduler.go` `CheckExports`, `internal/services/sftp/service.go`, `forms.go` | the one row of `sftp_settings`, `node_backups.exported`, the remote files | `CheckExports`, `ExportBackup`, `PostSync`, `SaveSettings`, `TestSFTPConnection` |
| node inventory | `forms.go`, `internal/services/ssh/service.go` | `nodes`, `credentials`, `backup_routines`, host keys | save, delete, mute and import nodes; save and delete credentials and routines; `Connect` |
| alert dispatch | `internal/services/alert/alert.go` | 20 slots | `Dispatch` |
| device session | `internal/services/ssh/service.go` | output buffer, `done` channel, `lastLen`, timer | `PerformBackup`, `RunInteractiveCommand`, `RunExecCommand` |
| access control | `internal/access/access.go`, `internal/middleware` | the session's user | `RequireAuth`, `RequirePermission` |
| reads | `dashboard.go`, `handlers.go`, `api.go` | none | pages, JSON |
| rest | `pkg/crypto`, `vendors/`, templates, React pages | none | encryption, command lists, presentation |

How they meet: HTTP handlers and the ticker goroutine call the scheduler, which
calls the device session, the diff and the alert dispatch; everything meets in
the database, where no two statements of this program share a transaction
except in `DeleteNode`. Two things order what runs in parallel: the scheduler's
flag and node locks, and the mutex of the user handlers. Both live in the
process and vanish with it; docker-compose starts it again
(`restart: unless-stopped`).

What is hard about it, component by component, and what makes it correct:

* **Scheduler.** Three sources of backups (ticker, manual cycle, manual
  request) race for a node. `runBackup` fetches, compares, inserts, alerts and
  updates in separate steps; each query may fail with an early return, and the
  process may die between any two. Correct: one backup of a node at a time; a
  history without gaps, repeats or swaps; cycles that end and together do not
  exceed the limit of 20; nobody starves; alerts exactly on transitions; a stop
  that leaves no backup behind. All of it depends on devices that answer: the
  timeout of 30 s covers the TCP connection, and neither the SSH handshake nor
  the session after it has a deadline.
* **Next run.** Parsing, weekdays counted from two different days, ties with
  the clock, a query whose error is ignored. Correct: later than now, on a slot,
  no slot skipped.
* **User administration.** Check-then-write over several queries, one handler
  outside the mutex, queries whose errors are ignored, a library `Save` that
  inserts again what was deleted. Correct: an administrator remains, the setup
  happens once, deletion is final.
* **Diff.** Ties, empty sides, one-row lookahead. Correct: nothing lost,
  doubled or moved, as few changes as possible.
* **SFTP export.** Read-modify-write of a settings row across long transfers;
  trust on first use by two connections; a status that both the manual and the
  scheduled export write. Correct: every version reaches the server; settings
  an administrator saved stay; one key is trusted.
* **Inventory.** Whole-row saves against the scheduler's updates,
  check-then-delete of routines and credentials, deletion during a backup.
  Correct: no reference to a deleted row, no update undone, no orphan.
* **Alert dispatch.** A queue of 20 that drops what does not fit, messages sent
  by goroutines that nobody waits for and that may overtake each other, before
  the UPDATE they are about. Correct: what the destination heard last agrees
  with the database, and it hears of a new version once, unless something is
  known to have gone wrong with that message.
* **Device session.** A reader goroutine, a channel and a timer decide together
  that the output is complete. Correct: a text is all there was until a moment
  that the code chooses, and a session ends where the device lets it.

`PROJECT.json` lists every hazard at its line with the properties that cover it.

## 2. Modules

| module | what it is |
|---|---|
| `Scheduler` | ticker, cycles, worker pool, requests, locks, `runBackup`, stop, crash, restart |
| `BackupHistory` | the abstract promise: versions are an in-order selection of what the device had |
| `SchedulerProofs` | theorems about what `Scheduler` records, and about its process: what a stop leaves of backups, what a pool holds, that no lock leaks |
| `AlertDispatch` | `Dispatch`, its slots, and the goroutines that send |
| `Alerting` | `Scheduler` and `AlertDispatch` composed: a backup that tells something dispatches it |
| `AlertingProofs` | theorems about alerts, what they say and what becomes of them |
| `NextRun`, `NextRunProofs` | `nextRunAfter` over a clock, its theorems |
| `UserAdmin`, `UserAdminProofs` | the user handlers, their theorems |
| `LineDiff`, `LineDiffProofs` | `GenerateDiff` step by step, its theorems |
| `SftpExport`, `SftpExportProofs` | the export to the SFTP server and everything that saves its settings, its theorems |
| `Transcript` | the abstract promise of a device session: what a text that comes back is worth |
| `DeviceSession`, `DeviceSessionProofs` | buffer, reader, channel and timer; that they implement `Transcript` |
| `NodeInventory`, `NodeInventoryProofs` | the forms around nodes, routines and credentials beside the backups and their device sessions, its theorems |
| `MC*` | instances for TLC: symmetry sets and constant values |

An operator called `...Mutant` is a plausible bug next to the operator it would
replace. The models do not use them; putting one in place must make TLC report
the property it is listed with in `PROJECT.json`, which shows that the property
sees the code it is about.

### Scheduler

A goroutine that backs up node `n` on behalf of caller `c` is `pc[c][n]`;
callers are the leaders (ticker, manual cycles) and clients (sources of
`POST /nodes/:id/trigger`). `leader[l]` says where a cycle is. One action is one
atomic effect: a compare-and-swap, a channel operation, one query, one alert.

| variable | in the code |
|---|---|
| `isRunning`, `locked`, `jobs` | `isRunning`, the full channels of `nodeLocks`, what the WaitGroup counts |
| `server`, `leader[Ticker]` | where `main` and `Start`'s goroutine are, see below |
| `seen[c][n]` | `LastStatus` and `AlertSnoozeUntil` of the `*models.Node` passed in: values of the moment of the query |
| `config`, `last` | the text fetched, the `lastBackup` row loaded |
| `lastStatus`, `pending`, `snoozed`, `versions`, `failures` | columns and rows of the database; `pending` is the WHERE clause of `checkBackupsLocked` |
| `device` | every configuration the device has had, which the history is compared with |
| `failureAlerts` | failure alerts handed to `Dispatch` since the last recovery; what becomes of them is in `Alerting` |

Configurations are told apart by their SHA-256 only; equal hashes are equal
configurations. Time is abstract: a node becomes pending at any moment after
its update (`NextRun` models when), a snooze read earlier may have run out by
the time it is looked at. The rules query may find none or fail unnoticed, so
an alert may stay away then. Crash loses the process variables and keeps the
database. The unique index on successful versions is a guard of
`CreateVersion`. `CheckExports` is a step of the ticker without effect here.

`server` follows the end of `main`: `"draining"` in `app.Shutdown`, then in
`Stop` either `"stopping"`, with no handler left, or `"hasty"`, when
`app.Shutdown` failed, which is only logged; `"closing"` or `"exiting"` once
that `Stop` has returned and the pool is closed, and `"down"`. Handlers under
way in a hasty stop go on and may start backups behind `Stop`'s back. `Stop`
waits for the ticker goroutine and for `jobs`, and for nothing else: the
goroutines of `alert.Dispatch`, which write to the table of log entries, may
still be sending when the pool is closed. They are not part of this module, and
`QuiescentAtClose` is a statement about cycles, backups and requests only.

### AlertDispatch and Alerting

`taken` is the length of the channel `dispatchSlots`, `sending[m]` counts the
goroutines that are sending message `m`. One rule, enabled throughout, and its
destination are followed, and of the messages those about the nodes in its
group (`Watched`): that backups fail, that they succeed again, and that there
is a new version; `Followed` bounds the version numbers that are told apart.
Every other message only takes a slot. `Dispatch` has no query: it looks at the
copy of the rule it is given and then tries the channel; `Sends` and `Skips`
are the two outcomes, and the row that a dropped message leaves in the log
table is left out.

Two variables are history, seen from the destination. `told[n]` is the news
about the backups of `n` that reached it last, `"pending"` while one is on its
way, `"unsure"` after one was dropped, failed (it may have arrived all the same
when only the answer is missing), was lost with the process, or was sent while
another was still on its way. `fate[m]` says of the alert about a version
whether it was handed over, is on its way, was heard or was lost, and
`"repeated"` if it was handed over twice.

`Alerting` replaces the three alert steps of `Scheduler` by `Tell`, which calls
`Dispatch` in the same step, and conjoins every other step with unchanged
slots; a process that goes down takes its senders along. The slots and senders
add nothing to the scheduler's state, so the properties of `Scheduler` in that
run hold of the composition.

### BackupHistory

`Scheduler` implements it under the identity mapping of `device` and `versions`:
`CreateVersion` is a `Record`, the device's change a `Reconfigure`, and every
other step changes neither. `Record` states what is not obvious from the code:
the revision recorded is later than every recorded one, although it was fetched
two queries earlier.

### DeviceSession and Transcript

`RunInteractiveCommand` starts a goroutine that copies what the device sends to
a buffer and closes `done` at the end; the worker selects between `done` and a
timer of two seconds, and at each tick compares the length of the buffer with
the one before. The device sends its output in pieces, of which `Whole` are
told apart and further ones only counted as growth, so that it may go on for
ever; it says nothing for as long as it likes and hangs up when it likes. `got`
is the length of the buffer and `grown` whether it differs from `lastLen`. At a
tick the code looks at the buffer and at nothing else: what has arrived and is
not read yet is lost, and a text may be cut while output still comes. `prompt`
marks the sessions whose reader goroutine reads within a period what came
before it, as it does unless the machine is starved; `before`, a history
variable, is what had been sent when the period began. `RunExecCommand` waits
for the end of the command and returns its output or, by exit status alone and
however much of the output arrived, an error.

`Transcript` knows nothing of buffer, channel and timer. A text that comes back
after the device hung up is everything it sent. A text that comes back before is
a beginning of what was sent before the last period, not empty, and all of that
if the reader keeps up. Nothing of that period is in it. `DeviceSession`
implements it under the mapping that keeps the device's end of the session. That
a pause of two seconds in the middle of a configuration cuts the text there, and
the backup is a success, is part of this promise, not a breach of it.

### NodeInventory

A process is a request that edits nodes (`editor[e]`), one that edits routines
or credentials (`manager[q]`) or a goroutine that backs a node up (`worker[w]`),
which opens a `DeviceSession`.

| variable | in the code |
|---|---|
| `rows[n]` | a row of `nodes`: soft-deleted or not, `routine_id`, `credential_id`, `alert_snooze_until`, `last_status` (for what a backup writes), `host_key_fingerprint` |
| `parents[p]` | a row of `backup_routines` or `credentials` |
| `records[n]` | how many rows of `node_backups` the node has |
| `editor[e].row`, `worker[w].key` | the row as the handler loaded it, the key in the `*models.Node` of the backup |
| `stale`, `unseen` | history: columns others have written since the row was loaded, rows others have written since a count |
| `trusted`, `forgotten` | history: keys with which a session began; nodes whose key a save took away |

`DELETE` is a soft delete, so a foreign key is content with a deleted row while
queries do not find it. gorm's `Save` updates every column, and for a row that a
soft delete hides from its UPDATE it falls back to an INSERT that takes the
row's place: `SaveNode` brings a deleted node back, without its versions.
`LoadForSave` takes the links from the form, which may be as old as the page.
The routines of the model bear one name and so do its credentials; the checks
for doubles then concern all of them. The backup's fetching and recording are
those of `Scheduler`, reduced to whether a row of `node_backups` was inserted.
`cast` picks the processes that act in a behaviour, see the bounds.

### NextRun

Time is a number of units since a Monday, `Unit` of them in an hour; a day has
24 hours (a zone without summer time, as in a container on UTC). A loop that
adds a step until the candidate lies after `t` is the closed form `Advance`. The
weekly loop of single days is the first candidate on the weekday and then
`Advance` by a week. `Run` is a scheduled backup that ends `Delays` late,
`RunByHand` one that a user starts before its time. Either may find, with
`QueryFails`, that the query for its routine failed; `runBackup` ignores that
error (`scheduler.go:375`) and goes on with no frequency, which counts as 24
hours, no hour and no day (`Fallback`). `lost` remembers it until the next run.
Frequencies are the five that the forms accept; unparsable stored values fall
back in the code to the same cases and are left out.

### UserAdmin

A request is admitted on the role it has at that moment and then proceeds in
steps: mutex, load, check, write. `row[r]` is the row it loaded. `SaveProfile`
goes without mutex and check. `Save` of the library updates, and for a row that
is gone inserts with ON CONFLICT DO UPDATE, so a deleted row comes back.
`Refuse` is any error return. `unchecked` is a history variable: a profile save
wrote a row that had changed since it was loaded, or `SaveUser` passed its check
because the query for the role failed. `TypeOK` says also that the accounts the
setup created keep their rows: a deletion is soft.

### LineDiff

The walk back and the pairing loop are the steps; the table is a recursive
function of the two texts. A row is a pair of line numbers, 0 for none; texts,
signs and classes of the output are functions of these.

### SftpExport

A process is the ticker or a request; `op[p]` is its handler, `pc[p]` where it
is. Each handler loads the settings row into `mine[p]` and works with that copy.
`Dial`, `DialFirst`, `Pin`, `AlreadyPinned` and `Reload` are `verifyHostKey`:
`Pin` is the UPDATE whose WHERE clause finds the fingerprint still empty. `Send`
is the write of the file, `Mark` the `Save` of the version with `exported` set,
which brings a version back that `DeleteNode` deleted meanwhile. `Finish` and
`Save` write the whole copy back. An action that never fails in the model beside
one that does (`Mark` and `Unmarked`, `Finish` and `RowNotSaved`) is one
statement with its two outcomes. `PostSync` ignores two errors: when the query
for the nodes fails it is a sync of no node, and when the query for a newest
version fails the node counts as one without versions; either ends as a success.

| variable | in the code |
|---|---|
| `row`, `mine[p]` | `host` and `port`, `host_fingerprint`, `enabled`; `completed` is `alreadyCompleted` of `CheckExports` |
| `state[b]` | a successful row of `node_backups`: none yet, `exported` or not, deleted |
| `due`, `began` | whether the sync time of the day has passed, now and at `now` of `CheckExports` |
| `todo`, `batch`, `cur`, `failed` | the loops of `CheckExports` and `PostSync` |
| `offered` | the key of the connection's server |
| `sent`, `outdated` | history: what was written to a server; whether a row was saved over a newer one, or the address changed under a request |

At midnight what was completed becomes a matter of the day before. Nodes are
enabled and versions successful; names of files, an incomplete configuration and
a change of the sync time are left out.

## 3. Runs

| run | instance | shows |
|---|---|---|
| `scheduler_safety` | one node, ticker, manual cycle, client; 3 revisions over 2 hashes; failing queries, crashes, disabling | `BackupExclusive`, `VersionsFollowDevice` |
| `scheduler_fair` | same actors, 2 revisions; signals, stops that do not wait for the handlers, crashes, restarts; fairness | `QuiescentAtClose`, `ShutdownCompletes`, `PendingServed`, `CyclesEnd`, `LastConfigRecorded` |
| `scheduler_cycles` | `Alerting` with two nodes, one of them watched, two leaders, a semaphore with one slot, two dispatch slots; no failing queries, no single-node requests | `DestinationInformed`, `CycleBackupsBounded`, `DriftAnnounced`, `AlertOnTransitionOnly`, `ImplementsHistory` |
| `scheduler_manual_alerts` | one node, ticker, client | **violates** `AlertOnTransitionOnly` |
| `users` | 3 accounts, 2 requests, profile saves, failing queries, restarts | `CheckedAdminRemains`, `SingleFounder`, `DeletedStaysDeleted` |
| `users_profile` | 2 accounts, 2 requests, profile saves | **violates** `AdminRemains` |
| `next_run` | half-hour clock, 6 preferred times, on time, half an hour or days late, four weeks; the query for the routine fails at any run | `NextIsLater`, `RunsOnSlots`, `NoSlotSkipped`, `WaitBounded` |
| `next_run_slots` | the same, without failing queries | **violates** `SlotsRepeat` |
| `sftp_export` | two versions of a node; two servers, one of which offers an old and a new key; ticker and one request; failing queries and transfers, crashes, saved settings, deleted nodes; fairness | `ExportedWasSent`, `OneKeyTrusted`, `SuccessIsComplete`, `EveryVersionExported` |
| `sftp_first_key` | one version, the same servers | **violates** `FirstKeyKept` |
| `node_inventory` | a node, two routines, a credential, two keys; any two of several kinds of processes, sessions of two pieces; failing queries, restarts; fairness of reader and worker | `OneKeyTrusted`, `OrphansBounded`, `WritesKept`, `ChecksHold`, `ImplementsTranscript`, `SessionsEnd` |
| `line_diff` | all pairs of texts of up to 4 lines over 3 contents | `RowsRebuild`, `SplitRebuilds`, `FewestChanges` |

`TypeOK` of each module is checked beside them (`InventoryTypeOK` of
`NodeInventory`).

**Bounds.** `MaxRevision` bounds the device's changes: 3 over 2 hashes is what
it takes to return to an earlier configuration, so that equal hashes are not
neighbours. The locks are per node and the database rows too, so one node shows
what happens to a node; two nodes and one slot show the pool, where the numbers
20 and 1 differ only in how many nodes fill it. One goroutine of each kind
covers every pair of kinds; two manual cycles exclude each other by the flag
the ticker's cycle uses. Three accounts allow an administrator, another and a
third that is promoted or created; two requests allow every crossing of two
handlers. `Horizon` bounds the clock; the cadences repeat every week.
`failureAlerts` counts to two, which is one too many already. `MCFairSpec`
fixes the configuration the device of `scheduler_fair` begins with; the two are
interchangeable, but symmetry must not be used for liveness. Four lines hold
every tie of the table between kept lines and the pairing of rows at either
end. Two versions make a batch of which one fails; the ticker and a request
make every pair of an export with another handler (two requests behave like one
of them and the ticker, but for the two savers that `sftp_first_key` shows).
`Outdating` is a bound: in `sftp_export` it is FALSE, so what follows a save
over a newer row is explored in `sftp_first_key` only; the theorems are free of
it. `Switch` is another: there the export stays enabled, for a disabled one
only takes `CheckExports` away, which breaks no safety property, and the
liveness property speaks of the time after the last change. In
`node_inventory`, `Casts` names the pairs of processes that act together: an
editor with a manager, with another editor, with a backup, two managers, two
backups. A property relates two processes and the tables, so a third would
repeat what one of the two can do; `SaveNewNode` and `DeleteNode`, single
steps, are always there, and the theorems know no such bound. `OrphansBounded`
allows two backups two rows after a deletion; `MaxRecords`, beyond which a
backup adds none, is one more; two pieces make a text that can be cut short,
and a device that is not silent after them sends more that is not told apart.
In `scheduler_cycles` one node of two is watched and it alone has a rule
(`Alerted`), so that what fills the two dispatch slots is an alert of an
outage, of its end and of a change, of that node; a message of another rule
would take a slot just so. `Followed` is the one version that follows a first
one there. `Stops` is off there: what it adds is `LoseAll`, which only makes
what was on its way `"unsure"` or lost, and a stop that does not wait for the
handlers, which the theorems except. Symmetry is used for model values in
safety runs only.

**Fairness.** Weak fairness of every step a runnable goroutine takes: the Go
scheduler is preemptive. Strong fairness of `TickerReturns`: `select` picks at
random among ready cases, so it cannot take the tick for ever. Nothing is
assumed of requests, signals and operators - nor of the peers. The timeouts of
30 s (SSH) and 15 s (SFTP) cover the TCP connection only; the SSH handshake,
the session (`ssh/service.go:159-195`, `235`) and the transfer
(`sftp/service.go:142-176`) have no deadline, so a peer that falls silent holds
its goroutine, and with it a node lock, a slot, `isRunning`, a count of `jobs`
or the ticker, for ever. The liveness properties therefore state what they need
as conditions, by name:

* `CyclesEnd`: the sessions of the cycles return (`SessionsReturn(Leaders)`).
* `PendingServed`: every session, whatever its node, and the exports of a tick
  return (`SessionsReturn(Callers)`, `ExportsReturn`). A silent device of
  another node keeps the cycle, and so `isRunning`, and a hanging export the
  ticker.
* `ShutdownCompletes`: these, and `app.Shutdown` returns (`ShutdownReturns`),
  for `Stop` waits for ticker and jobs without a limit, and a signal is
  followed by the end of the process only then.
* `LastConfigRecorded`: `Answering`, below.

Without any one of these conditions TLC finds a behaviour that breaks the
property, so none is decoration, and the hazards in `PROJECT.json` say that the
code itself does not see to them. `LastConfigRecorded` assumes, in `Answering`,
that the process runs for good after some restart, that the node becomes
pending again and again, and that its device answers infinitely often, and that
exports return.

`NodeInventory`: the reader goroutine and the worker that waits for it go on
(`SessionFairness`). The device owes nothing: it need not speak, go on, fall
silent or hang up, and `SessionsEnd` says when a session ends all the same:
once the device has hung up, or has said something to a terminal and stops
sending in the end. A device that accepts a session and never says anything,
one that keeps sending something in every period of two seconds, and one that
keeps an exec session open hold their worker, the node's lock, a slot of the
semaphore and with it `isRunning` until the process ends; the code has no
timeout there, and `SessionsEnd` does not claim otherwise.

`SftpExport`: the ticker's goroutine goes on except at the server, and the
clock goes on. Dial and transfer are not fair: that they return is the
condition `ServerAnswers` of `EveryVersionExported`. `TickerComesRound` is its
second condition: day after day `CheckExports` begins between the sync time and
midnight before a manual sync of that day is over. It comes every minute, but a
sync time of 23:59, or backups that keep the ticker goroutine busy over
midnight every night, would break that; and so would a manual sync between the
sync time and the next tick of every day, whose success, for the newest
versions only, counts as today's export (`scheduler.go:434`). `Settled` is the
third: from some time on the ticker's exports do not fail and the settings stay
enabled. Manual syncs go on under all three.

**What the violations show.**

* `scheduler_manual_alerts`: the handler of `/nodes/:id/trigger` loads the node,
  a scheduled backup of it fails, stores `error`, alerts and unlocks; now the
  request takes the lock, fails too, finds `never` or `success` in its old copy
  and alerts a second time. The comment above the code says that a failure is
  alerted only when the node was not failing before.
* `users_profile`: `SaveProfile` loads a user who is promoted and then relied on
  by the last-admin check when the other administrator is demoted; the profile
  is saved with its old role. No administrator remains.
* `sftp_first_key`: an administrator's save has loaded the settings when the
  first connection stores its key; the save writes the whole row with the empty
  fingerprint back, the address being the same. The next connection accepts
  whatever key it is offered. `CheckExports` and `PostSync` do the same with a
  row they loaded before their transfers. The comment at `verifyHostKey`
  promises that later connections must present the first key.
* `next_run_slots`: sub-daily slots are counted from `backup_hour` of the
  current day, so the first run after midnight is followed by `backup_hour`, not
  by the slot `freqHours` later as the comment has it.

**What the passing runs show of the limits.** Some properties hold only with the
exception they name, and the exception can be reached in the run:

* `WritesKept`, `OneKeyTrusted`: a `SaveNode` that loaded the node before a
  backup ended, before a mute, before the first connection stored the host key
  or before the node was deleted undoes it. After a key was saved over, the next
  connection trusts what it is offered.
* `ChecksHold`: `README.md:86` of the repository promises a "blocked deletion
  when nodes still depend on a credential or routine". This holds for every node
  that was linked when the handler counted; one that is linked between the count
  and the deletion, or a count that fails unnoticed and so sees nothing of what
  was written before, lets the deletion pass. The
  node is then left with a routine that the query of `checkBackupsLocked` does
  not find (`scheduler.go:99`), and is never pending again.
* `RunsOnSlots`, `NoSlotSkipped`, `WaitBounded`: a run whose query for the
  routine fails is followed by one 24 hours later, off every slot, whether the
  routine is hourly or weekly; the one after that is on a slot again.
* `OrphansBounded`: versions of a deleted node are left, at most one of each
  backup that was under way.
* `DestinationInformed`, `DriftAnnounced`: a destination that was told of an
  outage may never hear of its end, and a destination may never hear of an
  outage or a new version at all, when the message is dropped, fails, is
  overtaken or dies with the process; the code repeats nothing. Both are
  checked without failing queries: when the UPDATE after an alert fails, the
  alert has been dispatched and the row stays as it was.

## 4. Proofs

All theorems hold for every value of the constants, under the assumption each
module states (`SchedulerAssumption` ...: distinct kinds of goroutine, bounds
that are natural numbers).

* `SchedulerProofs`: `TypeCorrect`, `Exclusive`, `HistoryCorrect`,
  `RefinesBackupHistory`. `VersionsFollowDevice` is not inductive: nothing in
  it says that what a backup holds in its hands is still right when it inserts.
  The inductive invariant `IInv` adds `FetchedIsFresh` (the configuration
  fetched is a revision of the device, not older than any recorded one) and
  `LoadedIsNewest` (the row loaded is still the newest, and differs from what
  was fetched when a version is about to be inserted). Both hold because the
  node's lock is held, which is where `BackupExclusive` enters: only the
  goroutine that works on the node can insert. The refinement follows from
  `IInv`. About the process: `StopLeavesNothing` (`QuiescentAtClose`),
  `OneSemaphore` (`CycleBackupsBounded`) and `NothingLeaks`. None says where
  the goroutines that it denies could have come from; `LifeInv` does: the flag
  belongs to the one cycle there is (`OneCycle`), a cycle started by hand and a
  request past its lock are in the WaitGroup (`CyclesCounted`,
  `RequestsCounted`), a request before it is a handler that `app.Shutdown`
  awaits unless it fails (`Handling`), the ticker's cycle by `s.stopped`
  (`TickerAwaited`), a worker's cycle is waiting for it (`PoolOnly`), and a
  lock has a holder (`LocksHeld`). With `SlotsHeld`, that no pool outgrows its
  semaphore, and one cycle at a time, the bound on all of them is the image of
  one pool; it assumes that there are finitely many nodes. `NothingLeaks`
  states the converse of the counting invariants: a lock and a count of the
  WaitGroup belong to a backup or a cycle under way (`LocksHeld`, `JobsOwned`).
  This is what the liveness properties rest on, since `Stop`, a cycle and a
  request wait for nothing else than these and the exports.
* `AlertingProofs`: `AlertingIsScheduling` (a step of the composition is a step
  of `Scheduler`, so all of the above holds of it), then
  - `OutageToldOnce` (`AlertOnTransitionOnly`), assuming `CyclesOnly`: without
    single-node requests the row that a cycle loaded is still the row when
    `runBackup` decides (`SeenIsRow`), because there is one cycle and it has one
    backup of the node. With a request it is not, and `scheduler_manual_alerts`
    shows what follows;
  - `DriftIsTold` (`DriftAnnounced`), assuming `NoFaults`, that is no failing
    query, no crash, no operator who mutes a node (or disables it, the two are
    one switch of the model), and a rule that matches the nodes it follows
    (`Watched` within `Alerted`), for behaviours in which `app.Shutdown` does
    not fail. A query that fails, a crash or a hasty end between the INSERT and
    the alert leaves a version untold, and so does a mute, which is meant to.
    `Unmuted` says that then every copy of a row says so, `OrderlyInvariant`
    that no process ends under a backup, and `FateInv` that exactly the
    versions not recorded yet and the one whose backup is at the alert are
    untold, and none is told twice;
  - `DestinationHears` (`DestinationInformed`), assuming these and
    `CyclesOnly`. The alert leaves before the UPDATE, so neither the row nor
    the last message alone is right in between: `Verdict(n)` is what the row
    says or is about to say, and `ToldInv` that the news last sent agrees with
    it or is known to be unsure.
  Requests are free in `DriftIsTold`, stops that wait for the handlers and the
  restarts after them in all of these, faults and any stop in `OutageToldOnce`.
  None says that a message arrives: a full queue, a failing send and the end of
  the process are what `"lost"` and `"unsure"` stand for. The run
  `scheduler_cycles` satisfies each of these hypotheses, so none is empty.
* `UserAdminProofs`: `TypeCorrect`, `AdminAlwaysRemains`, `SetupOnce`,
  `DeletionIsFinal`. Inductive with `MutexInv` (at most one request between
  lock and unlock), `FormInv` (where a request can be with which form),
  `TargetInv` (an account that a request behind the mutex has loaded is live
  until it writes) and `CheckedInv` (what the check found is still true at the
  write). The core is a cardinality argument: one administrator other than the
  target stays.
* `NextRunProofs`: `TypeCorrect`, `NeverPendingAgain`, `WaitIsBounded`,
  `NoDrift`, `FirstSlot`, from arithmetic lemmas about `Advance` (the result
  lies after `t`, at most a step after it, congruent to the candidate) and
  about days and weeks. `Planned` says that the next run is what `nextRunAfter`
  gives for the routine, or for the fallback when the last run did not find it
  (`lost`), and the theorems except that one wait. That no slot is skipped
  follows from the distance of two slots, a day or a week (`DaysApart`,
  `WeeksApart`), and from the wait being no longer.
* `LineDiffProofs`: `TypeCorrect`, `DiffRebuilds`, `SplitComplete`, by an
  invariant that says which line numbers have been emitted: those above `i` and
  `j` in the rows, those of the first `k - 1` rows in the pairs.
  `DiffIsShortest` (`FewestChanges`) is about the table: it satisfies its
  recursion (`TableIsTable`), no common subsequence is longer than its cell
  says (`TableBounds`: a common subsequence of two texts that end differently
  leaves out one of the last lines), and by `WalkInv` the lines kept so far and
  what the cell at `i`, `j` promises make up the whole, so nothing is given
  away on a tie. The library's rule of induction takes an operator as a
  parameter, so both inductions argue with the least element of the set of
  numbers for which the claim fails (`Least`, `Induction`).
* `SftpExportProofs`: `TypeCorrect`, `ExportedMeansSent`,
  `SuccessMeansComplete`, `FirstUseTrusted`. The core is `JobInv` (a process
  that transfers has a version in hand, one that marks has sent it) with two
  invariants on top: `BatchInv` (every version of a batch without failures is
  marked, left over or in hand) and `TrustInv` (until a row is saved over a
  newer one, what a process has loaded agrees with the row but for a key that
  was stored since; the UPDATE's WHERE clause is what keeps the key of a
  connected process from changing).

* `DeviceSessionProofs` (lemmas) and `NodeInventoryProofs`: `TypeCorrect`,
  `RefinesTranscript`, `WritesAreKept`, `ChecksAreKept`, `TrustOnFirstUse`,
  `FewOrphans`. `SessionInv` (`Buffered`) says of every session that the buffer
  holds no more than was sent, that a buffer which has not grown in this period
  holds nothing of it, and that `done` is closed at the very end only; from it
  every step of a session is a step of `Transcript`. Each property
  of the tables has its own invariant over the types: `EditorInv` (the row a
  save has in hand agrees with the table in the columns nobody has written
  since), `ManagerInv` (a row that now speaks against what a count found was
  written since), `KeyInv` (the keys met are the key of the row, and a worker
  has loaded that or none), `OrphanInv` (the rows of a deleted node and the
  backups under way that may still insert one are together no more than the
  workers). The last needs finitely many workers.

Every invariant and action property of the passing runs is a theorem, and so
are the two refinements. Only model-checked are the six liveness properties,
`PendingServed`, `CyclesEnd`, `ShutdownCompletes`, `LastConfigRecorded`,
`EveryVersionExported` and `SessionsEnd`: fairness is stated with `ENABLED`,
which is out of the prover's reach. What the theorems about alerts assume, the
run `scheduler_cycles` assumes too; outside these assumptions nothing is
claimed.

## 5. Not modelled, and the plan

Left out for good: encryption, vendor command lists, templates, front ends,
read-only queries, browser headers, the permission table (reasons in
`PROJECT.json`). Left out of the parts that are modelled: the zone's change to
summer time (`NextRun`), names and passwords of users (`UserAdmin`), names of
remote files, incomplete settings and a changed sync time (`SftpExport`), the
forms of the alert rules, the test button and the address check (`Alerting`),
the legacy access agents, groups, tags and changes of names (`NodeInventory`),
the migrations at the start of the process.

What would add most next:

1. Requests in `Alerting`: a bounded variant of `DestinationInformed` beside
   `StartBackup`, whose second alert `scheduler_manual_alerts` shows.
2. The file names of the export, over a small alphabet and clock: two versions
   within a minute overwrite each other (hazard at `sftp/service.go:165`).
