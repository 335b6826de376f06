----------------------------- MODULE SftpExport -----------------------------
(* Copies of the versions on an SFTP server: CheckExports (scheduler.go),  *)
(* ExportBackup, PostSync, SaveSettings and TestSFTPConnection (forms.go), *)
(* and what they share: the one row of sftp_settings, which each loads,    *)
(* works with for as long as its transfers take and may save as a whole,   *)
(* the flag exported of a version, and verifyHostKey (sftp/service.go).    *)
(*                                                                         *)
(* Only successful versions of enabled nodes occur. A row that is enabled  *)
(* is complete, which SaveSettings sees to, so CheckExports never finds an *)
(* incomplete one; the sync time stays the same. File names are as         *)
(* distinct as versions are.                                               *)
EXTENDS Integers, FiniteSets

CONSTANTS
  Nodes,        \* the enabled nodes
  Backups,      \* the versions, by primary key: a larger one is newer
  Owner,        \* Owner[b]: the node of version b
  Addrs,        \* addresses (host and port) that the settings may name
  Presents,     \* Presents[a]: keys that connections to a are offered
  NoKey,        \* the empty fingerprint
  Ticker,       \* the goroutine that runs CheckExports
  Requests,     \* HTTP requests under way at the same time
  DbFails,      \* whether a query may fail
  Crashes,      \* whether the process may die
  Admins,       \* whether administrators save settings and delete nodes
  Switch,       \* what they may set the box `enabled` to
  Outdating     \* bound: whether what follows is explored when settings
                \* were saved over newer ones

Keys  == UNION {Presents[a] : a \in Addrs}
Procs == {Ticker} \cup Requests
None  == 0      \* no version

ASSUME SftpExportAssumption ==
  /\ Ticker \notin Requests
  /\ Backups \subseteq Nat \ {0} /\ IsFiniteSet(Backups)
  /\ Nodes \cap Backups = {}
  /\ Owner \in [Backups -> Nodes]
  /\ Addrs # {} /\ NoKey \notin Keys
  /\ {DbFails, Crashes, Admins, Outdating} \cup Switch \subseteq BOOLEAN

VARIABLES
  row,          \* the row of sftp_settings
  state,        \* state[b]: "none", "pending", "exported", "deleted"
  sent,         \* versions whose file has been written to a server
  due,          \* whether the sync time of this day has passed
  pc, op,       \* of each process: its next step, and its handler
  mine,         \* the settings it loaded, and changed since
  began,        \* CheckExports: whether `now` is after the last sync time
  todo, batch,  \* what is left to export, and all there was
  cur,          \* the version under way
  offered,      \* the key of its server
  failed,       \* whether an export failed (successCount is too small)
  outdated      \* history: settings were saved over newer ones, or their
                \* address changed under a request that uses them

jobVars == <<pc, op, mine, began, todo, batch, cur, offered, failed>>
vars    == <<row, state, sent, due, jobVars, outdated>>

-----------------------------------------------------------------------------
Row == [addr : Addrs, fp : Keys \cup {NoKey}, enabled : BOOLEAN,
        completed : BOOLEAN]  \* last_export_status is success, as of a time
                              \* after the last sync time

Ops == {"none", "check", "export", "sync", "test", "save"}
Pc  == {"idle", "batch", "next", "dial", "pin", "reload", "send", "mark",
        "finish", "save"}
Connected == {"send", "mark"}

Pending == {b \in Backups : state[b] = "pending"}
Alive   == {b \in Backups : state[b] \in {"pending", "exported"}}
Of(n)   == {b \in Alive : Owner[b] = n}
Newest(n) == IF Of(n) = {} THEN {None}
             ELSE {b \in Of(n) : \A c \in Of(n) : c <= b}

AnyRow == CHOOSE r \in Row : r.fp = NoKey

(* What these processes forget when they return.                           *)
Clear(f, procs, v) == [p \in Procs |-> IF p \in procs THEN v ELSE f[p]]
Idle(procs) ==
  /\ pc' = Clear(pc, procs, "idle")
  /\ op' = Clear(op, procs, "none")
  /\ mine' = Clear(mine, procs, AnyRow)
  /\ began' = Clear(began, procs, FALSE)
  /\ todo' = Clear(todo, procs, {})
  /\ batch' = Clear(batch, procs, {})
  /\ cur' = Clear(cur, procs, None)
  /\ offered' = Clear(offered, procs, NoKey)
  /\ failed' = Clear(failed, procs, FALSE)

NoJobs ==
  /\ pc = [p \in Procs |-> "idle"]
  /\ op = [p \in Procs |-> "none"]
  /\ mine = [p \in Procs |-> AnyRow]
  /\ began = [p \in Procs |-> FALSE]
  /\ todo = [p \in Procs |-> {}]
  /\ batch = [p \in Procs |-> {}]
  /\ cur = [p \in Procs |-> None]
  /\ offered = [p \in Procs |-> NoKey]
  /\ failed = [p \in Procs |-> FALSE]

(* Settings that have been saved once, and no export yet.                  *)
Init ==
  /\ \E a \in Addrs : row = [addr |-> a, fp |-> NoKey, enabled |-> TRUE,
                             completed |-> FALSE]
  /\ state = [b \in Backups |-> "none"]
  /\ sent = {}
  /\ due = FALSE
  /\ NoJobs
  /\ outdated = FALSE

Goto(p, label) == pc' = [pc EXCEPT ![p] = label]

-----------------------------------------------------------------------------
(* The handlers begin: each loads the settings row.                        *)

(* Of the row, the columns that the handler will use or save back.         *)
Loaded(handler) ==
  CASE handler = "save"              -> [row EXCEPT !.enabled = TRUE]
    [] handler \in {"check", "sync"} -> [row EXCEPT !.completed = FALSE]
    [] OTHER                         -> [AnyRow EXCEPT !.addr = row.addr,
                                                       !.fp = row.fp]

Begin(p, handler, label) ==
  /\ pc[p] = "idle"
  /\ op' = [op EXCEPT ![p] = handler]
  /\ mine' = [mine EXCEPT ![p] = Loaded(handler)]
  /\ Goto(p, label)
  /\ UNCHANGED <<row, state, sent, due, offered, failed, outdated>>

(* The sync time has passed today and no export has succeeded since.       *)
Due(r) == due /\ ~r.completed

CheckExports ==
  /\ row.enabled /\ Due(row)
  /\ Begin(Ticker, "check", "batch")
  /\ began' = [began EXCEPT ![Ticker] = due]
  /\ UNCHANGED <<todo, batch, cur>>

(* The versions that have not been exported yet; without any it returns.   *)
LoadBatch ==
  /\ pc[Ticker] = "batch" /\ Pending # {}
  /\ todo' = [todo EXCEPT ![Ticker] = Pending]
  /\ batch' = [batch EXCEPT ![Ticker] = Pending]
  /\ Goto(Ticker, "next")
  /\ UNCHANGED <<row, state, sent, due, op, mine, began, cur, offered, failed, outdated>>

NothingToDo ==
  /\ pc[Ticker] = "batch" /\ (Pending = {} \/ DbFails)
  /\ Idle({Ticker})
  /\ UNCHANGED <<row, state, sent, due, outdated>>

ExportBackup(r, b) ==
  /\ b \in Alive
  /\ Begin(r, "export", "dial")
  /\ cur' = [cur EXCEPT ![r] = b]
  /\ UNCHANGED <<began, todo, batch>>

(* An error of the query for the nodes goes unnoticed: it is a sync of no  *)
(* node, which succeeds.                                                   *)
PostSync(r) ==
  /\ Begin(r, "sync", "next")
  /\ \E found \in {Nodes} \cup (IF DbFails THEN {{}} ELSE {}) :
        todo' = [todo EXCEPT ![r] = found]
  /\ UNCHANGED <<began, batch, cur>>

TestSFTPConnection(r) ==
  /\ Begin(r, "test", "dial")
  /\ UNCHANGED <<began, todo, batch, cur>>

SaveSettings(r) ==
  /\ Admins
  /\ Begin(r, "save", "save")
  /\ UNCHANGED <<began, todo, batch, cur>>

-----------------------------------------------------------------------------
(* The loops of CheckExports and PostSync.                                 *)

NextPending(p) ==
  /\ pc[p] = "next" /\ op[p] = "check"
  /\ \E b \in todo[p] : /\ cur' = [cur EXCEPT ![p] = b]
                        /\ todo' = [todo EXCEPT ![p] = @ \ {b}]
  /\ Goto(p, "dial")
  /\ UNCHANGED <<row, state, sent, due, op, mine, began, batch, offered, failed, outdated>>

(* The newest version of a node, if it has any. A failing query counts as  *)
(* a node without versions, and not as a failure.                          *)
HasVersionMutant(n) == TRUE              \* exports what it has not found
HasVersion(n) == Of(n) # {}

NextNode(p) ==
  /\ pc[p] = "next" /\ op[p] = "sync"
  /\ \E n \in todo[p] :
        /\ todo' = [todo EXCEPT ![p] = @ \ {n}]
        /\ \/ /\ HasVersion(n)
              /\ \E b \in Newest(n) : cur' = [cur EXCEPT ![p] = b]
              /\ Goto(p, "dial")
           \/ (~HasVersion(n) \/ DbFails) /\ UNCHANGED <<pc, cur>>
  /\ UNCHANGED <<row, state, sent, due, op, mine, began, batch, offered, failed, outdated>>

LoopEnds(p) ==
  /\ pc[p] = "next" /\ todo[p] = {}
  /\ Goto(p, "finish")
  /\ UNCHANGED <<row, state, sent, due, op, mine, began, todo, batch, cur,
                 offered, failed, outdated>>

(* After an error a loop goes on with the next one, a handler returns.     *)
GiveUp(p) ==
  IF op[p] \in {"check", "sync"}
  THEN /\ Goto(p, "next")
       /\ failed' = [failed EXCEPT ![p] = TRUE]
       /\ cur' = [cur EXCEPT ![p] = None]
       /\ offered' = [offered EXCEPT ![p] = NoKey]
       /\ UNCHANGED <<op, mine, began, todo, batch>>
  ELSE Idle({p})

(* The handshake succeeded: a test is over, an export sends its file.      *)
Accept(p, k) ==
  IF op[p] = "test" THEN Idle({p})
  ELSE /\ Goto(p, "send")
       /\ mine' = [mine EXCEPT ![p].fp = k]
       /\ offered' = [offered EXCEPT ![p] = k]
       /\ UNCHANGED <<op, began, todo, batch, cur, failed>>

-----------------------------------------------------------------------------
(* verifyHostKey: the settings that were loaded name the key...            *)
Dial(p) ==
  /\ pc[p] = "dial" /\ mine[p].fp # NoKey
  /\ \E k \in Presents[mine[p].addr] :
        IF k = mine[p].fp THEN Accept(p, k) ELSE GiveUp(p)
  /\ UNCHANGED <<row, state, sent, due, outdated>>

(* ... or they do not, and the first key is to be persisted.               *)
DialFirst(p) ==
  /\ pc[p] = "dial" /\ mine[p].fp = NoKey
  /\ \E k \in Presents[mine[p].addr] :
        offered' = [offered EXCEPT ![p] = k]
  /\ Goto(p, "pin")
  /\ UNCHANGED <<row, state, sent, due, op, mine, began, todo, batch, cur,
                 failed, outdated>>

(* UPDATE ... WHERE host_fingerprint is empty.                             *)
PinnedMutant == FALSE                    \* the WHERE clause is missing
Pinned == row.fp # NoKey

Pin(p) ==
  /\ pc[p] = "pin" /\ ~Pinned
  /\ row' = [row EXCEPT !.fp = offered[p]]
  /\ Accept(p, offered[p])
  /\ UNCHANGED <<state, sent, due, outdated>>

AlreadyPinned(p) ==
  /\ pc[p] = "pin" /\ Pinned
  /\ Goto(p, "reload")
  /\ UNCHANGED <<row, state, sent, due, op, mine, began, todo, batch, cur,
                 offered, failed, outdated>>

(* Somebody else was first: the same key will do.                          *)
Reload(p) ==
  /\ pc[p] = "reload"
  /\ IF row.fp = offered[p] THEN Accept(p, offered[p]) ELSE GiveUp(p)
  /\ UNCHANGED <<row, state, sent, due, outdated>>

WrittenMutant(b) == sent                 \* errors of Write are ignored
Written(b) == sent \cup {b}

Send(p) ==
  /\ pc[p] = "send"
  /\ sent' = Written(cur[p])
  /\ Goto(p, "mark")
  /\ UNCHANGED <<row, state, due, op, mine, began, todo, batch, cur, offered,
                 failed, outdated>>

(* No route, a refused login, a full disk, a failed query.                 *)
TransferFails(p) ==
  /\ pc[p] \in {"dial", "send"} \/ (DbFails /\ pc[p] \in {"pin", "reload"})
  /\ GiveUp(p)
  /\ UNCHANGED <<row, state, sent, due, outdated>>

(* backup.Exported = true and gorm's Save: the row comes back when it was  *)
(* deleted meanwhile.                                                      *)
Counted(p) ==
  IF op[p] = "export" THEN Idle({p})
  ELSE /\ Goto(p, "next")
       /\ cur' = [cur EXCEPT ![p] = None]
       /\ offered' = [offered EXCEPT ![p] = NoKey]
       /\ UNCHANGED <<op, mine, began, todo, batch, failed>>

Mark(p) ==
  /\ pc[p] = "mark"
  /\ state' = [state EXCEPT ![cur[p]] = "exported"]
  /\ Counted(p)
  /\ UNCHANGED <<row, sent, due, outdated>>

(* CheckExports does not count a version whose row it could not save;      *)
(* PostSync does not look.                                                 *)
MarkFailsMutant(p) == Counted(p)
MarkFails(p) == IF op[p] = "sync" THEN Counted(p) ELSE GiveUp(p)

Unmarked(p) ==
  /\ DbFails /\ pc[p] = "mark"
  /\ MarkFails(p)
  /\ UNCHANGED <<row, state, sent, due, outdated>>

-----------------------------------------------------------------------------
(* Saves of the whole row.                                                 *)

SameServer(r, q) == r.addr = q.addr /\ r.fp = q.fp

(* settings.LastExportAt and its status: `now` is the beginning of         *)
(* CheckExports and the end of PostSync.                                   *)
Finish(p) ==
  /\ pc[p] = "finish"
  /\ row' = [mine[p] EXCEPT !.completed =
                ~failed[p] /\ (IF op[p] = "check" THEN began[p] ELSE due)]
  /\ outdated' = (outdated \/ ~SameServer(mine[p], row))
  /\ outdated' => Outdating
  /\ Idle({p})
  /\ UNCHANGED <<state, sent, due>>

(* The form: a new address is trusted anew.                                *)
Save(p) ==
  /\ pc[p] = "save"
  /\ \E a \in Addrs, on \in Switch :
        /\ row' = [mine[p] EXCEPT !.addr = a, !.enabled = on,
                      !.fp = IF a = mine[p].addr THEN @ ELSE NoKey]
        /\ outdated' = (outdated \/ ~SameServer(mine[p], row)
             \/ (a # row.addr /\ \E q \in Procs \ {p} : pc[q] # "idle"))
  /\ outdated' => Outdating
  /\ Idle({p})
  /\ UNCHANGED <<state, sent, due>>

RowNotSaved(p) ==
  /\ pc[p] = "save" \/ (DbFails /\ pc[p] = "finish")
  /\ Idle({p})
  /\ UNCHANGED <<row, state, sent, due, outdated>>

-----------------------------------------------------------------------------
(* The surroundings.                                                       *)

(* runBackup inserts a version.                                            *)
NewBackup(b) ==
  /\ state[b] = "none"
  /\ \A c \in Backups : c > b => state[c] = "none"
  /\ state' = [state EXCEPT ![b] = "pending"]
  /\ UNCHANGED <<row, sent, due, jobVars, outdated>>

(* DeleteNode deletes a node with its versions: it gets no more of them.   *)
DeleteNode(n) ==
  /\ Admins /\ Of(n) # {}
  /\ state' = [b \in Backups |-> IF Owner[b] = n THEN "deleted" ELSE state[b]]
  /\ UNCHANGED <<row, sent, due, jobVars, outdated>>

(* The sync time of the day; and midnight, after which what was completed  *)
(* was so before the sync time of the day.                                 *)
SyncTime ==
  /\ ~due /\ due' = TRUE
  /\ UNCHANGED <<row, state, sent, jobVars, outdated>>

BeforeMutant(r) == r                     \* a success of any day counts
Before(r) == [r EXCEPT !.completed = FALSE]
Midnight ==
  /\ due /\ due' = FALSE
  /\ row' = Before(row)
  /\ mine' = [p \in Procs |-> Before(mine[p])]
  /\ began' = [p \in Procs |-> FALSE]
  /\ UNCHANGED <<state, sent, pc, op, todo, batch, cur, offered, failed,
                 outdated>>

Crash ==
  /\ Crashes
  /\ Idle(Procs)
  /\ UNCHANGED <<row, state, sent, due, outdated>>

Step(p) ==
  \/ NextPending(p) \/ NextNode(p) \/ LoopEnds(p)
  \/ Dial(p) \/ DialFirst(p) \/ Pin(p) \/ AlreadyPinned(p) \/ Reload(p)
  \/ Send(p) \/ TransferFails(p) \/ Mark(p) \/ Unmarked(p)
  \/ Finish(p) \/ Save(p) \/ RowNotSaved(p)

Request(r) ==
  \/ \E b \in Backups : ExportBackup(r, b)
  \/ PostSync(r) \/ TestSFTPConnection(r) \/ SaveSettings(r)

Next ==
  \/ CheckExports \/ LoadBatch \/ NothingToDo
  \/ \E r \in Requests : Request(r)
  \/ \E p \in Procs : Step(p)
  \/ \E b \in Backups : NewBackup(b)
  \/ \E n \in Nodes : DeleteNode(n)
  \/ SyncTime \/ Midnight \/ Crash

Spec == Init /\ [][Next]_vars

-----------------------------------------------------------------------------
(* Every variable keeps its type.                                          *)
TypeOK ==
  /\ row \in Row
  /\ state \in [Backups -> {"none", "pending", "exported", "deleted"}]
  /\ sent \subseteq Backups
  /\ due \in BOOLEAN
  /\ pc \in [Procs -> Pc]
  /\ op \in [Procs -> Ops]
  /\ mine \in [Procs -> Row]
  /\ began \in [Procs -> BOOLEAN]
  /\ todo \in [Procs -> SUBSET (Backups \cup Nodes)]
  /\ batch \in [Procs -> SUBSET Backups]
  /\ cur \in [Procs -> Backups \cup {None}]
  /\ offered \in [Procs -> Keys \cup {NoKey}]
  /\ failed \in [Procs -> BOOLEAN]
  /\ outdated \in BOOLEAN

(* A version is marked as exported only after its file was written.        *)
ExportedWasSent == \A b \in Backups : state[b] = "exported" => b \in sent

(* "The first key is persisted; subsequent connections must present the    *)
(* same key" (sftp/service.go): of two first connections that are offered  *)
(* different keys one is refused, and whoever sends a file talks to the    *)
(* key in the row - unless somebody saved the row over a newer one, or the *)
(* address changed under a request.                                        *)
OneKeyTrusted ==
  ~outdated => \A p \in Procs : pc[p] \in Connected =>
                  mine[p].addr = row.addr /\ offered[p] = row.fp

(* CheckExports reports success, which keeps it quiet until the next sync  *)
(* time, only when every version that it found is marked as exported.      *)
SuccessIsComplete ==
  (pc[Ticker] = "finish" /\ ~failed[Ticker]) =>
     \A b \in batch[Ticker] : state[b] \in {"exported", "deleted"}

(* The first key stays in the row for as long as the address does.         *)
FirstKeyKept ==
  [][(row.fp # NoKey /\ row'.addr = row.addr) => row'.fp = row.fp]_vars

-----------------------------------------------------------------------------
(* Liveness. The scheduler of Go lets the ticker's goroutine go on, and    *)
(* the clock goes on; nothing is assumed of the requests. What the code    *)
(* does not see to is not fairness but a condition of the property: the    *)
(* server, for neither the handshake nor a transfer has a deadline, and    *)
(* the time at which the ticker comes round.                               *)
AtServer == {"dial", "send"}

Exporting == LoadBatch \/ NothingToDo
             \/ (pc[Ticker] \notin AtServer /\ Step(Ticker))

Fairness == WF_vars(Exporting) /\ WF_vars(SyncTime \/ Midnight)

FairSpec == Spec /\ Fairness

(* No dial and no transfer of the ticker lasts for ever.                   *)
ServerAnswers == []<>(pc[Ticker] \notin AtServer)

(* On day after day the ticker comes round between the sync time and       *)
(* midnight, before a manual sync of that day is over. It would every      *)
(* minute if no cycle of backups held up its goroutine.                    *)
TickerComesRound == SF_vars(CheckExports)

Fault ==
  \/ Crash
  \/ NothingToDo /\ Pending # {}
  \/ TransferFails(Ticker) \/ Unmarked(Ticker)

(* From some time on no export of the ticker fails and the settings stay   *)
(* as they are; manual syncs go on.                                        *)
Settled ==
  /\ <>[](row.enabled /\ \A r \in Requests : op[r] # "save")
  /\ <>[][~Fault]_vars

(* Every version is exported in the end, whatever failed before and        *)
(* whoever reports success for the day meanwhile, be it for the newest     *)
(* versions only.                                                          *)
EveryVersionExported ==
  Settled /\ ServerAnswers /\ TickerComesRound
     => \A b \in Backups : <>[](state[b] # "pending")
=============================================================================
