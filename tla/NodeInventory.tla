--------------------------- MODULE NodeInventory ---------------------------
(* internal/handlers/forms.go: the handlers that save, import, mute and    *)
(* delete nodes and the routines and credentials nodes are linked to, next *)
(* to the goroutines that back the nodes up: internal/services/ssh for the *)
(* connection, DeviceSession for the session, and what runBackup writes to *)
(* the tables. A handler that first loads, counts or looks up and then     *)
(* writes does so in separate queries. DELETE is a soft delete: the row    *)
(* stays and the queries of gorm do not find it any more.                  *)
(*                                                                         *)
(* Routines are the rows of backup_routines that bear one certain name, as *)
(* Credentials are of credentials. A row of another name, or a change of   *)
(* its name, would only begin or end its part in the checks for doubles.   *)
EXTENDS DeviceSession, FiniteSets

CONSTANTS
  Nodes, Routines, Credentials,
  Keys,         \* host keys a device may present
  None,         \* a NULL column, an empty fingerprint
  Editors,      \* requests that edit nodes
  Managers,     \* requests that edit routines and credentials
  Casts,        \* bound: sets of processes that act in one behaviour
  MaxRecords,   \* bound: rows of node_backups for one node
  DbFails,      \* whether a query may fail
  Restarts      \* whether the process may die

Parents == Routines \cup Credentials

ASSUME NodeInventoryAssumption ==
  /\ None \notin Parents \cup Keys \cup Nodes
  /\ Routines \cap Credentials = {}
  /\ Casts \subseteq SUBSET (Editors \cup Managers \cup Workers)
  /\ MaxRecords \in Nat /\ IsFiniteSet(Workers)
  /\ {DbFails, Restarts} \subseteq BOOLEAN

VARIABLES
  cast,       \* the processes of this behaviour
  rows,       \* table nodes
  parents,    \* tables backup_routines and credentials
  records,    \* how many rows of node_backups a node has
  editor, manager, worker,
  trusted,    \* history: keys with which a session began
  forgotten   \* history: nodes whose key was saved over

dbVars == <<rows, parents, records>>
vars == <<cast, dbVars, editor, manager, worker, sessionVars,
          trusted, forgotten>>

-----------------------------------------------------------------------------
State   == {"none", "live", "deleted"}
Columns == {"state", "muted", "report", "key"}  \* not from the form

Row == [state : State, routine : Routines \cup {None},
        credential : Credentials \cup {None}, muted : BOOLEAN,
        report : {"never", "success", "error"}, key : Keys \cup {None}]

NoRow == [state |-> "none", routine |-> None, credential |-> None,
          muted |-> FALSE, report |-> "never", key |-> None]

(* What a request has in hand: the row it will write, and, as history, the *)
(* columns others have written since it was loaded, or the rows others     *)
(* have written since it counted.                                          *)
Editor  == [pc : {"idle", "save", "mute", "routine", "create"},
            at : Nodes \cup {None}, row : Row, stale : SUBSET Columns]
Manager == [pc : {"idle", "countNames", "save", "countLinked", "delete"},
            at : Parents \cup {None}, unseen : SUBSET (Nodes \cup Parents)]
Worker  == [pc : {"idle", "loaded", "dial", "reload", "session", "record",
                  "report"},
            at : Nodes \cup {None}, key : Keys \cup {None},
            outcome : {"never", "success", "error"}]

IdleEditor  == [pc |-> "idle", at |-> None, row |-> NoRow, stale |-> {}]
IdleManager == [pc |-> "idle", at |-> None, unseen |-> {}]
IdleWorker  == [pc |-> "idle", at |-> None, key |-> None,
                outcome |-> "never"]

Live(n)   == rows[n].state = "live"
Known(ps) == {p \in ps : parents[p] # "none"} \cup {None}
Found(ps) == {p \in ps : parents[p] = "live"} \cup {None}

IdleProcesses == /\ editor = [e \in Editors |-> IdleEditor]
                 /\ manager = [q \in Managers |-> IdleManager]
                 /\ worker = [w \in Workers |-> IdleWorker]

Init == /\ cast \in Casts
        /\ rows = [n \in Nodes |-> NoRow]
        /\ parents = [p \in Parents |-> "none"]
        /\ records = [n \in Nodes |-> 0]
        /\ IdleProcesses /\ SessionInit
        /\ trusted = [n \in Nodes |-> {}]
        /\ forgotten = {}

-----------------------------------------------------------------------------
(* Bookkeeping of the history.                                             *)

Outdate(editors, n, columns) ==
  [e \in Editors |-> IF editors[e].pc = "save" /\ editors[e].at = n
                     THEN [editors[e] EXCEPT !.stale = @ \cup columns]
                     ELSE editors[e]]

Table(p) == IF p \in Routines THEN Routines ELSE Credentials

Counted(pc, p) == CASE pc = "save"   -> Table(p) \ {p}
                    [] pc = "delete" -> Nodes
                    [] OTHER         -> {}

Unseen(managers, x) ==
  [q \in Managers |->
     IF x \in Counted(managers[q].pc, managers[q].at)
     THEN [managers[q] EXCEPT !.unseen = @ \cup {x}] ELSE managers[q]]

EditorDone(e)  == [editor EXCEPT ![e] = IdleEditor]
ManagerDone(q) == [manager EXCEPT ![q] = IdleManager]

-----------------------------------------------------------------------------
(* SaveNode: what the form says about the links is as old as the page; the *)
(* foreign keys only ask for a row, deleted or not. The other columns of   *)
(* the new row are the ones that were loaded.                              *)
Linked(row, r, c) == [row EXCEPT !.routine = r, !.credential = c]

WrittenMutant(row) == [NoRow EXCEPT !.state = "live", !.routine = row.routine,
                                    !.credential = row.credential]
Written(row) == [row EXCEPT !.state = "live"]

LoadForSave(e, n) ==
  /\ editor[e].pc = "idle"
  /\ Live(n)
  /\ \E r \in Known(Routines), c \in Known(Credentials) :
       editor' = [editor EXCEPT ![e] =
         [IdleEditor EXCEPT !.pc = "save", !.at = n,
                            !.row = Linked(rows[n], r, c)]]
  /\ UNCHANGED <<cast, dbVars, manager, worker, sessionVars,
                 trusted, forgotten>>

(* gorm's Save: an UPDATE of every column, and when it finds no row, for a *)
(* row deleted in the meantime, an INSERT that takes its place.            *)
SaveNode(e) == LET n == editor[e].at IN
  /\ editor[e].pc = "save"
  /\ rows' = [rows EXCEPT ![n] = Written(editor[e].row)]
  /\ editor' = Outdate(EditorDone(e), n, editor[e].stale)
  /\ manager' = Unseen(manager, n)
  /\ forgotten' = IF rows'[n].key = rows[n].key THEN forgotten
                  ELSE forgotten \cup {n}
  /\ UNCHANGED <<cast, parents, records, worker, sessionVars, trusted>>

(* An INSERT under a fresh id.                                             *)
Create(n, r, c) ==
  /\ rows[n].state = "none"
  /\ rows' = [rows EXCEPT ![n] = Written(Linked(NoRow, r, c))]
  /\ manager' = Unseen(manager, n)
  /\ UNCHANGED <<cast, parents, records, worker, sessionVars,
                 trusted, forgotten>>

SaveNewNode(n) ==
  /\ \E r \in Known(Routines), c \in Known(Credentials) : Create(n, r, c)
  /\ UNCHANGED editor

(* ImportNodesCSV, line by line: look the credential up, then the routine, *)
(* by name; one that is not found is left out with a warning.              *)
ImportCredential(e) ==
  /\ editor[e].pc = "idle"
  /\ \E c \in Found(Credentials) :
       editor' = [editor EXCEPT ![e].pc = "routine", ![e].row.credential = c]
  /\ UNCHANGED <<cast, dbVars, manager, worker, sessionVars,
                 trusted, forgotten>>

ImportRoutine(e) ==
  /\ editor[e].pc = "routine"
  /\ \E r \in Found(Routines) :
       editor' = [editor EXCEPT ![e].pc = "create", ![e].row.routine = r]
  /\ UNCHANGED <<cast, dbVars, manager, worker, sessionVars,
                 trusted, forgotten>>

ImportNode(e, n) ==
  /\ editor[e].pc = "create"
  /\ Create(n, editor[e].row.routine, editor[e].row.credential)
  /\ editor' = EditorDone(e)

(* SnoozeNode writes one column.                                           *)
LoadForMute(e, n) ==
  /\ editor[e].pc = "idle"
  /\ Live(n)
  /\ \E muted \in BOOLEAN :
       editor' = [editor EXCEPT ![e] =
         [IdleEditor EXCEPT !.pc = "mute", !.at = n, !.row.muted = muted]]
  /\ UNCHANGED <<cast, dbVars, manager, worker, sessionVars,
                 trusted, forgotten>>

SnoozeNode(e) == LET n == editor[e].at IN
  /\ editor[e].pc = "mute"
  /\ rows' = IF Live(n) THEN [rows EXCEPT ![n].muted = editor[e].row.muted]
             ELSE rows
  /\ editor' = Outdate(EditorDone(e), n, {"muted"})
  /\ UNCHANGED <<cast, parents, records, manager, worker, sessionVars,
                 trusted, forgotten>>

(* One transaction: the versions and failed attempts go with the node.     *)
RecordsLeftMutant(n) == records              \* only the node is deleted
RecordsLeft(n) == [records EXCEPT ![n] = 0]

DeleteNode(n) ==
  /\ rows[n].state # "none"
  /\ records' = RecordsLeft(n)
  /\ rows' = [rows EXCEPT ![n].state = "deleted"]
  /\ editor' = Outdate(editor, n, {"state"})
  /\ UNCHANGED <<cast, parents, manager, worker, sessionVars,
                 trusted, forgotten>>

(* An error return, of a validation or of a query.                         *)
EditorRefused(e) ==
  /\ editor[e].pc # "idle"
  /\ editor' = EditorDone(e)
  /\ UNCHANGED <<cast, dbVars, manager, worker, sessionVars,
                 trusted, forgotten>>

-----------------------------------------------------------------------------
(* Routines and credentials. The errors of the two counts are ignored, and *)
(* the count is 0 then.                                                    *)
ManagerGoes(q, r) ==
  /\ manager' = [manager EXCEPT ![q] = r]
  /\ UNCHANGED <<cast, dbVars, editor, worker, sessionVars,
                 trusted, forgotten>>

Uses(row, p) == row.state = "live" /\ p \in {row.routine, row.credential}

Namesakes(p) == {o \in Table(p) \ {p} : parents[o] = "live"}

LinkedNodesMutant(p) ==               \* asks for routine_id in both handlers
  {n \in Nodes : Uses([rows[n] EXCEPT !.credential = None], p)}
LinkedNodes(p) == {n \in Nodes : Uses(rows[n], p)}

(* First by id; a new row has none.                                        *)
LoadParent(q, p, pc) ==
  /\ manager[q].pc = "idle"
  /\ parents[p] = "live" \/ (parents[p] = "none" /\ pc = "countNames")
  /\ ManagerGoes(q, [IdleManager EXCEPT !.pc = pc, !.at = p])

Count(q, from, to, found) ==
  /\ manager[q].pc = from
  /\ \/ found = {} /\ ManagerGoes(q, [manager[q] EXCEPT !.pc = to])
     \/ /\ DbFails
        /\ ManagerGoes(q, [manager[q] EXCEPT !.pc = to,
                             !.unseen = Counted(to, manager[q].at)])
     \/ found # {} /\ ManagerGoes(q, IdleManager)

Write(q, from, state) == LET p == manager[q].at IN
  /\ manager[q].pc = from
  /\ parents' = [parents EXCEPT ![p] = state]
  /\ manager' = Unseen(ManagerDone(q), p)
  /\ UNCHANGED <<cast, rows, records, editor, worker, sessionVars,
                 trusted, forgotten>>

Save(q, ps) ==
  \/ \E p \in ps : LoadParent(q, p, "countNames")
  \/ /\ manager[q].at \in ps
     /\ \/ Count(q, "countNames", "save", Namesakes(manager[q].at))
        \/ Write(q, "save", "live")

Delete(q, ps) ==
  \/ \E p \in ps : LoadParent(q, p, "countLinked")
  \/ /\ manager[q].at \in ps
     /\ \/ Count(q, "countLinked", "delete", LinkedNodes(manager[q].at))
        \/ Write(q, "delete", "deleted")

SaveCredential(q)   == Save(q, Credentials)
SaveRoutine(q)      == Save(q, Routines)
DeleteCredential(q) == Delete(q, Credentials)
DeleteRoutine(q)    == Delete(q, Routines)

ManagerRefused(q) ==
  /\ manager[q].pc # "idle"
  /\ ManagerGoes(q, IdleManager)

-----------------------------------------------------------------------------
(* The workers. A cycle or a request loads the row, and only then asks for *)
(* the lock of the node.                                                   *)
WorkerGoes(w, r) == worker' = [worker EXCEPT ![w] = r]

LoadForBackup(w, n) ==
  /\ worker[w].pc = "idle"
  /\ Live(n)
  /\ WorkerGoes(w, [IdleWorker EXCEPT !.pc = "loaded", !.at = n,
                                      !.key = rows[n].key])
  /\ UNCHANGED <<cast, dbVars, editor, manager, sessionVars,
                 trusted, forgotten>>

Locked(n) == \E w \in Workers : /\ worker[w].at = n
                                /\ worker[w].pc \notin {"idle", "loaded"}

LockNode(w) ==
  /\ worker[w].pc = "loaded"
  /\ IF Locked(worker[w].at) THEN WorkerGoes(w, IdleWorker)
     ELSE WorkerGoes(w, [worker[w] EXCEPT !.pc = "dial"])
  /\ UNCHANGED <<cast, dbVars, editor, manager, sessionVars,
                 trusted, forgotten>>

Fails(w) == WorkerGoes(w, [worker[w] EXCEPT !.pc = "record",
                                            !.outcome = "error"])

(* The handshake went through with this key; the password, the driver or   *)
(* the terminal may still be refused.                                      *)
Connected(w, key) == LET n == worker[w].at IN
  /\ \/ Fails(w) /\ UNCHANGED <<sessionVars, trusted>>
     \/ /\ WorkerGoes(w, [worker[w] EXCEPT !.pc = "session", !.key = key])
        /\ Open(w)
        /\ trusted' = IF n \in forgotten THEN trusted
                      ELSE [trusted EXCEPT ![n] = @ \cup {key}]
  /\ UNCHANGED <<cast, parents, records, manager, forgotten>>

(* The host key callback of Connect, with the key of the row as loaded.    *)
DialFails(w) ==
  /\ worker[w].pc = "dial"
  /\ Fails(w)
  /\ UNCHANGED <<cast, dbVars, editor, manager, sessionVars,
                 trusted, forgotten>>

DialKnown(w) ==
  /\ worker[w].pc = "dial" /\ worker[w].key # None
  /\ Connected(w, worker[w].key)
  /\ UNCHANGED <<rows, editor>>

(* Trust on first use: UPDATE ... WHERE the fingerprint is still empty.    *)
PinnableMutant(n) == Live(n)                    \* no such condition
Pinnable(n) == Live(n) /\ rows[n].key = None

DialFirst(w, key) == LET n == worker[w].at IN
  /\ worker[w].pc = "dial" /\ worker[w].key = None
  /\ Pinnable(n)
  /\ rows' = [rows EXCEPT ![n].key = key]
  /\ editor' = Outdate(editor, n, {"key"})
  /\ Connected(w, key)

AlreadyPinned(w, key) == LET n == worker[w].at IN
  /\ worker[w].pc = "dial" /\ worker[w].key = None
  /\ ~Pinnable(n)
  /\ WorkerGoes(w, [worker[w] EXCEPT !.pc = "reload", !.key = key])
  /\ UNCHANGED <<cast, dbVars, editor, manager, sessionVars,
                 trusted, forgotten>>

Reload(w) == LET n == worker[w].at IN
  /\ worker[w].pc = "reload"
  /\ IF Live(n) /\ rows[n].key = worker[w].key
     THEN Connected(w, worker[w].key)
     ELSE /\ Fails(w)
          /\ UNCHANGED <<cast, parents, records, manager, sessionVars,
                         trusted, forgotten>>
  /\ UNCHANGED <<rows, editor>>

SessionStep(w) ==
  /\ Device(w) \/ Client(w) \/ Returns(w)
  /\ UNCHANGED <<cast, dbVars, editor, manager, worker, trusted, forgotten>>

OutcomeMutant(w) == IF text[w] = Failed THEN "error" ELSE ""
Outcome(w) == IF text[w] = Failed THEN "error" ELSE "success"

PerformBackup(w) ==
  /\ worker[w].pc = "session" /\ text[w] # NoText
  /\ Forget(w)
  /\ WorkerGoes(w, [worker[w] EXCEPT !.pc = "record",
                                     !.outcome = Outcome(w)])
  /\ UNCHANGED <<cast, dbVars, editor, manager, trusted, forgotten>>

(* A row for a failed attempt or for a new configuration, or none.         *)
Record(w) == LET n == worker[w].at IN
  /\ worker[w].pc = "record"
  /\ \/ /\ records[n] < MaxRecords
        /\ records' = [records EXCEPT ![n] = @ + 1]
     \/ UNCHANGED records
  /\ WorkerGoes(w, [worker[w] EXCEPT !.pc = "report"])
  /\ UNCHANGED <<cast, rows, parents, editor, manager, sessionVars,
                 trusted, forgotten>>

(* UPDATE of last_status and the other columns of a backup.                *)
Report(w) == LET n == worker[w].at IN
  /\ worker[w].pc = "report"
  /\ rows' = IF Live(n) THEN [rows EXCEPT ![n].report = worker[w].outcome]
             ELSE rows
  /\ editor' = Outdate(editor, n, {"report"})
  /\ WorkerGoes(w, IdleWorker)
  /\ UNCHANGED <<cast, parents, records, manager, sessionVars,
                 trusted, forgotten>>

(* The early returns of runBackup.                                         *)
WorkerFails(w) ==
  /\ DbFails /\ worker[w].pc \in {"record", "report"}
  /\ WorkerGoes(w, IdleWorker)
  /\ UNCHANGED <<cast, dbVars, editor, manager, sessionVars,
                 trusted, forgotten>>

Restart ==
  /\ Restarts
  /\ editor' = [e \in Editors |-> IdleEditor]
  /\ manager' = [q \in Managers |-> IdleManager]
  /\ worker' = [w \in Workers |-> IdleWorker]
  /\ session' = [w \in Workers |-> NoSession]
  /\ text' = [w \in Workers |-> NoText]
  /\ UNCHANGED <<cast, dbVars, trusted, forgotten>>

-----------------------------------------------------------------------------
EditorStep(e) ==
  \/ \E n \in Nodes : LoadForSave(e, n) \/ LoadForMute(e, n) \/ ImportNode(e, n)
  \/ SaveNode(e) \/ SnoozeNode(e) \/ ImportCredential(e) \/ ImportRoutine(e)
  \/ EditorRefused(e)

ManagerStep(q) ==
  \/ SaveCredential(q) \/ SaveRoutine(q)
  \/ DeleteCredential(q) \/ DeleteRoutine(q)
  \/ ManagerRefused(q)

WorkerStep(w) ==
  \/ \E n \in Nodes : LoadForBackup(w, n)
  \/ LockNode(w) \/ DialFails(w) \/ DialKnown(w) \/ Reload(w)
  \/ \E key \in Keys : DialFirst(w, key) \/ AlreadyPinned(w, key)
  \/ SessionStep(w) \/ PerformBackup(w) \/ Record(w) \/ Report(w)
  \/ WorkerFails(w)

Next == \/ \E n \in Nodes : SaveNewNode(n) \/ DeleteNode(n)
        \/ \E e \in Editors \cap cast : EditorStep(e)
        \/ \E q \in Managers \cap cast : ManagerStep(q)
        \/ \E w \in Workers \cap cast : WorkerStep(w)
        \/ Restart

Spec == Init /\ [][Next]_vars

-----------------------------------------------------------------------------
(* Every variable keeps its type.                                          *)
InventoryTypeOK ==
  /\ rows \in [Nodes -> Row] /\ parents \in [Parents -> State]
  /\ records \in [Nodes -> 0..MaxRecords]
  /\ editor \in [Editors -> Editor] /\ manager \in [Managers -> Manager]
  /\ worker \in [Workers -> Worker] /\ SessionTypeOK
  /\ trusted \in [Nodes -> SUBSET Keys] /\ forgotten \subseteq Nodes

(* Nobody undoes what another has written to a node: whether it is deleted *)
(* or muted, how its last backup went and which key its device has change  *)
(* only in the hands of their owner - or of a SaveNode that had loaded the *)
(* row before the owner wrote, and writes the whole of it back. That is    *)
(* the one way in which a report, a mute or a key is lost, or a deleted    *)
(* node comes back.                                                        *)
Acts(before, after, pc, n) ==
  \E p \in DOMAIN before : /\ before[p].pc = pc /\ before[p].at = n
                           /\ after[p] # before[p]

SavedOver(n, col) ==
  \E e \in Editors : /\ editor[e].pc = "save" /\ editor[e].at = n
                     /\ editor'[e].pc = "idle" /\ col \in editor[e].stale

Owned(n, col) ==
  CASE col = "state"  -> rows'[n].state = "deleted"
    [] col = "muted"  -> Acts(editor, editor', "mute", n)
    [] col = "key"    -> rows[n].key = None /\ Acts(worker, worker', "dial", n)
    [] col = "report" -> Acts(worker, worker', "report", n)

WritesKept ==
  [][\A n \in Nodes, col \in Columns :
       rows[n].state # "none" /\ rows'[n][col] # rows[n][col] =>
         Owned(n, col) \/ SavedOver(n, col)]_vars

(* Trust on first use: of all the backups that connect to a device, first  *)
(* ones at the same time, with rows loaded before or after, all have met   *)
(* one key - until a stale SaveNode takes the key away.                    *)
OneKeyTrusted ==
  \A n \in Nodes : n \in forgotten \/ Cardinality(trusted[n]) <= 1

(* A deletion leaves at most what the backups under way then still write.  *)
OrphansBounded ==
  \A n \in Nodes : rows[n].state = "deleted" =>
    records[n] <= Cardinality(Workers \cap cast)

(* "Routine is linked to nodes", "a routine with this name already         *)
(* exists": a routine or credential in use is not deleted and a name is    *)
(* not given twice, except past a row written since the count, or past any *)
(* row when the count itself failed, which nobody notices.                 *)
ChecksHold ==
  [][\A q \in Managers : manager'[q].pc = "idle" /\ parents' # parents =>
       /\ manager[q].pc = "save" =>
            Namesakes(manager[q].at) \subseteq manager[q].unseen
       /\ manager[q].pc = "delete" =>
            \A n \in Nodes : Uses(rows[n], manager[q].at)
                                => n \in manager[q].unseen]_vars

-----------------------------------------------------------------------------
FairSpec == Spec /\ SessionFairness
=============================================================================
