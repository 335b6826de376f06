------------------------ MODULE NodeInventoryProofs ------------------------
(* NodeInventory for any nodes, routines, credentials, requests and        *)
(* workers: types, the refinement of Transcript, and the three properties  *)
(* of interleaved handlers and backups.                                    *)
EXTENDS NodeInventory, DeviceSessionProofs, FiniteSetTheorems

(* The types of all but the sessions. A worker that looks for a key which  *)
(* is there already has met one.                                           *)
TableTypeOK ==
  /\ rows \in [Nodes -> Row] /\ parents \in [Parents -> State]
  /\ records \in [Nodes -> 0..MaxRecords]
  /\ editor \in [Editors -> Editor] /\ manager \in [Managers -> Manager]
  /\ worker \in [Workers -> Worker]
  /\ \A w \in Workers : worker[w].pc = "reload" => worker[w].key \in Keys
  /\ trusted \in [Nodes -> SUBSET Keys] /\ forgotten \subseteq Nodes

TypeInv == TableTypeOK /\ SessionInv

-----------------------------------------------------------------------------
LEMMA RowParts ==
  ASSUME NEW row \in Row
  PROVE  /\ row.state \in State /\ row.routine \in Routines \cup {None}
         /\ row.credential \in Credentials \cup {None}
         /\ row.muted \in BOOLEAN /\ row.key \in Keys \cup {None}
         /\ row.report \in {"never", "success", "error"}
BY DEF Row

LEMMA IdleTypes ==
  /\ NoRow \in Row /\ IdleEditor \in Editor
  /\ IdleManager \in Manager /\ IdleWorker \in Worker
<1>1. NoRow \in Row
  BY DEF NoRow, Row, State
<1> QED BY <1>1 DEF IdleEditor, Editor, IdleManager, Manager,
                    IdleWorker, Worker

LEMMA TypeInit == Init => TypeInv
BY IdleTypes, SessionInvInit, NodeInventoryAssumption
   DEF Init, IdleProcesses, TypeInv, TableTypeOK, State, IdleWorker

LEMMA LinkedType ==
  ASSUME NEW row \in Row, NEW r \in Routines \cup {None},
         NEW c \in Credentials \cup {None}
  PROVE  /\ Linked(row, r, c) \in Row
         /\ Linked(row, r, c).routine = r /\ Linked(row, r, c).credential = c
         /\ \A col \in Columns : Linked(row, r, c)[col] = row[col]
<1> DEFINE t == Linked(row, r, c)
<1>1. t = [row EXCEPT !.routine = r, !.credential = c]
  BY DEF Linked
<1> HIDE DEF t
<1>2. t \in Row /\ t.routine = r /\ t.credential = c
  BY <1>1 DEF Row
<1>3. /\ t.state = row.state /\ t.muted = row.muted
      /\ t.report = row.report /\ t.key = row.key
  BY <1>1 DEF Row
<1> QED BY <1>2, <1>3 DEF t, Columns

LEMMA WrittenType ==
  ASSUME NEW row \in Row
  PROVE  /\ Written(row) \in Row /\ Written(row).state = "live"
         /\ \A col \in Columns \ {"state"} : Written(row)[col] = row[col]
<1> DEFINE t == Written(row)
<1>1. t = [row EXCEPT !.state = "live"]
  BY DEF Written
<1> HIDE DEF t
<1>2. t \in Row /\ t.state = "live"
  BY <1>1 DEF Row, State
<1>3. t.muted = row.muted /\ t.report = row.report /\ t.key = row.key
  BY <1>1 DEF Row
<1> QED BY <1>2, <1>3 DEF t, Columns

(* The history of the requests under way.                                  *)
LEMMA OutdateType ==
  ASSUME NEW editors \in [Editors -> Editor], NEW n,
         NEW columns \in SUBSET Columns
  PROVE  Outdate(editors, n, columns) \in [Editors -> Editor]
<1>1. ASSUME NEW e \in Editors
      PROVE  [editors[e] EXCEPT !.stale = @ \cup columns] \in Editor
  BY DEF Editor
<1> QED BY <1>1 DEF Outdate

LEMMA UnseenType ==
  ASSUME NEW managers \in [Managers -> Manager], NEW x
  PROVE  Unseen(managers, x) \in [Managers -> Manager]
<1>1. ASSUME NEW q \in Managers, x \in Counted(managers[q].pc, managers[q].at)
      PROVE  [managers[q] EXCEPT !.unseen = @ \cup {x}] \in Manager
  <2>1. x \in Nodes \cup Parents
    BY <1>1 DEF Counted, Table, Parents
  <2> QED BY <2>1 DEF Manager
<1> QED BY <1>1 DEF Unseen

(* Records of processes.                                                   *)
LEMMA EditorType ==
  ASSUME TableTypeOK, NEW e \in Editors, NEW x \in Editor
  PROVE  [editor EXCEPT ![e] = x] \in [Editors -> Editor]
BY DEF TableTypeOK

LEMMA ManagerType ==
  ASSUME TableTypeOK, NEW q \in Managers, NEW x \in Manager
  PROVE  [manager EXCEPT ![q] = x] \in [Managers -> Manager]
BY DEF TableTypeOK

LEMMA WorkerType ==
  ASSUME TableTypeOK, NEW w \in Workers, NEW x \in Worker,
         x.pc # "reload" \/ x.key \in Keys, WorkerGoes(w, x)
  PROVE  /\ worker' \in [Workers -> Worker]
         /\ \A v \in Workers : worker'[v].pc = "reload" => worker'[v].key \in Keys
BY DEF TableTypeOK, WorkerGoes

LEMMA RowType ==
  ASSUME TableTypeOK, NEW n, NEW row \in Row
  PROVE  [rows EXCEPT ![n] = row] \in [Nodes -> Row]
BY DEF TableTypeOK

(* What the requests that edit nodes write.                                *)
LEMMA EditorTypeStep ==
  ASSUME TableTypeOK, NEW e \in Editors, EditorStep(e)
  PROVE  TableTypeOK'
<1>0. IdleEditor \in Editor /\ NoRow \in Row /\ editor[e] \in Editor
  BY IdleTypes DEF TableTypeOK
<1>1. ASSUME NEW n \in Nodes, LoadForSave(e, n) PROVE TableTypeOK'
  <2>1. PICK r \in Known(Routines), c \in Known(Credentials) :
          editor' = [editor EXCEPT ![e] =
            [IdleEditor EXCEPT !.pc = "save", !.at = n,
                               !.row = Linked(rows[n], r, c)]]
    BY <1>1 DEF LoadForSave
  <2>2. Linked(rows[n], r, c) \in Row
    BY LinkedType DEF TableTypeOK, Known
  <2>3. \A row \in Row : [IdleEditor EXCEPT !.pc = "save", !.at = n, !.row = row]
                           \in Editor
    BY <1>0 DEF Editor
  <2> QED BY <1>1, <2>1, <2>2, <2>3, EditorType
             DEF LoadForSave, TableTypeOK, dbVars
<1>2. ASSUME NEW n \in Nodes, LoadForMute(e, n) PROVE TableTypeOK'
  <2>1. PICK muted \in BOOLEAN : editor' = [editor EXCEPT ![e] =
          [IdleEditor EXCEPT !.pc = "mute", !.at = n, !.row.muted = muted]]
    BY <1>2 DEF LoadForMute
  <2>2. [NoRow EXCEPT !.muted = muted] \in Row
    BY <1>0 DEF Row
  <2>3. [IdleEditor EXCEPT !.pc = "mute", !.at = n, !.row.muted = muted]
          \in Editor
    BY <1>0, <2>2 DEF Editor, IdleEditor
  <2> QED BY <1>2, <2>1, <2>3, EditorType
             DEF LoadForMute, TableTypeOK, dbVars
<1>3. ASSUME NEW n \in Nodes, ImportNode(e, n) PROVE TableTypeOK'
  <2>1. editor[e].row \in Row
    BY <1>0 DEF Editor
  <2>2. Written(Linked(NoRow, editor[e].row.routine, editor[e].row.credential))
          \in Row
    BY <1>0, <2>1, RowParts, LinkedType, WrittenType
  <2> QED BY <1>0, <1>3, <2>2, RowType, EditorType, UnseenType
             DEF ImportNode, Create, EditorDone, TableTypeOK
<1>4. CASE SaveNode(e)
  <2>1. editor[e].row \in Row /\ editor[e].stale \in SUBSET Columns
    BY <1>0 DEF Editor
  <2>2. rows' \in [Nodes -> Row]
    BY <1>4, <2>1, WrittenType, RowType DEF SaveNode
  <2>3. editor' \in [Editors -> Editor]
    BY <1>0, <1>4, <2>1, EditorType, OutdateType DEF SaveNode, EditorDone
  <2>4. manager' \in [Managers -> Manager]
    BY <1>4, UnseenType DEF SaveNode, TableTypeOK
  <2>5. forgotten' \subseteq Nodes
    BY <1>4, <2>2 DEF SaveNode, TableTypeOK
  <2> QED BY <1>4, <2>2, <2>3, <2>4, <2>5 DEF SaveNode, TableTypeOK
<1>5. CASE SnoozeNode(e)
  <2>1. editor[e].row.muted \in BOOLEAN
    BY <1>0, RowParts DEF Editor
  <2>2. rows' \in [Nodes -> Row]
    <3> DEFINE n == editor[e].at
    <3>1. ASSUME n \in Nodes
          PROVE  [rows[n] EXCEPT !.muted = editor[e].row.muted] \in Row
      BY <2>1, <3>1 DEF TableTypeOK, Row
    <3> QED BY <1>5, <3>1 DEF SnoozeNode, TableTypeOK
  <2>3. editor' \in [Editors -> Editor]
    BY <1>0, <1>5, EditorType, OutdateType DEF SnoozeNode, EditorDone, Columns
  <2> QED BY <1>5, <2>2, <2>3 DEF SnoozeNode, TableTypeOK
<1>6. CASE ImportCredential(e) \/ ImportRoutine(e)
  <2>1. PICK x \in Editor : editor' = [editor EXCEPT ![e] = x]
    BY <1>0, <1>6 DEF ImportCredential, ImportRoutine, Found, Editor, Row
  <2> QED BY <1>6, <2>1, EditorType
             DEF ImportCredential, ImportRoutine, TableTypeOK, dbVars
<1>7. CASE EditorRefused(e)
  BY <1>0, <1>7, EditorType DEF EditorRefused, EditorDone, TableTypeOK, dbVars
<1> QED BY <1>1, <1>2, <1>3, <1>4, <1>5, <1>6, <1>7 DEF EditorStep

LEMMA ManagerTypeStep ==
  ASSUME TableTypeOK, NEW q \in Managers, ManagerStep(q)
  PROVE  TableTypeOK'
<1>0. IdleManager \in Manager /\ manager[q] \in Manager
  BY IdleTypes DEF TableTypeOK
<1>1. ASSUME NEW x \in Manager, ManagerGoes(q, x) PROVE TableTypeOK'
  BY <1>1, ManagerType DEF ManagerGoes, TableTypeOK, dbVars
<1>2. ASSUME NEW p \in Parents, NEW pc \in {"countNames", "countLinked"},
             LoadParent(q, p, pc)
      PROVE  TableTypeOK'
  <2>1. [IdleManager EXCEPT !.pc = pc, !.at = p] \in Manager
    BY <1>0 DEF Manager
  <2> QED BY <1>1, <1>2, <2>1 DEF LoadParent
<1>3. ASSUME NEW from, NEW to \in {"save", "delete"}, NEW found,
             Count(q, from, to, found)
      PROVE  TableTypeOK'
  <2>1. [manager[q] EXCEPT !.pc = to] \in Manager
    BY <1>0 DEF Manager
  <2>2. Counted(to, manager[q].at) \subseteq Nodes \cup Parents
    BY DEF Counted, Table, Parents
  <2>3. [manager[q] EXCEPT !.pc = to, !.unseen = Counted(to, manager[q].at)]
          \in Manager
    BY <1>0, <2>2 DEF Manager
  <2> QED BY <1>0, <1>1, <1>3, <2>1, <2>3 DEF Count
<1>4. ASSUME NEW from, NEW state \in State, Write(q, from, state)
      PROVE  TableTypeOK'
  <2>1. ManagerDone(q) \in [Managers -> Manager]
    BY <1>0, ManagerType DEF ManagerDone
  <2> QED BY <1>4, <2>1, UnseenType DEF Write, TableTypeOK
<1>5. ASSUME NEW ps \in {Routines, Credentials}, Save(q, ps) \/ Delete(q, ps)
      PROVE  TableTypeOK'
  <2>1. ps \subseteq Parents /\ {"live", "deleted"} \subseteq State
    BY DEF Parents, State
  <2> QED BY <1>2, <1>3, <1>4, <1>5, <2>1 DEF Save, Delete
<1>6. CASE ManagerRefused(q)
  BY <1>0, <1>1, <1>6 DEF ManagerRefused
<1> QED BY <1>5, <1>6 DEF ManagerStep, SaveCredential, SaveRoutine,
                          DeleteCredential, DeleteRoutine

LEMMA FailsType ==
  ASSUME TableTypeOK, NEW w \in Workers, Fails(w)
  PROVE  /\ worker' \in [Workers -> Worker]
         /\ \A v \in Workers : worker'[v].pc = "reload" => worker'[v].key \in Keys
<1> DEFINE x == [worker[w] EXCEPT !.pc = "record", !.outcome = "error"]
<1>1. x \in Worker /\ x.pc # "reload"
  BY DEF TableTypeOK, Worker
<1> QED BY <1>1, WorkerType DEF Fails

LEMMA ConnectedType ==
  ASSUME TableTypeOK, NEW w \in Workers, NEW key \in Keys, Connected(w, key)
  PROVE  /\ worker' \in [Workers -> Worker]
         /\ \A v \in Workers : worker'[v].pc = "reload" => worker'[v].key \in Keys
         /\ trusted' \in [Nodes -> SUBSET Keys]
<1>1. CASE Fails(w) /\ UNCHANGED trusted
  BY <1>1, FailsType DEF TableTypeOK
<1>2. CASE /\ WorkerGoes(w, [worker[w] EXCEPT !.pc = "session", !.key = key])
           /\ trusted' = IF worker[w].at \in forgotten THEN trusted
                ELSE [trusted EXCEPT ![worker[w].at] = @ \cup {key}]
  <2> DEFINE x == [worker[w] EXCEPT !.pc = "session", !.key = key]
  <2>1. x \in Worker /\ x.pc # "reload"
    BY DEF TableTypeOK, Worker
  <2> QED BY <1>2, <2>1, WorkerType DEF TableTypeOK
<1> QED BY <1>1, <1>2 DEF Connected

LEMMA WorkerTypeStep ==
  ASSUME TableTypeOK, NEW w \in Workers, WorkerStep(w)
  PROVE  TableTypeOK'
<1>0. worker[w] \in Worker /\ IdleWorker \in Worker /\ IdleWorker.pc # "reload"
  BY IdleTypes DEF TableTypeOK, IdleWorker
<1>1. ASSUME NEW n \in Nodes, LoadForBackup(w, n) PROVE TableTypeOK'
  <2> DEFINE x == [IdleWorker EXCEPT !.pc = "loaded", !.at = n,
                                     !.key = rows[n].key]
  <2>1. rows[n].key \in Keys \cup {None}
    BY RowParts DEF TableTypeOK
  <2>2. x \in Worker /\ x.pc # "reload"
    BY <1>0, <2>1 DEF Worker
  <2> QED BY <1>1, <2>2, WorkerType DEF LoadForBackup, TableTypeOK, dbVars
<1>2. CASE LockNode(w)
  <2> DEFINE x == [worker[w] EXCEPT !.pc = "dial"]
  <2>1. x \in Worker /\ x.pc # "reload"
    BY <1>0 DEF Worker
  <2> QED BY <1>0, <1>2, <2>1, WorkerType DEF LockNode, TableTypeOK, dbVars
<1>3. CASE DialFails(w)
  BY <1>3, FailsType DEF DialFails, TableTypeOK, dbVars
<1>4. CASE DialKnown(w)
  <2>1. worker[w].key \in Keys
    BY <1>0, <1>4 DEF DialKnown, Worker
  <2> QED BY <1>4, <2>1, ConnectedType DEF DialKnown, Connected, TableTypeOK
<1>5. CASE Reload(w)
  <2>1. worker[w].key \in Keys
    BY <1>5 DEF Reload, TableTypeOK
  <2> QED BY <1>5, <2>1, ConnectedType, FailsType
             DEF Reload, Connected, TableTypeOK
<1>6. ASSUME NEW key \in Keys, DialFirst(w, key) PROVE TableTypeOK'
  <2> DEFINE n == worker[w].at
  <2>1. ASSUME n \in Nodes PROVE [rows[n] EXCEPT !.key = key] \in Row
    BY <2>1 DEF TableTypeOK, Row
  <2>2. rows' \in [Nodes -> Row]
    BY <1>6, <2>1 DEF DialFirst, TableTypeOK
  <2>3. editor' \in [Editors -> Editor]
    BY <1>6, OutdateType DEF DialFirst, TableTypeOK, Columns
  <2> QED BY <1>6, <2>2, <2>3, ConnectedType DEF DialFirst, Connected,
       TableTypeOK
<1>7. ASSUME NEW key \in Keys, AlreadyPinned(w, key) PROVE TableTypeOK'
  <2> DEFINE x == [worker[w] EXCEPT !.pc = "reload", !.key = key]
  <2>1. x \in Worker /\ x.key \in Keys
    BY <1>0 DEF Worker
  <2> QED BY <1>7, <2>1, WorkerType DEF AlreadyPinned, TableTypeOK, dbVars
<1>8. CASE SessionStep(w)
  BY <1>8 DEF SessionStep, TableTypeOK, dbVars
<1>9. CASE PerformBackup(w)
  <2> DEFINE x == [worker[w] EXCEPT !.pc = "record", !.outcome = Outcome(w)]
  <2>1. x \in Worker /\ x.pc # "reload"
    BY <1>0 DEF Worker, Outcome
  <2> QED BY <1>9, <2>1, WorkerType DEF PerformBackup, TableTypeOK, dbVars
<1>10. CASE Record(w)
  <2> DEFINE x == [worker[w] EXCEPT !.pc = "report"]
  <2>1. x \in Worker /\ x.pc # "reload"
    BY <1>0 DEF Worker
  <2>2. records' \in [Nodes -> 0..MaxRecords]
    <3>1. ASSUME NEW n \in Nodes, records[n] < MaxRecords
          PROVE  records[n] + 1 \in 0..MaxRecords
      BY <3>1, NodeInventoryAssumption DEF TableTypeOK
    <3> QED BY <1>10, <3>1 DEF Record, TableTypeOK
  <2> QED BY <1>10, <2>1, <2>2, WorkerType DEF Record, TableTypeOK
<1>11. CASE Report(w)
  <2> DEFINE n == worker[w].at
  <2>1. worker[w].outcome \in {"never", "success", "error"}
    BY <1>0 DEF Worker
  <2>2. ASSUME n \in Nodes
        PROVE  [rows[n] EXCEPT !.report = worker[w].outcome] \in Row
    BY <2>1, <2>2 DEF TableTypeOK, Row
  <2>3. rows' \in [Nodes -> Row]
    BY <1>11, <2>2 DEF Report, TableTypeOK
  <2>4. editor' \in [Editors -> Editor]
    BY <1>11, OutdateType DEF Report, TableTypeOK, Columns
  <2> QED BY <1>0, <1>11, <2>3, <2>4, WorkerType DEF Report, TableTypeOK
<1>12. CASE WorkerFails(w)
  BY <1>0, <1>12, WorkerType DEF WorkerFails, TableTypeOK, dbVars
<1> QED BY <1>1, <1>2, <1>3, <1>4, <1>5, <1>6, <1>7, <1>8, <1>9, <1>10, <1>11,
           <1>12 DEF WorkerStep

LEMMA InventoryTypeStep ==
  ASSUME TableTypeOK, NEW n \in Nodes, SaveNewNode(n) \/ DeleteNode(n)
  PROVE  TableTypeOK'
<1>1. CASE SaveNewNode(n)
  <2>1. PICK r \in Known(Routines), c \in Known(Credentials) : Create(n, r, c)
    BY <1>1 DEF SaveNewNode
  <2>2. Written(Linked(NoRow, r, c)) \in Row
    BY IdleTypes, LinkedType, WrittenType DEF Known
  <2> QED BY <1>1, <2>1, <2>2, RowType, UnseenType
             DEF SaveNewNode, Create, TableTypeOK
<1>2. CASE DeleteNode(n)
  <2>1. [rows[n] EXCEPT !.state = "deleted"] \in Row
    BY DEF TableTypeOK, Row, State
  <2>2. editor' \in [Editors -> Editor]
    BY <1>2, OutdateType DEF DeleteNode, TableTypeOK, Columns
  <2>3. records' \in [Nodes -> 0..MaxRecords]
    BY <1>2, NodeInventoryAssumption DEF DeleteNode, RecordsLeft, TableTypeOK
  <2> QED BY <1>2, <2>1, <2>2, <2>3, RowType DEF DeleteNode, TableTypeOK
<1> QED BY <1>1, <1>2

LEMMA RestartType == TableTypeOK /\ Restart => TableTypeOK'
BY IdleTypes DEF Restart, TableTypeOK, dbVars, IdleWorker

(* The handlers and the backup do no more with a session than what         *)
(* DeviceSession provides for.                                             *)
LEMMA SessionsFollow == [Next]_vars => SessionNext \/ UNCHANGED sessionVars
<1> SUFFICES ASSUME [Next]_vars PROVE SessionNext \/ UNCHANGED sessionVars
  OBVIOUS
<1>1. ASSUME NEW n \in Nodes, SaveNewNode(n) \/ DeleteNode(n)
      PROVE  UNCHANGED sessionVars
  BY <1>1 DEF SaveNewNode, Create, DeleteNode
<1>2. ASSUME NEW e \in Editors, EditorStep(e) PROVE UNCHANGED sessionVars
  BY <1>2 DEF EditorStep, LoadForSave, LoadForMute, ImportNode, Create,
       SaveNode,
              SnoozeNode, ImportCredential, ImportRoutine, EditorRefused
<1>3. ASSUME NEW q \in Managers, ManagerStep(q) PROVE UNCHANGED sessionVars
  BY <1>3 DEF ManagerStep, SaveCredential, SaveRoutine, DeleteCredential,
              DeleteRoutine, Save, Delete, LoadParent, Count, Write,
              ManagerRefused, ManagerGoes
<1>4. ASSUME NEW w \in Workers, WorkerStep(w)
      PROVE  SessionNext \/ UNCHANGED sessionVars
  <2>1. ASSUME NEW key, Connected(w, key)
        PROVE  SessionNext \/ UNCHANGED sessionVars
    BY <2>1 DEF Connected, SessionNext
  <2>2. CASE SessionStep(w) \/ PerformBackup(w)
    BY <2>2 DEF SessionStep, PerformBackup, SessionNext
  <2>3. CASE DialKnown(w) \/ Reload(w) \/ \E key \in Keys : DialFirst(w, key)
    BY <2>1, <2>3 DEF DialKnown, Reload, DialFirst
  <2>4. CASE \/ \E n \in Nodes : LoadForBackup(w, n)
             \/ LockNode(w) \/ DialFails(w) \/ Record(w) \/ Report(w)
             \/ WorkerFails(w) \/ \E key \in Keys : AlreadyPinned(w, key)
    BY <2>4 DEF LoadForBackup, LockNode, DialFails, Record, Report, WorkerFails,
                AlreadyPinned
  <2> QED BY <1>4, <2>2, <2>3, <2>4 DEF WorkerStep
<1>5. CASE Restart
  BY <1>5 DEF Restart, SessionNext, SessionsLost
<1>6. CASE UNCHANGED vars
  BY <1>6 DEF vars
<1> QED BY <1>1, <1>2, <1>3, <1>4, <1>5, <1>6 DEF Next

LEMMA TypeStep == TypeInv /\ [Next]_vars => TypeInv'
<1> SUFFICES ASSUME TypeInv, [Next]_vars PROVE TypeInv'
  OBVIOUS
<1>1. SessionInv'
  BY SessionsFollow, SessionInvStep, SessionInvStutter DEF TypeInv
<1>2. ASSUME UNCHANGED vars PROVE TableTypeOK'
  BY <1>2 DEF vars, dbVars, TypeInv, TableTypeOK
<1>3. ASSUME Next PROVE TableTypeOK'
  BY <1>3, EditorTypeStep, ManagerTypeStep, WorkerTypeStep, InventoryTypeStep,
     RestartType DEF Next, TypeInv
<1> QED BY <1>1, <1>2, <1>3 DEF TypeInv

LEMMA TypeInvariant == Spec => []TypeInv
BY TypeInit, TypeStep, PTL DEF Spec

(* Every handler, every backup and every session keeps types.              *)
THEOREM TypeCorrect == Spec => []InventoryTypeOK
<1>1. TypeInv => InventoryTypeOK
  BY DEF TypeInv, TableTypeOK, SessionInv, InventoryTypeOK
<1> QED BY <1>1, TypeInvariant, PTL

(* However the backups go, a text that comes back is all that the device   *)
(* had sent when it hung up or had been silent for a period.               *)
THEOREM RefinesTranscript == Spec => ImplementsTranscript
<1>1. TypeInv /\ [Next]_vars => [Promise!Next]_(Promise!lineVars)
  <2> SUFFICES ASSUME TypeInv, [Next]_vars
               PROVE  Promise!Next \/ UNCHANGED Promise!lineVars
    OBVIOUS
  <2>1. CASE SessionNext
    BY <2>1, SessionRefines DEF TypeInv, Seen, Promise!lineVars
  <2>2. CASE UNCHANGED sessionVars
    BY <2>2 DEF sessionVars, Promise!lineVars
  <2> QED BY <2>1, <2>2, SessionsFollow
<1>2. Init => Promise!Init
  BY SessionRefinesInit DEF Init
<1> QED BY <1>1, <1>2, TypeInvariant, PTL
           DEF Spec, ImplementsTranscript, Promise!Spec

-----------------------------------------------------------------------------
(* What a handler that saves a node has in hand agrees with the row in the *)
(* columns that nobody has written since.                                  *)
Fresh(e) ==
  LET n == editor[e].at IN
  /\ n \in Nodes /\ rows[n].state # "none"
  /\ editor[e].row.state = "live"
  /\ \A col \in Columns \ editor[e].stale : editor[e].row[col] = rows[n][col]

EditorInv == \A e \in Editors : editor[e].pc = "save" => Fresh(e)

(* A step that writes rows marks what it has changed as stale.             *)
LEMMA FreshKept ==
  ASSUME TableTypeOK, EditorInv,
         NEW editors \in [Editors -> Editor],
         \A e \in Editors : editors[e].pc = "save" => editors[e] = editor[e],
         NEW n, NEW columns \in SUBSET Columns,
         editor' = Outdate(editors, n, columns),
         \A m \in Nodes : /\ rows[m].state # "none" => rows'[m].state # "none"
                          /\ m # n => rows'[m] = rows[m],
         n \in Nodes => \A col \in Columns \ columns : rows'[n][col] = rows[n][col]
  PROVE  EditorInv'
<1> SUFFICES ASSUME NEW e \in Editors, editor'[e].pc = "save" PROVE Fresh(e)'
  BY DEF EditorInv
<1>1. CASE editors[e].pc = "save" /\ editors[e].at = n
  <2>1. editor'[e] = [editors[e] EXCEPT !.stale = @ \cup columns]
    BY <1>1 DEF Outdate
  <2>2. /\ editors[e] = editor[e] /\ Fresh(e) /\ editors[e] \in Editor
    BY <1>1 DEF EditorInv
  <2>3. /\ editor'[e].at = editor[e].at /\ editor'[e].row = editor[e].row
        /\ editor'[e].stale = editor[e].stale \cup columns
    BY <2>1, <2>2 DEF Editor
  <2> QED BY <1>1, <2>2, <2>3 DEF Fresh
<1>2. CASE ~(editors[e].pc = "save" /\ editors[e].at = n)
  <2>1. editor'[e] = editors[e]
    BY <1>2 DEF Outdate
  <2>2. editors[e] = editor[e] /\ Fresh(e) /\ editor[e].at # n
    BY <1>2, <2>1 DEF EditorInv
  <2> QED BY <2>1, <2>2 DEF Fresh
<1> QED BY <1>1, <1>2

LEMMA EditorInvStep == TableTypeOK /\ EditorInv /\ [Next]_vars => EditorInv'
<1> SUFFICES ASSUME TableTypeOK, EditorInv, [Next]_vars PROVE EditorInv'
  OBVIOUS
<1>0. /\ \A e \in Editors : editor[e] \in Editor
      /\ IdleEditor \in Editor /\ IdleEditor.pc = "idle"
  BY IdleTypes DEF TableTypeOK, IdleEditor
<1>1. ASSUME NEW e \in Editors
      PROVE  /\ EditorDone(e) \in [Editors -> Editor]
             /\ \A f \in Editors : EditorDone(e)[f].pc = "save"
                                     => EditorDone(e)[f] = editor[f]
  BY <1>0 DEF EditorDone, TableTypeOK
<1>2. ASSUME UNCHANGED rows, NEW e \in Editors, NEW x,
             editor' = [editor EXCEPT ![e] = x], x.pc # "save"
      PROVE  EditorInv'
  BY <1>2 DEF EditorInv, Fresh, TableTypeOK
<1>3. ASSUME UNCHANGED editor,
             \A m \in Nodes : rows[m].state # "none" => rows'[m] = rows[m]
      PROVE  EditorInv'
  BY <1>3 DEF EditorInv, Fresh
<1>4. ASSUME NEW e \in Editors, EditorStep(e) PROVE EditorInv'
  <2>1. ASSUME NEW n \in Nodes, LoadForSave(e, n) PROVE EditorInv'
    <3>1. PICK r \in Known(Routines), c \in Known(Credentials) :
            editor' = [editor EXCEPT ![e] =
              [IdleEditor EXCEPT !.pc = "save", !.at = n,
                                 !.row = Linked(rows[n], r, c)]]
      BY <2>1 DEF LoadForSave
    <3>2. \A col \in Columns : Linked(rows[n], r, c)[col] = rows[n][col]
      <4>1. /\ rows[n] \in Row /\ r \in Routines \cup {None}
            /\ c \in Credentials \cup {None}
        BY DEF TableTypeOK, Known
      <4> QED BY <4>1, LinkedType
    <3>3. /\ editor'[e].at = n /\ editor'[e].row = Linked(rows[n], r, c)
          /\ UNCHANGED rows /\ rows[n].state = "live"
      BY <2>1, <3>1 DEF LoadForSave, dbVars, Live, TableTypeOK, IdleEditor
    <3>4. Linked(rows[n], r, c).state = "live"
      BY <3>2, <3>3 DEF Columns
    <3>5. Fresh(e)'
      BY <3>2, <3>3, <3>4 DEF Fresh
    <3> QED BY <3>1, <3>3, <3>5 DEF EditorInv, Fresh, TableTypeOK
  <2>2. ASSUME NEW n \in Nodes, LoadForMute(e, n) PROVE EditorInv'
    <3>1. PICK muted \in BOOLEAN : editor' = [editor EXCEPT ![e] =
            [IdleEditor EXCEPT !.pc = "mute", !.at = n, !.row.muted = muted]]
      BY <2>2 DEF LoadForMute
    <3>2. [IdleEditor EXCEPT !.pc = "mute", !.at = n, !.row.muted = muted].pc
            = "mute"
      BY DEF IdleEditor
    <3> QED BY <1>2, <2>2, <3>1, <3>2 DEF LoadForMute, dbVars
  <2>3. ASSUME NEW n \in Nodes, ImportNode(e, n) PROVE EditorInv'
    <3>1. \A m \in Nodes : rows[m].state # "none" => rows'[m] = rows[m]
      BY <2>3 DEF ImportNode, Create, TableTypeOK
    <3> QED BY <1>0, <2>3, <3>1
               DEF ImportNode, EditorDone, EditorInv, Fresh, TableTypeOK
  <2>4. CASE SaveNode(e)
    <3> DEFINE n == editor[e].at
    <3>1. editor[e].row \in Row /\ editor[e].stale \in SUBSET Columns
      BY <1>0 DEF Editor
    <3>2. n \in Nodes /\ Fresh(e) /\ rows' = [rows EXCEPT ![n] = Written(editor[e].row)]
      BY <2>4 DEF SaveNode, EditorInv, Fresh
    <3>3. /\ rows'[n] = Written(editor[e].row) /\ rows'[n].state = "live"
          /\ \A col \in Columns : rows'[n][col] = editor[e].row[col]
      BY <3>1, <3>2, WrittenType DEF Fresh, TableTypeOK, Columns
    <3>4. \A m \in Nodes : /\ rows[m].state # "none" => rows'[m].state # "none"
                           /\ m # n => rows'[m] = rows[m]
      BY <3>2, <3>3 DEF TableTypeOK
    <3>5. \A col \in Columns \ editor[e].stale : rows'[n][col] = rows[n][col]
      BY <3>2, <3>3 DEF Fresh
    <3>6. editor' = Outdate(EditorDone(e), n, editor[e].stale)
      BY <2>4 DEF SaveNode
    <3> QED BY <1>1, <3>1, <3>4, <3>5, <3>6, FreshKept
  <2>5. CASE SnoozeNode(e)
    <3> DEFINE n == editor[e].at
    <3>1. {"muted"} \in SUBSET Columns
      BY DEF Columns
    <3>2. \A m \in Nodes : /\ rows[m].state # "none" => rows'[m].state # "none"
                           /\ m # n => rows'[m] = rows[m]
      BY <2>5 DEF SnoozeNode, TableTypeOK, Row
    <3>3. n \in Nodes =>
            \A col \in Columns \ {"muted"} : rows'[n][col] = rows[n][col]
      BY <2>5 DEF SnoozeNode, TableTypeOK, Row, Columns
    <3>4. editor' = Outdate(EditorDone(e), n, {"muted"})
      BY <2>5 DEF SnoozeNode
    <3> QED BY <1>1, <3>1, <3>2, <3>3, <3>4, FreshKept
  <2>6. CASE ImportCredential(e) \/ ImportRoutine(e)
    <3>1. PICK x : editor' = [editor EXCEPT ![e] = x] /\ x.pc # "save"
      BY <1>0, <2>6 DEF ImportCredential, ImportRoutine, Editor
    <3> QED BY <1>2, <2>6, <3>1 DEF ImportCredential, ImportRoutine, dbVars
  <2>7. CASE EditorRefused(e)
    BY <1>0, <1>2, <2>7 DEF EditorRefused, EditorDone, dbVars
  <2> QED BY <1>4, <2>1, <2>2, <2>3, <2>4, <2>5, <2>6, <2>7 DEF EditorStep
<1>5. ASSUME NEW q \in Managers, ManagerStep(q) PROVE EditorInv'
  <2>1. UNCHANGED <<rows, editor>>
    BY <1>5 DEF ManagerStep, SaveCredential, SaveRoutine, DeleteCredential,
                DeleteRoutine, Save, Delete, LoadParent, Count, Write,
                ManagerRefused, ManagerGoes, dbVars
  <2> QED BY <1>3, <2>1
<1>6. ASSUME NEW w \in Workers, WorkerStep(w) PROVE EditorInv'
  <2> DEFINE n == worker[w].at
  <2>0. /\ {"key"} \in SUBSET Columns /\ {"report"} \in SUBSET Columns
        /\ editor \in [Editors -> Editor]
    BY DEF Columns, TableTypeOK
  <2>1. ASSUME NEW key \in Keys, DialFirst(w, key) PROVE EditorInv'
    <3>1. \A m \in Nodes : /\ rows[m].state # "none" => rows'[m].state # "none"
                           /\ m # n => rows'[m] = rows[m]
      BY <2>1 DEF DialFirst, TableTypeOK, Row
    <3>2. n \in Nodes =>
            \A col \in Columns \ {"key"} : rows'[n][col] = rows[n][col]
      BY <2>1 DEF DialFirst, TableTypeOK, Row, Columns
    <3>3. editor' = Outdate(editor, n, {"key"})
      BY <2>1 DEF DialFirst
    <3> QED BY <2>0, <3>1, <3>2, <3>3, FreshKept
  <2>2. CASE Report(w)
    <3>1. \A m \in Nodes : /\ rows[m].state # "none" => rows'[m].state # "none"
                           /\ m # n => rows'[m] = rows[m]
      BY <2>2 DEF Report, TableTypeOK, Row
    <3>2. n \in Nodes =>
            \A col \in Columns \ {"report"} : rows'[n][col] = rows[n][col]
      BY <2>2 DEF Report, TableTypeOK, Row, Columns
    <3>3. editor' = Outdate(editor, n, {"report"})
      BY <2>2 DEF Report
    <3> QED BY <2>0, <3>1, <3>2, <3>3, FreshKept
  <2>3. ASSUME ~Report(w), \A key \in Keys : ~DialFirst(w, key)
        PROVE  UNCHANGED <<rows, editor>>
    BY <1>6, <2>3 DEF WorkerStep, LoadForBackup, LockNode, DialFails, DialKnown,
         Reload, AlreadyPinned, SessionStep, PerformBackup, Record, WorkerFails,
         dbVars
  <2> QED BY <1>3, <2>1, <2>2, <2>3
<1>7. ASSUME NEW n \in Nodes, SaveNewNode(n) PROVE EditorInv'
  <2>1. \A m \in Nodes : rows[m].state # "none" => rows'[m] = rows[m]
    BY <1>7 DEF SaveNewNode, Create, TableTypeOK
  <2> QED BY <1>3, <1>7, <2>1 DEF SaveNewNode
<1>8. ASSUME NEW n \in Nodes, DeleteNode(n) PROVE EditorInv'
  <2>1. {"state"} \in SUBSET Columns /\ editor \in [Editors -> Editor]
    BY DEF Columns, TableTypeOK
  <2>2. \A m \in Nodes : /\ rows[m].state # "none" => rows'[m].state # "none"
                         /\ m # n => rows'[m] = rows[m]
    BY <1>8 DEF DeleteNode, TableTypeOK, Row
  <2>3. \A col \in Columns \ {"state"} : rows'[n][col] = rows[n][col]
    BY <1>8 DEF DeleteNode, TableTypeOK, Row, Columns
  <2> QED BY <1>8, <2>1, <2>2, <2>3, FreshKept DEF DeleteNode
<1>9. CASE Restart
  BY <1>0, <1>9 DEF Restart, EditorInv
<1>10. CASE UNCHANGED vars
  BY <1>3, <1>10 DEF vars, dbVars
<1> QED BY <1>4, <1>5, <1>6, <1>7, <1>8, <1>9, <1>10 DEF Next

LEMMA EditorInvariant == Spec => []EditorInv
<1>1. Init => EditorInv
  BY DEF Init, IdleProcesses, IdleEditor, EditorInv
<1>2. TypeInv => TableTypeOK
  BY DEF TypeInv
<1> QED BY <1>1, <1>2, EditorInvStep, TypeInvariant, PTL DEF Spec

-----------------------------------------------------------------------------
LEMMA WritesStep ==
  ASSUME TableTypeOK, EditorInv, Next, NEW n \in Nodes, NEW col \in Columns,
         rows[n].state # "none", rows'[n][col] # rows[n][col]
  PROVE  Owned(n, col) \/ SavedOver(n, col)
<1>0. IdleEditor.pc = "idle" /\ IdleWorker.pc = "idle"
  BY DEF IdleEditor, IdleWorker
<1>1. ASSUME NEW e \in Editors, SaveNode(e) PROVE SavedOver(n, col)
  <2>1. /\ editor[e].pc = "save" /\ Fresh(e) /\ editor[e].row \in Row
        /\ rows' = [rows EXCEPT ![editor[e].at] = Written(editor[e].row)]
    BY <1>1 DEF SaveNode, EditorInv, TableTypeOK, Editor
  <2>2. editor[e].at = n /\ rows'[n] = Written(editor[e].row)
    BY <2>1 DEF TableTypeOK
  <2>3. Written(editor[e].row)[col] = editor[e].row[col]
    BY <2>1, WrittenType DEF Fresh, Columns
  <2>4. col \in editor[e].stale
    BY <2>1, <2>2, <2>3 DEF Fresh
  <2>5. editor'[e] = IdleEditor
    BY <1>0, <1>1 DEF SaveNode, EditorDone, Outdate, TableTypeOK
  <2> QED BY <1>0, <2>1, <2>2, <2>4, <2>5 DEF SavedOver
<1>2. ASSUME NEW e \in Editors, SnoozeNode(e) PROVE Owned(n, col)
  <2>1. editor[e].at = n /\ col = "muted"
    BY <1>2 DEF SnoozeNode, TableTypeOK, Row, Columns
  <2>2. editor'[e] = IdleEditor /\ editor[e].pc = "mute"
    BY <1>0, <1>2 DEF SnoozeNode, EditorDone, Outdate, TableTypeOK
  <2>3. Acts(editor, editor', "mute", n)
    BY <1>0, <2>1, <2>2 DEF Acts, TableTypeOK
  <2> QED BY <2>1, <2>3 DEF Owned
<1>3. ASSUME NEW w \in Workers, NEW key \in Keys, DialFirst(w, key)
      PROVE  Owned(n, col)
  <2>1. worker[w].at = n /\ col = "key"
    BY <1>3 DEF DialFirst, TableTypeOK, Row, Columns
  <2>2. worker[w].pc = "dial" /\ rows[n].key = None /\ Connected(w, key)
    BY <1>3, <2>1 DEF DialFirst, Pinnable
  <2>3. worker'[w].pc # "dial"
    BY <2>2 DEF Connected, Fails, WorkerGoes, TableTypeOK, Worker
  <2>4. Acts(worker, worker', "dial", n)
    BY <2>1, <2>2, <2>3 DEF Acts, TableTypeOK
  <2> QED BY <2>1, <2>2, <2>4 DEF Owned
<1>4. ASSUME NEW w \in Workers, Report(w) PROVE Owned(n, col)
  <2>1. worker[w].at = n /\ col = "report"
    BY <1>4 DEF Report, TableTypeOK, Row, Columns
  <2>2. worker[w].pc = "report" /\ worker'[w] = IdleWorker
    BY <1>4 DEF Report, WorkerGoes, TableTypeOK
  <2>3. Acts(worker, worker', "report", n)
    BY <1>0, <2>1, <2>2 DEF Acts, TableTypeOK
  <2> QED BY <2>1, <2>3 DEF Owned
<1>5. ASSUME NEW m \in Nodes, DeleteNode(m) PROVE Owned(n, col)
  <2>1. m = n /\ col = "state" /\ rows'[n].state = "deleted"
    BY <1>5 DEF DeleteNode, TableTypeOK, Row, Columns
  <2> QED BY <2>1 DEF Owned
<1>6. ASSUME NEW m \in Nodes,
             SaveNewNode(m) \/ \E e \in Editors : ImportNode(e, m)
      PROVE  FALSE
  BY <1>6 DEF SaveNewNode, ImportNode, Create, TableTypeOK
<1>7. ASSUME NEW e \in Editors, EditorStep(e), ~SaveNode(e), ~SnoozeNode(e)
      PROVE  FALSE
  <2>1. UNCHANGED rows
    BY <1>6, <1>7 DEF EditorStep, LoadForSave, LoadForMute, ImportCredential,
                      ImportRoutine, EditorRefused, dbVars
  <2> QED BY <2>1
<1>8. ASSUME NEW q \in Managers, ManagerStep(q) PROVE FALSE
  <2>1. UNCHANGED rows
    BY <1>8 DEF ManagerStep, SaveCredential, SaveRoutine, DeleteCredential,
                DeleteRoutine, Save, Delete, LoadParent, Count, Write,
                ManagerRefused, ManagerGoes, dbVars
  <2> QED BY <2>1
<1>9. ASSUME NEW w \in Workers, WorkerStep(w), ~Report(w),
             \A key \in Keys : ~DialFirst(w, key)
      PROVE  FALSE
  <2>1. UNCHANGED rows
    BY <1>9 DEF WorkerStep, LoadForBackup, LockNode, DialFails, DialKnown,
         Reload, AlreadyPinned, SessionStep, PerformBackup, Record, WorkerFails,
         dbVars
  <2> QED BY <2>1
<1>10. ~Restart
  BY DEF Restart, dbVars
<1> QED BY <1>1, <1>2, <1>3, <1>4, <1>5, <1>6, <1>7, <1>8, <1>9, <1>10 DEF Next

(* What another has written to a node is undone by a stale SaveNode only.  *)
THEOREM WritesAreKept == Spec => WritesKept
<1> DEFINE Kept == \A n \in Nodes, col \in Columns :
             rows[n].state # "none" /\ rows'[n][col] # rows[n][col] =>
               Owned(n, col) \/ SavedOver(n, col)
<1>1. TypeInv /\ EditorInv /\ [Next]_vars => [Kept]_vars
  BY WritesStep DEF TypeInv
<1>2. WritesKept <=> [][Kept]_vars
  BY DEF WritesKept
<1> HIDE DEF Kept
<1> QED BY <1>1, <1>2, TypeInvariant, EditorInvariant, PTL DEF Spec

-----------------------------------------------------------------------------
(* A row written since a handler counted is in its history.                *)
Accounted(r) ==
  /\ r.pc = "save" => Namesakes(r.at) \subseteq r.unseen
  /\ r.pc = "delete" => LinkedNodes(r.at) \subseteq r.unseen

ManagerInv == \A q \in Managers : Accounted(manager[q])

LEMMA AccountedKept ==
  ASSUME TableTypeOK, ManagerInv, NEW managers \in [Managers -> Manager],
         \A q \in Managers : managers[q].pc = "idle" \/ managers[q] = manager[q],
         NEW x, manager' = Unseen(managers, x),
         \A p \in Parents : p # x => parents'[p] = parents[p],
         \A n \in Nodes : n # x => rows'[n] = rows[n]
  PROVE  ManagerInv'
<1> SUFFICES ASSUME NEW q \in Managers PROVE Accounted(manager[q])'
  BY DEF ManagerInv
<1> DEFINE r == manager'[q]
           u == managers[q]
<1>0. u \in Manager
  OBVIOUS
<1>1. CASE x \in Counted(u.pc, u.at)
  <2>1. r = [u EXCEPT !.unseen = @ \cup {x}]
    BY <1>1 DEF Unseen
  <2>2. r.pc = u.pc /\ r.at = u.at /\ r.unseen = u.unseen \cup {x}
    BY <1>0, <2>1 DEF Manager
  <2>3. u.pc # "idle" => u = manager[q] /\ Accounted(u)
    BY DEF ManagerInv
  <2>4. ASSUME u.pc = "save" PROVE Namesakes(u.at)' \subseteq u.unseen \cup {x}
    BY <2>3, <2>4 DEF Accounted, Namesakes, Table, Parents
  <2>5. ASSUME u.pc = "delete" PROVE LinkedNodes(u.at)' \subseteq u.unseen \cup {x}
    BY <2>3, <2>5 DEF Accounted, LinkedNodes
  <2> QED BY <2>2, <2>4, <2>5 DEF Accounted, Namesakes, LinkedNodes
<1>2. CASE x \notin Counted(u.pc, u.at)
  <2>1. r = u
    BY <1>2 DEF Unseen
  <2>2. u.pc # "idle" => u = manager[q] /\ Accounted(u)
    BY DEF ManagerInv
  <2>3. ASSUME u.pc = "save" PROVE Namesakes(u.at)' \subseteq u.unseen
    BY <1>2, <2>2, <2>3 DEF Counted, Accounted, Namesakes, Table, Parents
  <2>4. ASSUME u.pc = "delete" PROVE LinkedNodes(u.at)' \subseteq u.unseen
    BY <1>2, <2>2, <2>4 DEF Counted, Accounted, LinkedNodes
  <2> QED BY <2>1, <2>3, <2>4 DEF Accounted, Namesakes, LinkedNodes
<1> QED BY <1>1, <1>2

(* The other steps neither give a name nor link a node.                    *)
LEMMA NobodyCounted ==
  ASSUME ManagerInv, UNCHANGED <<parents, manager>>,
         \A n \in Nodes, p \in Parents \cup {None} : Uses(rows'[n], p) => Uses(rows[n], p),
         TableTypeOK
  PROVE  ManagerInv'
<1> SUFFICES ASSUME NEW q \in Managers PROVE Accounted(manager[q])'
  BY DEF ManagerInv, Accounted
<1>1. manager[q].at \in Parents \cup {None} /\ Accounted(manager[q])
  BY DEF TableTypeOK, Manager, ManagerInv
<1> QED BY <1>1 DEF Accounted, Namesakes, LinkedNodes

LEMMA ManagerInvStep == TableTypeOK /\ ManagerInv /\ [Next]_vars => ManagerInv'
<1> SUFFICES ASSUME TableTypeOK, ManagerInv, [Next]_vars PROVE ManagerInv'
  OBVIOUS
<1>0. /\ manager \in [Managers -> Manager]
      /\ IdleManager \in Manager /\ IdleManager.pc = "idle"
  BY IdleTypes DEF TableTypeOK, IdleManager
<1>1. ASSUME UNCHANGED <<rows, parents, manager>> PROVE ManagerInv'
  BY <1>1, NobodyCounted
<1>2. ASSUME NEW n, NEW row, manager' = Unseen(manager, n), UNCHANGED parents,
             rows' = [rows EXCEPT ![n] = row]
      PROVE  ManagerInv'
  BY <1>0, <1>2, AccountedKept DEF TableTypeOK
<1>3. ASSUME NEW n, NEW row, rows' = [rows EXCEPT ![n] = row],
             row.state = rows[n].state \/ row.state = "deleted",
             row.routine = rows[n].routine, row.credential = rows[n].credential,
             UNCHANGED <<parents, manager>>
      PROVE  ManagerInv'
  <2>1. \A m \in Nodes, p \in Parents \cup {None} :
          Uses(rows'[m], p) => Uses(rows[m], p)
    BY <1>3 DEF Uses, TableTypeOK
  <2> QED BY <1>3, <2>1, NobodyCounted
<1>4. ASSUME NEW q \in Managers, ManagerStep(q) PROVE ManagerInv'
  <2>0. manager[q] \in Manager
    BY <1>0
  <2>1. ASSUME NEW x, Accounted(x), ManagerGoes(q, x) PROVE ManagerInv'
    BY <1>0, <2>1 DEF ManagerGoes, ManagerInv, Accounted, Namesakes,
         LinkedNodes,
                      dbVars
  <2>2. ASSUME NEW x, ManagerGoes(q, x), x.pc \notin {"save", "delete"}
        PROVE  ManagerInv'
    BY <2>1, <2>2 DEF Accounted
  <2>3. ASSUME NEW p, NEW pc \in {"countNames", "countLinked"}, LoadParent(q, p, pc)
        PROVE  ManagerInv'
    BY <2>2, <2>3 DEF LoadParent, IdleManager
  <2>4. ASSUME NEW from, NEW to, NEW found, Count(q, from, to, found),
               \/ to = "save" /\ found = Namesakes(manager[q].at)
               \/ to = "delete" /\ found = LinkedNodes(manager[q].at)
        PROVE  ManagerInv'
    <3> DEFINE x == [manager[q] EXCEPT !.pc = to]
               y == [manager[q] EXCEPT !.pc = to,
                                       !.unseen = Counted(to, manager[q].at)]
    <3>1. ASSUME found = {} PROVE Accounted(x)
      <4>1. x.pc = to /\ x.at = manager[q].at
        BY <2>0 DEF Manager
      <4> QED BY <2>4, <3>1, <4>1 DEF Accounted
    <3>2. Accounted(y)
      <4>1. y.pc = to /\ y.at = manager[q].at /\ y.unseen = Counted(to, y.at)
        BY <2>0 DEF Manager
      <4>2. Namesakes(y.at) \subseteq Counted("save", y.at)
        BY DEF Namesakes, Counted
      <4>3. LinkedNodes(y.at) \subseteq Counted("delete", y.at)
        BY DEF LinkedNodes, Counted
      <4> QED BY <2>4, <4>1, <4>2, <4>3 DEF Accounted
    <3>3. Accounted(IdleManager)
      BY <1>0 DEF Accounted
    <3> QED BY <2>1, <2>4, <3>1, <3>2, <3>3 DEF Count
  <2>5. ASSUME NEW from, NEW state, Write(q, from, state) PROVE ManagerInv'
    <3> DEFINE p == manager[q].at
    <3>1. /\ ManagerDone(q) \in [Managers -> Manager]
          /\ \A r \in Managers : \/ ManagerDone(q)[r].pc = "idle"
                                \/ ManagerDone(q)[r] = manager[r]
      BY <1>0 DEF ManagerDone
    <3>2. \A o \in Parents : o # p => parents'[o] = parents[o]
      BY <2>5 DEF Write, TableTypeOK
    <3>3. UNCHANGED rows /\ manager' = Unseen(ManagerDone(q), p)
      BY <2>5 DEF Write
    <3> QED BY <3>1, <3>2, <3>3, AccountedKept
  <2>6. ASSUME NEW ps, Save(q, ps) PROVE ManagerInv'
    BY <2>3, <2>4, <2>5, <2>6 DEF Save
  <2>7. ASSUME NEW ps, Delete(q, ps) PROVE ManagerInv'
    BY <2>3, <2>4, <2>5, <2>7 DEF Delete
  <2>8. CASE ManagerRefused(q)
    BY <1>0, <2>2, <2>8 DEF ManagerRefused
  <2> QED BY <1>4, <2>6, <2>7, <2>8 DEF ManagerStep, SaveCredential,
       SaveRoutine,
                                        DeleteCredential, DeleteRoutine
<1>5. ASSUME NEW e \in Editors, EditorStep(e) PROVE ManagerInv'
  <2>1. CASE SaveNode(e)
    BY <1>2, <2>1 DEF SaveNode
  <2>2. ASSUME NEW n \in Nodes, ImportNode(e, n) PROVE ManagerInv'
    BY <1>2, <2>2 DEF ImportNode, Create
  <2>3. CASE SnoozeNode(e)
    <3> DEFINE n == editor[e].at
               row == [rows[n] EXCEPT !.muted = editor[e].row.muted]
    <3>1. ASSUME n \in Nodes
          PROVE  /\ row.state = rows[n].state /\ row.routine = rows[n].routine
                 /\ row.credential = rows[n].credential
      BY <3>1 DEF TableTypeOK, Row
    <3>2. ASSUME n \notin Nodes PROVE UNCHANGED rows
      BY <2>3, <3>2 DEF SnoozeNode, TableTypeOK
    <3>3. rows' = [rows EXCEPT ![n] = row] \/ UNCHANGED rows
      BY <2>3 DEF SnoozeNode
    <3>4. UNCHANGED <<parents, manager>>
      BY <2>3 DEF SnoozeNode
    <3> HIDE DEF row
    <3> QED BY <1>1, <1>3, <3>1, <3>2, <3>3, <3>4
  <2>4. ASSUME ~SaveNode(e), ~SnoozeNode(e), \A n \in Nodes : ~ImportNode(e, n)
        PROVE  UNCHANGED <<rows, parents, manager>>
    BY <1>5, <2>4 DEF EditorStep, LoadForSave, LoadForMute, ImportCredential,
                      ImportRoutine, EditorRefused, dbVars
  <2> QED BY <1>1, <2>1, <2>2, <2>3, <2>4
<1>6. ASSUME NEW w \in Workers, WorkerStep(w) PROVE ManagerInv'
  <2> DEFINE n == worker[w].at
  <2>1. ASSUME NEW key \in Keys, DialFirst(w, key) PROVE ManagerInv'
    <3> DEFINE row == [rows[n] EXCEPT !.key = key]
    <3>1. ASSUME n \in Nodes
          PROVE  /\ row.state = rows[n].state /\ row.routine = rows[n].routine
                 /\ row.credential = rows[n].credential
      BY <3>1 DEF TableTypeOK, Row
    <3>2. ASSUME n \notin Nodes PROVE UNCHANGED rows
      BY <2>1, <3>2 DEF DialFirst, TableTypeOK
    <3>3. rows' = [rows EXCEPT ![n] = row]
      BY <2>1 DEF DialFirst
    <3>4. UNCHANGED <<parents, manager>>
      BY <2>1 DEF DialFirst, Connected
    <3> HIDE DEF row
    <3> QED BY <1>1, <1>3, <3>1, <3>2, <3>3, <3>4
  <2>2. CASE Report(w)
    <3> DEFINE row == [rows[n] EXCEPT !.report = worker[w].outcome]
    <3>1. ASSUME n \in Nodes
          PROVE  /\ row.state = rows[n].state /\ row.routine = rows[n].routine
                 /\ row.credential = rows[n].credential
      BY <3>1 DEF TableTypeOK, Row
    <3>2. ASSUME n \notin Nodes PROVE UNCHANGED rows
      BY <2>2, <3>2 DEF Report, TableTypeOK
    <3>3. rows' = [rows EXCEPT ![n] = row] \/ UNCHANGED rows
      BY <2>2 DEF Report
    <3>4. UNCHANGED <<parents, manager>>
      BY <2>2 DEF Report
    <3> HIDE DEF row
    <3> QED BY <1>1, <1>3, <3>1, <3>2, <3>3, <3>4
  <2>3. ASSUME ~Report(w), \A key \in Keys : ~DialFirst(w, key)
        PROVE  UNCHANGED <<rows, parents, manager>>
    BY <1>6, <2>3 DEF WorkerStep, LoadForBackup, LockNode, DialFails, DialKnown,
         Reload, Connected, AlreadyPinned, SessionStep, PerformBackup, Record,
         WorkerFails, dbVars
  <2> QED BY <1>1, <2>1, <2>2, <2>3
<1>7. ASSUME NEW n \in Nodes, SaveNewNode(n) PROVE ManagerInv'
  BY <1>2, <1>7 DEF SaveNewNode, Create
<1>8. ASSUME NEW n \in Nodes, DeleteNode(n) PROVE ManagerInv'
  <2> DEFINE row == [rows[n] EXCEPT !.state = "deleted"]
  <2>1. /\ row.state = "deleted" /\ row.routine = rows[n].routine
        /\ row.credential = rows[n].credential
    BY DEF TableTypeOK, Row
  <2>2. rows' = [rows EXCEPT ![n] = row] /\ UNCHANGED <<parents, manager>>
    BY <1>8 DEF DeleteNode
  <2> HIDE DEF row
  <2> QED BY <1>3, <2>1, <2>2
<1>9. CASE Restart
  BY <1>0, <1>9 DEF Restart, ManagerInv, Accounted
<1>10. CASE UNCHANGED vars
  BY <1>1, <1>10 DEF vars, dbVars
<1> QED BY <1>4, <1>5, <1>6, <1>7, <1>8, <1>9, <1>10 DEF Next

LEMMA ManagerInvariant == Spec => []ManagerInv
<1>1. Init => ManagerInv
  BY DEF Init, IdleProcesses, IdleManager, ManagerInv, Accounted
<1>2. TypeInv => TableTypeOK
  BY DEF TypeInv
<1> QED BY <1>1, <1>2, ManagerInvStep, TypeInvariant, PTL DEF Spec

(* A routine or credential is deleted while it is in use, and a name given *)
(* twice, past a row written since the count only.                         *)
THEOREM ChecksAreKept == Spec => ChecksHold
<1> DEFINE Held == \A q \in Managers :
             manager'[q].pc = "idle" /\ parents' # parents =>
               /\ manager[q].pc = "save" =>
                    Namesakes(manager[q].at) \subseteq manager[q].unseen
               /\ manager[q].pc = "delete" =>
                    \A n \in Nodes : Uses(rows[n], manager[q].at)
                                      => n \in manager[q].unseen
<1>1. ManagerInv => Held
  BY DEF ManagerInv, Accounted, LinkedNodes
<1>2. ChecksHold <=> [][Held]_vars
  BY DEF ChecksHold
<1> HIDE DEF Held
<1> QED BY <1>1, <1>2, ManagerInvariant, PTL

-----------------------------------------------------------------------------
(* As long as no SaveNode has taken a key away, the keys met are the key   *)
(* of the row, and so is the one a worker has loaded.                      *)
HasLoaded(w, n) == worker[w].at = n /\ worker[w].pc \in {"loaded", "dial"}

KeyInv ==
  \A n \in Nodes \ forgotten :
    /\ trusted[n] \subseteq {rows[n].key} \cap Keys
    /\ rows[n].state = "none" => rows[n].key = None
    /\ \A w \in Workers :
         HasLoaded(w, n) => worker[w].key \in {None, rows[n].key}

LEMMA KeysKept ==
  ASSUME TableTypeOK, KeyInv, forgotten \subseteq forgotten',
         \A n \in Nodes \ forgotten' :
           /\ rows[n].key # None => rows'[n].key = rows[n].key
           /\ rows'[n].state = "none" => rows'[n].key = None
           /\ trusted'[n] \subseteq trusted[n] \cup ({rows'[n].key} \cap Keys)
           /\ \A w \in Workers : HasLoaded(w, n)' =>
                \/ HasLoaded(w, n) /\ worker'[w].key = worker[w].key
                \/ worker'[w].key \in {None, rows'[n].key}
  PROVE  KeyInv'
<1> SUFFICES ASSUME NEW n \in Nodes \ forgotten'
             PROVE  /\ trusted'[n] \subseteq {rows'[n].key} \cap Keys
                    /\ rows'[n].state = "none" => rows'[n].key = None
                    /\ \A w \in Workers :
                         HasLoaded(w, n)' => worker'[w].key \in {None, rows'[n].key}
  BY DEF KeyInv
<1>1. /\ trusted[n] \subseteq {rows[n].key} \cap Keys
      /\ \A w \in Workers :
           HasLoaded(w, n) => worker[w].key \in {None, rows[n].key}
      /\ None \notin Keys
  BY NodeInventoryAssumption DEF KeyInv
<1>2. trusted'[n] \subseteq {rows'[n].key} \cap Keys
  BY <1>1
<1>3. ASSUME NEW w \in Workers, HasLoaded(w, n)'
      PROVE  worker'[w].key \in {None, rows'[n].key}
  BY <1>1, <1>3
<1> QED BY <1>2, <1>3

(* A worker that is connected has met the key of the row.                  *)
LEMMA ConnectedKeys ==
  ASSUME TableTypeOK, KeyInv, NEW w \in Workers, NEW key \in Keys,
         Connected(w, key), UNCHANGED forgotten,
         \A n \in Nodes :
           /\ rows[n].key # None => rows'[n].key = rows[n].key
           /\ rows'[n].state = "none" => rows[n].state = "none"
           /\ n # worker[w].at => rows'[n] = rows[n]
           /\ n = worker[w].at /\ n \notin forgotten => 
                rows'[n].key = key /\ rows'[n].state # "none"
  PROVE  KeyInv'
<1>1. /\ worker'[w].pc \in {"record", "session"}
      /\ \A v \in Workers : v # w => worker'[v] = worker[v]
  <2>1. worker[w] \in Worker
    BY DEF TableTypeOK
  <2>2. PICK x : WorkerGoes(w, x) /\ x.pc \in {"record", "session"}
    <3>1. [worker[w] EXCEPT !.pc = "record", !.outcome = "error"].pc = "record"
      BY <2>1 DEF Worker
    <3>2. [worker[w] EXCEPT !.pc = "session", !.key = key].pc = "session"
      BY <2>1 DEF Worker
    <3> QED BY <3>1, <3>2 DEF Connected, Fails
  <2> QED BY <2>2 DEF WorkerGoes, TableTypeOK
<1>2. ASSUME NEW n \in Nodes \ forgotten
      PROVE  trusted'[n] \subseteq trusted[n] \cup ({rows'[n].key} \cap Keys)
  BY DEF Connected, TableTypeOK
<1>3. ASSUME NEW n \in Nodes \ forgotten, NEW v \in Workers, HasLoaded(v, n)'
      PROVE  HasLoaded(v, n) /\ worker'[v].key = worker[v].key
  BY <1>1, <1>3 DEF HasLoaded
<1>4. ASSUME NEW n \in Nodes \ forgotten, rows'[n].state = "none"
      PROVE  rows'[n].key = None
  BY <1>4 DEF KeyInv
<1> QED BY <1>2, <1>3, <1>4, KeysKept

LEMMA KeyInvStep == TableTypeOK /\ KeyInv /\ [Next]_vars => KeyInv'
<1> SUFFICES ASSUME TableTypeOK, KeyInv, [Next]_vars PROVE KeyInv'
  OBVIOUS
<1>0. IdleWorker.pc = "idle" /\ None \notin Keys
  BY NodeInventoryAssumption DEF IdleWorker
(* Steps that neither connect nor write a key.                             *)
<1>1. ASSUME UNCHANGED <<trusted, forgotten>>,
             \A n \in Nodes : /\ rows'[n].key = rows[n].key
                              /\ rows'[n].state = "none" => rows[n].state = "none",
             \A v \in Workers, n \in Nodes : HasLoaded(v, n)' =>
               \/ HasLoaded(v, n) /\ worker'[v].key = worker[v].key
               \/ worker'[v].key = rows[n].key
      PROVE  KeyInv'
  BY <1>1, KeysKept DEF KeyInv
<1>2. ASSUME UNCHANGED <<rows, trusted, forgotten, worker>> PROVE KeyInv'
  BY <1>1, <1>2 DEF HasLoaded
<1>3. ASSUME NEW w \in Workers, NEW x, UNCHANGED <<trusted, forgotten>>,
             \A n \in Nodes : /\ rows'[n].key = rows[n].key
                              /\ rows'[n].state = "none" => rows[n].state = "none",
             WorkerGoes(w, x),
             \/ x.pc \notin {"loaded", "dial"}
             \/ /\ worker[w].pc \in {"loaded", "dial"}
                /\ x.at = worker[w].at /\ x.key = worker[w].key
             \/ x.at \in Nodes /\ x.key = rows[x.at].key
      PROVE  KeyInv'
  <2>1. \A v \in Workers : worker'[v] = IF v = w THEN x ELSE worker[v]
    BY <1>3 DEF WorkerGoes, TableTypeOK
  <2> QED BY <1>1, <1>3, <2>1 DEF HasLoaded
<1>4. ASSUME NEW n \in Nodes, NEW r, NEW c, Create(n, r, c) PROVE KeyInv'
  <2>1. /\ UNCHANGED <<trusted, forgotten, worker>>
        /\ \A m \in Nodes : m # n => rows'[m] = rows[m]
        /\ rows[n].state = "none"
        /\ rows'[n] = Written(Linked(NoRow, r, c))
    BY <1>4 DEF Create, TableTypeOK
  <2>2. rows'[n].key = None
    <3>1. Linked(NoRow, r, c).key = None
      BY DEF Linked, NoRow
    <3> DEFINE l == Linked(NoRow, r, c)
    <3>2. [l EXCEPT !.state = "live"].key = l.key
      OBVIOUS
    <3> QED BY <2>1, <3>1, <3>2 DEF Written
  <2>3. n \notin forgotten => rows[n].key = None
    BY <2>1 DEF KeyInv
  <2> QED BY <2>1, <2>2, <2>3, KeysKept DEF HasLoaded, KeyInv
<1>5. ASSUME NEW e \in Editors, EditorStep(e) PROVE KeyInv'
  <2>1. CASE SaveNode(e)
    <3> DEFINE n == editor[e].at
    <3>1. editor[e].row \in Row
      BY DEF TableTypeOK, Editor
    <3>2. \A m \in Nodes : /\ m # n => rows'[m] = rows[m]
                           /\ m = n => rows'[m].state # "none"
      BY <2>1, <3>1, WrittenType DEF SaveNode, TableTypeOK
    <3>3. /\ UNCHANGED <<trusted, worker>> /\ forgotten \subseteq forgotten'
          /\ n \notin forgotten' => rows'[n].key = rows[n].key
      BY <2>1 DEF SaveNode
    <3> QED BY <3>2, <3>3, KeysKept DEF HasLoaded, KeyInv
  <2>2. ASSUME NEW n \in Nodes, ImportNode(e, n) PROVE KeyInv'
    BY <1>4, <2>2 DEF ImportNode
  <2>3. CASE SnoozeNode(e)
    <3>1. \A n \in Nodes : /\ rows'[n].key = rows[n].key
                           /\ rows'[n].state = rows[n].state
      BY <2>3 DEF SnoozeNode, TableTypeOK, Row
    <3> QED BY <1>1, <2>3, <3>1 DEF SnoozeNode, HasLoaded
  <2>4. ASSUME ~SaveNode(e), ~SnoozeNode(e), \A n \in Nodes : ~ImportNode(e, n)
        PROVE  UNCHANGED <<rows, trusted, forgotten, worker>>
    BY <1>5, <2>4 DEF EditorStep, LoadForSave, LoadForMute, ImportCredential,
                      ImportRoutine, EditorRefused, dbVars
  <2> QED BY <1>2, <2>1, <2>2, <2>3, <2>4
<1>6. ASSUME NEW q \in Managers, ManagerStep(q) PROVE KeyInv'
  <2>1. UNCHANGED <<rows, trusted, forgotten, worker>>
    BY <1>6 DEF ManagerStep, SaveCredential, SaveRoutine, DeleteCredential,
                DeleteRoutine, Save, Delete, LoadParent, Count, Write,
                ManagerRefused, ManagerGoes, dbVars
  <2> QED BY <1>2, <2>1
<1>7. ASSUME NEW w \in Workers, WorkerStep(w) PROVE KeyInv'
  <2> DEFINE n == worker[w].at
  <2>0. worker[w] \in Worker
    BY DEF TableTypeOK
  <2>1. ASSUME NEW m \in Nodes, LoadForBackup(w, m) PROVE KeyInv'
    <3> DEFINE x == [IdleWorker EXCEPT !.pc = "loaded", !.at = m,
                                       !.key = rows[m].key]
    <3>1. x.at = m /\ x.key = rows[m].key
      BY DEF IdleWorker
    <3> QED BY <1>3, <2>1, <3>1 DEF LoadForBackup, dbVars
  <2>2. CASE LockNode(w)
    <3> DEFINE x == [worker[w] EXCEPT !.pc = "dial"]
    <3>1. x.at = worker[w].at /\ x.key = worker[w].key
      BY <2>0 DEF Worker
    <3> QED BY <1>0, <1>3, <2>2, <3>1 DEF LockNode, dbVars
  <2>3. ASSUME Fails(w), UNCHANGED <<rows, trusted, forgotten>> PROVE KeyInv'
    <3>1. [worker[w] EXCEPT !.pc = "record", !.outcome = "error"].pc = "record"
      BY <2>0 DEF Worker
    <3> QED BY <1>3, <2>3, <3>1 DEF Fails
  <2>4. CASE DialFails(w)
    BY <2>3, <2>4 DEF DialFails, dbVars
  <2>5. CASE DialKnown(w)
    <3>1. worker[w].key \in Keys /\ HasLoaded(w, n)
      BY <2>0, <2>5 DEF DialKnown, Worker, HasLoaded
    <3>2. n \in Nodes /\ n \notin forgotten => rows[n].key = worker[w].key
      BY <1>0, <3>1 DEF KeyInv
    <3>3. n \in Nodes /\ n \notin forgotten => rows[n].state # "none"
      BY <1>0, <3>1, <3>2 DEF KeyInv
    <3> QED BY <2>5, <3>1, <3>2, <3>3, ConnectedKeys DEF DialKnown, Connected
  <2>6. CASE Reload(w)
    <3>1. CASE Live(n) /\ rows[n].key = worker[w].key
      <4>1. worker[w].key \in Keys
        BY <2>6 DEF Reload, TableTypeOK
      <4> QED BY <2>6, <3>1, <4>1, ConnectedKeys DEF Reload, Connected, Live
    <3>2. CASE ~(Live(n) /\ rows[n].key = worker[w].key)
      BY <2>3, <2>6, <3>2 DEF Reload
    <3> QED BY <3>1, <3>2
  <2>7. ASSUME NEW key \in Keys, DialFirst(w, key) PROVE KeyInv'
    <3>1. \A m \in Nodes :
            /\ rows[m].key # None => rows'[m].key = rows[m].key
            /\ rows'[m].state = rows[m].state
            /\ m # n => rows'[m] = rows[m]
            /\ m = n => rows'[m].key = key /\ rows'[m].state # "none"
      BY <2>7 DEF DialFirst, Pinnable, Live, TableTypeOK, Row
    <3> QED BY <2>7, <3>1, ConnectedKeys DEF DialFirst, Connected
  <2>8. ASSUME NEW key \in Keys, AlreadyPinned(w, key) PROVE KeyInv'
    <3>1. [worker[w] EXCEPT !.pc = "reload", !.key = key].pc = "reload"
      BY <2>0 DEF Worker
    <3> QED BY <1>3, <2>8, <3>1 DEF AlreadyPinned, dbVars
  <2>9. CASE SessionStep(w)
    BY <1>2, <2>9 DEF SessionStep, dbVars
  <2>10. CASE PerformBackup(w)
    <3>1. [worker[w] EXCEPT !.pc = "record", !.outcome = Outcome(w)].pc = "record"
      BY <2>0 DEF Worker
    <3> QED BY <1>3, <2>10, <3>1 DEF PerformBackup, dbVars
  <2>11. CASE Record(w)
    <3>1. [worker[w] EXCEPT !.pc = "report"].pc = "report"
      BY <2>0 DEF Worker
    <3> QED BY <1>3, <2>11, <3>1 DEF Record
  <2>12. CASE Report(w)
    <3>1. \A m \in Nodes : /\ rows'[m].key = rows[m].key
                           /\ rows'[m].state = rows[m].state
      BY <2>12 DEF Report, TableTypeOK, Row
    <3> QED BY <1>0, <1>3, <2>12, <3>1 DEF Report
  <2>13. CASE WorkerFails(w)
    BY <1>0, <1>3, <2>13 DEF WorkerFails, dbVars
  <2> QED BY <1>7, <2>1, <2>2, <2>4, <2>5, <2>6, <2>7, <2>8, <2>9, <2>10, <2>11,
             <2>12, <2>13 DEF WorkerStep
<1>8. ASSUME NEW n \in Nodes, SaveNewNode(n) PROVE KeyInv'
  BY <1>4, <1>8 DEF SaveNewNode
<1>9. ASSUME NEW n \in Nodes, DeleteNode(n) PROVE KeyInv'
  <2>1. \A m \in Nodes : /\ rows'[m].key = rows[m].key
                         /\ rows'[m].state = "none" => rows[m].state = "none"
    BY <1>9 DEF DeleteNode, TableTypeOK, Row
  <2> QED BY <1>1, <1>9, <2>1 DEF DeleteNode, HasLoaded
<1>10. CASE Restart
  BY <1>0, <1>1, <1>10 DEF Restart, HasLoaded, dbVars
<1>11. CASE UNCHANGED vars
  BY <1>2, <1>11 DEF vars, dbVars
<1> QED BY <1>5, <1>6, <1>7, <1>8, <1>9, <1>10, <1>11 DEF Next

LEMMA KeyInvariant == Spec => []KeyInv
<1>1. Init => KeyInv
  BY DEF Init, IdleProcesses, IdleWorker, NoRow, HasLoaded, KeyInv
<1>2. TypeInv => TableTypeOK
  BY DEF TypeInv
<1> QED BY <1>1, <1>2, KeyInvStep, TypeInvariant, PTL DEF Spec

(* Two backups that meet a device for the first time at the same time      *)
(* trust the same key, and so do all the later ones.                       *)
THEOREM TrustOnFirstUse == Spec => []OneKeyTrusted
<1>1. TypeInv /\ KeyInv => OneKeyTrusted
  <2> SUFFICES ASSUME TypeInv, KeyInv, NEW n \in Nodes \ forgotten
               PROVE  Cardinality(trusted[n]) <= 1
    BY DEF OneKeyTrusted
  <2>1. trusted[n] = {} \/ trusted[n] = {rows[n].key}
    BY DEF KeyInv
  <2>2. Cardinality({}) = 0 /\ Cardinality({rows[n].key}) = 1
    BY FS_EmptySet, FS_Singleton
  <2> QED BY <2>1, <2>2
<1> QED BY <1>1, TypeInvariant, KeyInvariant, PTL

-----------------------------------------------------------------------------
(* The backups of n under way that may still insert a row.                 *)
Team     == Workers \cap cast
Under(n) == {w \in Team : /\ worker[w].at = n
                          /\ worker[w].pc \notin {"idle", "report"}}

OrphanInv ==
  \A n \in Nodes : rows[n].state = "deleted" =>
    records[n] + Cardinality(Under(n)) <= Cardinality(Team)

LEMMA Counting ==
  /\ IsFiniteSet(Team) /\ Cardinality(Team) \in Nat
  /\ \A n : /\ IsFiniteSet(Under(n)) /\ Cardinality(Under(n)) \in Nat
            /\ Cardinality(Under(n)) <= Cardinality(Team)
<1>1. IsFiniteSet(Team)
  BY NodeInventoryAssumption, FS_Subset DEF Team
<1>2. \A n : Under(n) \subseteq Team
  BY DEF Under
<1> QED BY <1>1, <1>2, FS_Subset, FS_CardinalityType

(* Deleted nodes gain no row and no backup.                                *)
LEMMA OrphansKept ==
  ASSUME TableTypeOK, OrphanInv, UNCHANGED cast,
         \A n \in Nodes : rows'[n].state = "deleted" =>
           /\ rows[n].state = "deleted" /\ records'[n] = records[n]
           /\ Under(n)' \subseteq Under(n)
  PROVE  OrphanInv'
<1> SUFFICES ASSUME NEW n \in Nodes, rows'[n].state = "deleted"
             PROVE  records'[n] + Cardinality(Under(n)') <= Cardinality(Team)
  BY DEF OrphanInv, Team
<1>1. Cardinality(Under(n)') <= Cardinality(Under(n))
  BY Counting, FS_Subset
<1>2. /\ Cardinality(Under(n)) \in Nat /\ Cardinality(Under(n)') \in Nat
      /\ Cardinality(Team) \in Nat /\ records[n] \in Nat
  <2>1. IsFiniteSet(Under(n)')
    BY Counting, FS_Subset
  <2>2. records[n] \in Nat
    BY NodeInventoryAssumption DEF TableTypeOK
  <2> QED BY <2>1, <2>2, Counting, FS_CardinalityType
<1>3. records[n] + Cardinality(Under(n)) <= Cardinality(Team)
  BY DEF OrphanInv
<1> QED BY <1>1, <1>2, <1>3

LEMMA OrphanInvStep == TableTypeOK /\ OrphanInv /\ [Next]_vars => OrphanInv'
<1> SUFFICES ASSUME TableTypeOK, OrphanInv, [Next]_vars PROVE OrphanInv'
  OBVIOUS
<1>0. IdleWorker.pc = "idle" /\ "deleted" # "live"
  BY DEF IdleWorker
<1>1. ASSUME UNCHANGED <<cast, records, worker>>,
             \A n \in Nodes : rows'[n].state = "deleted" => rows[n].state = "deleted"
      PROVE  OrphanInv'
  BY <1>1, OrphansKept DEF Under, Team
<1>2. ASSUME UNCHANGED <<cast, records>>, NEW w \in Workers, NEW x,
             \A n \in Nodes : rows'[n].state = "deleted" => rows[n].state = "deleted",
             WorkerGoes(w, x),
             \/ x.pc \in {"idle", "report"}
             \/ x.at = worker[w].at /\ worker[w].pc \notin {"idle", "report"}
             \/ x.at \in Nodes /\ Live(x.at) /\ UNCHANGED rows
      PROVE  OrphanInv'
  <2>1. \A v \in Workers : worker'[v] = IF v = w THEN x ELSE worker[v]
    BY <1>2 DEF WorkerGoes, TableTypeOK
  <2>2. ASSUME NEW n \in Nodes, rows'[n].state = "deleted"
        PROVE  Under(n)' \subseteq Under(n)
    BY <1>0, <1>2, <2>1, <2>2 DEF Under, Team, Live
  <2> QED BY <1>2, <2>2, OrphansKept
<1>3. ASSUME NEW n \in Nodes, NEW r, NEW c, Create(n, r, c) PROVE OrphanInv'
  <2>1. Written(Linked(NoRow, r, c)).state = "live"
    <3> DEFINE l == Linked(NoRow, r, c)
    <3>1. "state" \in DOMAIN l
      BY DEF Linked, NoRow
    <3> HIDE DEF l
    <3>2. [l EXCEPT !.state = "live"].state = "live"
      BY <3>1
    <3> QED BY <3>2 DEF Written, l
  <2>2. \A m \in Nodes : rows'[m].state = "deleted" => rows[m].state = "deleted"
    BY <1>0, <1>3, <2>1 DEF Create, TableTypeOK
  <2> QED BY <1>1, <1>3, <2>2 DEF Create
<1>4. ASSUME NEW e \in Editors, EditorStep(e) PROVE OrphanInv'
  <2>1. CASE SaveNode(e)
    <3>1. Written(editor[e].row).state = "live"
      BY WrittenType DEF TableTypeOK, Editor
    <3>2. \A m \in Nodes : rows'[m].state = "deleted" => rows[m].state = "deleted"
      BY <1>0, <2>1, <3>1 DEF SaveNode, TableTypeOK
    <3> QED BY <1>1, <2>1, <3>2 DEF SaveNode
  <2>2. ASSUME NEW n \in Nodes, ImportNode(e, n) PROVE OrphanInv'
    BY <1>3, <2>2 DEF ImportNode
  <2>3. CASE SnoozeNode(e)
    <3>1. \A n \in Nodes : rows'[n].state = rows[n].state
      BY <2>3 DEF SnoozeNode, TableTypeOK, Row
    <3> QED BY <1>1, <2>3, <3>1 DEF SnoozeNode
  <2>4. ASSUME ~SaveNode(e), ~SnoozeNode(e), \A n \in Nodes : ~ImportNode(e, n)
        PROVE  UNCHANGED <<cast, rows, records, worker>>
    BY <1>4, <2>4 DEF EditorStep, LoadForSave, LoadForMute, ImportCredential,
                      ImportRoutine, EditorRefused, dbVars
  <2> QED BY <1>1, <2>1, <2>2, <2>3, <2>4
<1>5. ASSUME NEW q \in Managers, ManagerStep(q) PROVE OrphanInv'
  <2>1. UNCHANGED <<cast, rows, records, worker>>
    BY <1>5 DEF ManagerStep, SaveCredential, SaveRoutine, DeleteCredential,
                DeleteRoutine, Save, Delete, LoadParent, Count, Write,
                ManagerRefused, ManagerGoes, dbVars
  <2> QED BY <1>1, <2>1
<1>6. ASSUME NEW w \in Team, WorkerStep(w) PROVE OrphanInv'
  <2> DEFINE n == worker[w].at
  <2>0. worker[w] \in Worker /\ w \in Workers
    BY DEF TableTypeOK, Team
  <2>1. ASSUME NEW m \in Nodes, LoadForBackup(w, m) PROVE OrphanInv'
    <3> DEFINE x == [IdleWorker EXCEPT !.pc = "loaded", !.at = m,
                                       !.key = rows[m].key]
    <3>1. x.at = m
      BY DEF IdleWorker
    <3> HIDE DEF x
    <3>2. WorkerGoes(w, x) /\ Live(m) /\ UNCHANGED <<cast, rows, records>>
      BY <2>1 DEF LoadForBackup, dbVars, x
    <3> QED BY <1>2, <2>0, <3>1, <3>2
  <2>2. ASSUME UNCHANGED <<cast, records>>,
               \A m \in Nodes : rows'[m].state = rows[m].state,
               NEW x, WorkerGoes(w, x), x.at = n,
               worker[w].pc \notin {"idle", "report"}
        PROVE  OrphanInv'
    BY <1>2, <2>0, <2>2
  <2>3. ASSUME UNCHANGED <<cast, records>>, WorkerGoes(w, IdleWorker),
               \A m \in Nodes : rows'[m].state = rows[m].state
        PROVE  OrphanInv'
    BY <1>0, <1>2, <2>0, <2>3
  <2>4. CASE LockNode(w)
    <3>1. [worker[w] EXCEPT !.pc = "dial"].at = n
      BY <2>0 DEF Worker
    <3> QED BY <2>2, <2>3, <2>4, <3>1 DEF LockNode, dbVars
  <2>5. ASSUME Fails(w), UNCHANGED <<cast, records>>,
               worker[w].pc \notin {"idle", "report"},
               \A m \in Nodes : rows'[m].state = rows[m].state
        PROVE  OrphanInv'
    <3>1. [worker[w] EXCEPT !.pc = "record", !.outcome = "error"].at = n
      BY <2>0 DEF Worker
    <3> QED BY <2>2, <2>5, <3>1 DEF Fails
  <2>6. ASSUME NEW key, Connected(w, key), worker[w].pc \notin {"idle", "report"},
               \A m \in Nodes : rows'[m].state = rows[m].state
        PROVE  OrphanInv'
    <3>1. [worker[w] EXCEPT !.pc = "session", !.key = key].at = n
      BY <2>0 DEF Worker
    <3> QED BY <2>2, <2>5, <2>6, <3>1 DEF Connected
  <2>7. CASE DialFails(w)
    BY <2>5, <2>7 DEF DialFails, dbVars
  <2>8. CASE DialKnown(w)
    BY <2>6, <2>8 DEF DialKnown
  <2>9. CASE Reload(w)
    BY <2>5, <2>6, <2>9 DEF Reload
  <2>10. ASSUME NEW key \in Keys, DialFirst(w, key) PROVE OrphanInv'
    <3>1. \A m \in Nodes : rows'[m].state = rows[m].state
      BY <2>10 DEF DialFirst, TableTypeOK, Row
    <3> QED BY <2>6, <2>10, <3>1 DEF DialFirst
  <2>11. ASSUME NEW key \in Keys, AlreadyPinned(w, key) PROVE OrphanInv'
    <3>1. [worker[w] EXCEPT !.pc = "reload", !.key = key].at = n
      BY <2>0 DEF Worker
    <3> QED BY <2>2, <2>11, <3>1 DEF AlreadyPinned, dbVars
  <2>12. CASE SessionStep(w)
    BY <1>1, <2>12 DEF SessionStep, dbVars
  <2>13. CASE PerformBackup(w)
    <3>1. [worker[w] EXCEPT !.pc = "record", !.outcome = Outcome(w)].at = n
      BY <2>0 DEF Worker
    <3> QED BY <2>2, <2>13, <3>1 DEF PerformBackup, dbVars
  <2>14. CASE Record(w)
    <3>1. /\ worker' = [worker EXCEPT ![w] = [worker[w] EXCEPT !.pc = "report"]]
          /\ worker[w].pc = "record" /\ UNCHANGED <<cast, rows>>
          /\ UNCHANGED records \/ records' = [records EXCEPT ![n] = @ + 1]
      BY <2>14 DEF Record, WorkerGoes
    <3>2. /\ worker'[w].pc = "report"
          /\ \A v \in Workers : v # w => worker'[v] = worker[v]
      BY <2>0, <3>1 DEF TableTypeOK, Worker
    <3>3. \A m \in Nodes :
            /\ m = n => w \in Under(m) /\ Under(m)' = Under(m) \ {w}
            /\ m # n => Under(m)' \subseteq Under(m)
      BY <3>1, <3>2 DEF Under, Team
    <3>4. CASE UNCHANGED records
      BY <3>1, <3>3, <3>4, OrphansKept
    <3>5. CASE records' = [records EXCEPT ![n] = @ + 1]
      <4> SUFFICES ASSUME NEW m \in Nodes, rows[m].state = "deleted"
                   PROVE  records'[m] + Cardinality(Under(m)') <= Cardinality(Team)
        BY <3>1 DEF OrphanInv, Team
      <4>1. records[m] + Cardinality(Under(m)) <= Cardinality(Team)
        BY DEF OrphanInv
      <4>2. records[m] \in Nat
        BY NodeInventoryAssumption DEF TableTypeOK
      <4>3. CASE m = n
        <5>1. Cardinality(Under(m)') = Cardinality(Under(m)) - 1
          <6>1. /\ IsFiniteSet(Under(m)) /\ w \in Under(m)
                /\ Under(m)' = Under(m) \ {w}
            BY <3>3, <4>3, Counting
          <6> QED BY <6>1, FS_RemoveElement
        <5>2. records'[m] = records[m] + 1
          BY <3>5, <4>3 DEF TableTypeOK
        <5> QED BY <4>1, <4>2, <5>1, <5>2, Counting
      <4>4. CASE m # n
        <5>1. /\ Cardinality(Under(m)') <= Cardinality(Under(m))
              /\ Cardinality(Under(m)') \in Nat
          BY <3>3, <4>4, Counting, FS_Subset, FS_CardinalityType
        <5>2. records'[m] = records[m]
          BY <3>5, <4>4 DEF TableTypeOK
        <5> QED BY <4>1, <4>2, <5>1, <5>2, Counting
      <4> QED BY <4>3, <4>4
    <3> QED BY <3>1, <3>4, <3>5
  <2>15. CASE Report(w)
    <3>1. \A m \in Nodes : rows'[m].state = rows[m].state
      BY <2>15 DEF Report, TableTypeOK, Row
    <3> QED BY <2>3, <2>15, <3>1 DEF Report
  <2>16. CASE WorkerFails(w)
    BY <2>3, <2>16 DEF WorkerFails, dbVars
  <2> QED BY <1>6, <2>1, <2>4, <2>7, <2>8, <2>9, <2>10, <2>11, <2>12, <2>13,
             <2>14, <2>15, <2>16 DEF WorkerStep
<1>7. ASSUME NEW n \in Nodes, SaveNewNode(n) PROVE OrphanInv'
  BY <1>3, <1>7 DEF SaveNewNode
<1>8. ASSUME NEW n \in Nodes, DeleteNode(n) PROVE OrphanInv'
  <2>1. /\ UNCHANGED <<cast, worker>>
        /\ \A m \in Nodes : m # n => rows'[m] = rows[m]
        /\ records' = [records EXCEPT ![n] = 0]
    BY <1>8 DEF DeleteNode, RecordsLeft, TableTypeOK
  <2>2. \A m : Under(m)' = Under(m)
    BY <2>1 DEF Under, Team
  <2> SUFFICES ASSUME NEW m \in Nodes, rows'[m].state = "deleted"
               PROVE  records'[m] + Cardinality(Under(m)) <= Cardinality(Team)
    BY <2>1, <2>2 DEF OrphanInv, Team
  <2>3. CASE m = n
    <3>1. records'[m] = 0
      BY <2>1, <2>3 DEF TableTypeOK
    <3> QED BY <3>1, Counting
  <2>4. CASE m # n
    BY <2>1, <2>4 DEF OrphanInv, TableTypeOK
  <2> QED BY <2>3, <2>4
<1>9. CASE Restart
  <2>1. \A n : Under(n)' = {}
    BY <1>0, <1>9 DEF Restart, Under, Team
  <2> QED BY <1>9, <2>1, OrphansKept DEF Restart, dbVars
<1>10. CASE UNCHANGED vars
  BY <1>1, <1>10 DEF vars, dbVars
<1> QED BY <1>4, <1>5, <1>6, <1>7, <1>8, <1>9, <1>10 DEF Next, Team

LEMMA OrphanInvariant == Spec => []OrphanInv
<1>1. Init => OrphanInv
  BY DEF Init, NoRow, OrphanInv
<1>2. TypeInv => TableTypeOK
  BY DEF TypeInv
<1> QED BY <1>1, <1>2, OrphanInvStep, TypeInvariant, PTL DEF Spec

(* A deleted node is left with at most one row of each backup that was     *)
(* under way, whatever is deleted, saved again and deleted again.          *)
THEOREM FewOrphans == Spec => []OrphansBounded
<1>1. TypeInv /\ OrphanInv => OrphansBounded
  <2> SUFFICES ASSUME TypeInv, OrphanInv, NEW n \in Nodes,
                      rows[n].state = "deleted"
               PROVE  records[n] <= Cardinality(Team)
    BY DEF OrphansBounded, Team
  <2>1. records[n] \in Nat
    BY NodeInventoryAssumption DEF TypeInv, TableTypeOK
  <2> QED BY <2>1, Counting DEF OrphanInv
<1> QED BY <1>1, TypeInvariant, OrphanInvariant, PTL
=============================================================================
