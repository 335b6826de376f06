-------------------------- MODULE SftpExportProofs --------------------------
(* Theorems about SftpExport: types, what the flag exported means, what a  *)
(* reported success means, and the trust on first use.                     *)
EXTENDS SftpExport, TLAPS

-----------------------------------------------------------------------------
(* The inductive invariant.                                                *)

InHand == {"dial", "pin", "reload", "send", "mark"}

JobTypes ==
  /\ pc \in [Procs -> Pc]
  /\ op \in [Procs -> Ops]
  /\ mine \in [Procs -> Row]
  /\ began \in [Procs -> BOOLEAN]
  /\ todo \in [Procs -> SUBSET (Backups \cup Nodes)]
  /\ batch \in [Procs -> SUBSET Backups]
  /\ cur \in [Procs -> Backups \cup {None}]
  /\ offered \in [Procs -> Keys \cup {NoKey}]
  /\ failed \in [Procs -> BOOLEAN]

(* A loop has only its own kind of thing to do; a process that transfers   *)
(* has a version in its hands and marks only what it has sent.             *)
JobInv ==
  /\ op[Ticker] = IF pc[Ticker] = "idle" THEN "none" ELSE "check"
  /\ \A p \in Procs :
       /\ pc[p] = "idle" => todo[p] = {}
       /\ op[p] = "check" => todo[p] \subseteq Backups
       /\ op[p] = "sync" => todo[p] \subseteq Nodes
       /\ (pc[p] \in InHand /\ op[p] # "test") => cur[p] \in Backups
       /\ pc[p] \in Connected => op[p] # "test"
       /\ pc[p] \in InHand \ {"dial"} => offered[p] \in Keys
       /\ pc[p] = "mark" => cur[p] \in sent

Jobs == JobTypes /\ JobInv

TypedJobs == TypeOK /\ JobInv

-----------------------------------------------------------------------------
(* What the operators that several actions share do to the jobs.           *)

LEMMA TickerIsProc == Ticker \in Procs
BY DEF Procs

LEMMA AnyRowType == AnyRow \in Row /\ AnyRow.fp = NoKey
<1>1. PICK a \in Addrs : TRUE
  BY SftpExportAssumption
<1>2. [addr |-> a, fp |-> NoKey, enabled |-> TRUE, completed |-> FALSE] \in Row
  BY DEF Row
<1> QED
  BY <1>2 DEF AnyRow

LEMMA IdleKeeps ==
  ASSUME Jobs, NEW procs \in SUBSET Procs, Idle(procs), sent' = sent
  PROVE  Jobs'
<1>1. JobTypes'
  BY AnyRowType DEF Jobs, JobTypes, Idle, Clear, Pc, Ops
<1>2. JobInv'
  BY TickerIsProc DEF Jobs, JobTypes, JobInv, Idle, Clear, InHand, Connected
<1> QED
  BY <1>1, <1>2 DEF Jobs

LEMMA AcceptKeeps ==
  ASSUME Jobs, NEW p \in Procs, NEW k \in Keys, pc[p] \in InHand,
         Accept(p, k), sent' = sent
  PROVE  Jobs'
<1>1. CASE op[p] = "test"
  BY <1>1, IdleKeeps DEF Accept
<1>2. CASE op[p] # "test"
  <2>1. JobTypes'
    BY <1>2 DEF Jobs, JobTypes, Accept, Goto, Pc, Row
  <2>2. JobInv'
    BY <1>2, TickerIsProc DEF Jobs, JobTypes, JobInv, Accept, Goto, InHand,
         Connected
  <2> QED
    BY <2>1, <2>2 DEF Jobs
<1> QED
  BY <1>1, <1>2

LEMMA GiveUpKeeps ==
  ASSUME Jobs, NEW p \in Procs, GiveUp(p), sent' = sent
  PROVE  Jobs'
<1>1. CASE op[p] \in {"check", "sync"}
  <2>1. JobTypes'
    BY <1>1 DEF Jobs, JobTypes, GiveUp, Goto, Pc
  <2>2. JobInv'
    BY <1>1, TickerIsProc DEF Jobs, JobTypes, JobInv, GiveUp, Goto, InHand,
         Connected
  <2> QED
    BY <2>1, <2>2 DEF Jobs
<1>2. CASE op[p] \notin {"check", "sync"}
  BY <1>2, IdleKeeps DEF GiveUp
<1> QED
  BY <1>1, <1>2

LEMMA CountedKeeps ==
  ASSUME Jobs, NEW p \in Procs, pc[p] # "idle", Counted(p), sent' = sent
  PROVE  Jobs'
<1>1. CASE op[p] = "export"
  BY <1>1, IdleKeeps DEF Counted
<1>2. CASE op[p] # "export"
  <2>1. JobTypes'
    BY <1>2 DEF Jobs, JobTypes, Counted, Goto, Pc
  <2>2. JobInv'
    BY <1>2, TickerIsProc DEF Jobs, JobTypes, JobInv, Counted, Goto, InHand,
         Connected
  <2> QED
    BY <2>1, <2>2 DEF Jobs
<1> QED
  BY <1>1, <1>2

LEMMA LoadedType ==
  ASSUME row \in Row, NEW handler
  PROVE  Loaded(handler) \in Row
BY AnyRowType DEF Loaded, Row

(* A handler begins with nothing in its hands but what it will transfer.   *)
LEMMA BeginKeeps ==
  ASSUME TypedJobs, NEW p \in Procs, NEW handler \in Ops, NEW label \in Pc,
         Begin(p, handler, label), label \notin InHand \ {"dial"},
         p = Ticker <=> handler = "check", handler # "none", label # "idle",
         JobTypes', \A q \in Procs \ {p} : todo'[q] = todo[q] /\ cur'[q] = cur[q],
         handler = "check" => todo'[p] \subseteq Backups,
         handler = "sync" => todo'[p] \subseteq Nodes,
         (label = "dial" /\ handler # "test") => cur'[p] \in Backups
  PROVE  JobInv'
<1>1. /\ pc' = [pc EXCEPT ![p] = label] /\ op' = [op EXCEPT ![p] = handler]
      /\ sent' = sent /\ offered' = offered
  BY DEF Begin, Goto
<1>2. /\ pc'[p] = label /\ op'[p] = handler
      /\ \A q \in Procs \ {p} : pc'[q] = pc[q] /\ op'[q] = op[q]
  BY <1>1 DEF TypedJobs, TypeOK
<1>3. op'[Ticker] = IF pc'[Ticker] = "idle" THEN "none" ELSE "check"
  BY <1>2 DEF TypedJobs, JobInv, Procs
<1> QED
  BY <1>1, <1>2, <1>3 DEF TypedJobs, JobInv, InHand, Connected

LEMMA BeginTypes ==
  ASSUME TypedJobs, NEW p \in Procs, NEW handler \in Ops, NEW label \in Pc,
         Begin(p, handler, label)
  PROVE  /\ pc' \in [Procs -> Pc] /\ op' \in [Procs -> Ops]
         /\ mine' \in [Procs -> Row]
         /\ offered' \in [Procs -> Keys \cup {NoKey}]
         /\ failed' \in [Procs -> BOOLEAN]
BY LoadedType DEF Begin, Goto, TypedJobs, TypeOK

-----------------------------------------------------------------------------
LEMMA JobsInit == Init => TypedJobs
<1> SUFFICES ASSUME Init PROVE TypedJobs
  OBVIOUS
<1>1. JobTypes
  BY AnyRowType DEF Init, NoJobs, JobTypes, Pc, Ops
<1>2. JobInv
  BY TickerIsProc DEF Init, NoJobs, JobInv, InHand, Connected
<1>3. row \in Row
  BY DEF Init, Row
<1> QED
  BY <1>1, <1>2, <1>3 DEF Init, TypedJobs, TypeOK, JobTypes

LEMMA StepKeepsJobs ==
  ASSUME TypedJobs, NEW p \in Procs, Step(p)
  PROVE  TypedJobs'
<1> USE DEF TypedJobs, TypeOK
<1>0. Jobs
  BY DEF Jobs, JobTypes
<1>1. CASE NextPending(p)
  <2>1. todo[p] \subseteq Backups
    BY <1>1 DEF NextPending, JobInv
  <2>2. TypeOK'
    BY <1>1, <2>1 DEF NextPending, Goto, Pc
  <2>3. JobInv'
    BY <1>1, <2>1 DEF NextPending, Goto, JobInv, InHand, Connected
  <2> QED
    BY <2>2, <2>3
<1>2. CASE NextNode(p)
  <2>1. PICK n \in todo[p] :
          /\ todo' = [todo EXCEPT ![p] = @ \ {n}]
          /\ \/ /\ HasVersion(n)
                /\ \E b \in Newest(n) : cur' = [cur EXCEPT ![p] = b]
                /\ Goto(p, "dial")
             \/ UNCHANGED <<pc, cur>>
    BY <1>2 DEF NextNode
  <2>2. HasVersion(n) => Newest(n) \subseteq Backups
    BY DEF HasVersion, Newest, Of, Alive
  <2>3. TypeOK'
    BY <1>2, <2>1, <2>2 DEF NextNode, Goto, Pc
  <2>4. JobInv'
    BY <1>2, <2>1, <2>2, TickerIsProc DEF NextNode, Goto, JobInv, InHand,
         Connected
  <2> QED
    BY <2>3, <2>4
<1>3. CASE LoopEnds(p)
  BY <1>3 DEF LoopEnds, Goto, Pc, JobInv, InHand, Connected
<1>4. CASE Dial(p)
  <2>1. PICK k \in Presents[mine[p].addr] :
          IF k = mine[p].fp THEN Accept(p, k) ELSE GiveUp(p)
    BY <1>4 DEF Dial
  <2>2. k \in Keys
    BY <2>1 DEF Keys, Row
  <2>3. Jobs'
    BY <1>0, <1>4, <2>1, <2>2, AcceptKeeps, GiveUpKeeps DEF Dial, InHand
  <2> QED
    BY <1>4, <2>3 DEF Dial, Jobs, JobTypes
<1>5. CASE DialFirst(p)
  <2>1. PICK k \in Presents[mine[p].addr] : offered' = [offered EXCEPT ![p] = k]
    BY <1>5 DEF DialFirst
  <2>2. k \in Keys
    BY <2>1 DEF Keys, Row
  <2> QED
    BY <1>5, <2>1, <2>2 DEF DialFirst, Goto, Pc, JobInv, InHand, Connected
<1>6. CASE Pin(p)
  <2>1. offered[p] \in Keys
    BY <1>6 DEF Pin, JobInv, InHand
  <2>2. Jobs'
    BY <1>0, <1>6, <2>1, AcceptKeeps DEF Pin, InHand
  <2> QED
    BY <1>6, <2>1, <2>2 DEF Pin, Jobs, JobTypes, Row
<1>7. CASE AlreadyPinned(p)
  BY <1>7 DEF AlreadyPinned, Goto, Pc, JobInv, InHand, Connected
<1>8. CASE Reload(p)
  <2>1. offered[p] \in Keys
    BY <1>8 DEF Reload, JobInv, InHand
  <2>2. Jobs'
    BY <1>0, <1>8, <2>1, AcceptKeeps, GiveUpKeeps DEF Reload, InHand
  <2> QED
    BY <1>8, <2>2 DEF Reload, Jobs, JobTypes
<1>9. CASE Send(p)
  <2>1. cur[p] \in Backups
    BY <1>9 DEF Send, JobInv, InHand, Connected
  <2> QED
    BY <1>9, <2>1 DEF Send, Written, Goto, Pc, JobInv, InHand, Connected
<1>10. CASE TransferFails(p)
  BY <1>0, <1>10, GiveUpKeeps DEF TransferFails, Jobs, JobTypes
<1>11. CASE Mark(p)
  <2>1. Jobs'
    BY <1>0, <1>11, CountedKeeps DEF Mark
  <2> QED
    BY <1>11, <2>1 DEF Mark, Jobs, JobTypes
<1>12. CASE Unmarked(p)
  BY <1>0, <1>12, GiveUpKeeps, CountedKeeps
     DEF Unmarked, MarkFails, Jobs, JobTypes
<1>13. CASE Finish(p)
  <2>1. Jobs'
    BY <1>0, <1>13, IdleKeeps DEF Finish
  <2> QED
    BY <1>13, <2>1 DEF Finish, Jobs, JobTypes, Row
<1>14. CASE Save(p)
  <2>1. Jobs'
    BY <1>0, <1>14, IdleKeeps DEF Save
  <2>2. row' \in Row
    <3>1. PICK a \in Addrs, on \in Switch :
            row' = [mine[p] EXCEPT !.addr = a, !.enabled = on,
                      !.fp = IF a = mine[p].addr THEN @ ELSE NoKey]
      BY <1>14 DEF Save
    <3>2. (IF a = mine[p].addr THEN mine[p].fp ELSE NoKey) \in Keys \cup {NoKey}
      BY DEF Row
    <3>3. on \in BOOLEAN
      BY SftpExportAssumption
    <3> QED
      BY <3>1, <3>2, <3>3 DEF Row
  <2>3. outdated' \in BOOLEAN
    BY <1>14 DEF Save, SameServer
  <2> QED
    BY <1>14, <2>1, <2>2, <2>3 DEF Save, Jobs, JobTypes
<1>15. CASE RowNotSaved(p)
  BY <1>0, <1>15, IdleKeeps DEF RowNotSaved, Jobs, JobTypes
<1> QED
  BY <1>1, <1>2, <1>3, <1>4, <1>5, <1>6, <1>7, <1>8, <1>9, <1>10, <1>11,
     <1>12, <1>13, <1>14, <1>15 DEF Step

LEMMA NextKeepsJobs == TypedJobs /\ [Next]_vars => TypedJobs'
<1> SUFFICES ASSUME TypedJobs, [Next]_vars PROVE TypedJobs'
  OBVIOUS
<1> USE DEF TypedJobs, TypeOK
<1>0. Jobs /\ Ticker \in Procs /\ Requests \subseteq Procs
  BY DEF Jobs, JobTypes, Procs
<1>1. CASE CheckExports
  <2>1. "check" \in Ops /\ "batch" \in Pc /\ Begin(Ticker, "check", "batch")
    BY <1>1 DEF CheckExports, Ops, Pc
  <2>2. TypeOK'
    BY <1>0, <1>1, <2>1, BeginTypes DEF CheckExports, Begin
  <2>3. JobInv'
    <3>1. JobTypes' /\ todo[Ticker] = {}
      BY <1>0, <1>1, <2>1, <2>2 DEF JobTypes, JobInv, Begin
    <3> QED
      BY <1>0, <1>1, <2>1, <3>1, BeginKeeps DEF CheckExports, InHand
  <2> QED
    BY <2>2, <2>3
<1>2. CASE LoadBatch
  BY <1>0, <1>2 DEF LoadBatch, Pending, Goto, Pc, JobInv, InHand, Connected
<1>3. CASE NothingToDo
  BY <1>0, <1>3, IdleKeeps DEF NothingToDo, Jobs, JobTypes
<1>4. ASSUME NEW r \in Requests, Request(r) PROVE TypedJobs'
  <2>0. r \in Procs /\ r # Ticker
    BY <1>0, SftpExportAssumption
  <2>1. ASSUME NEW b \in Backups, ExportBackup(r, b) PROVE TypedJobs'
    <3>1. "export" \in Ops /\ "dial" \in Pc /\ Begin(r, "export", "dial")
      BY <2>1 DEF ExportBackup, Ops, Pc
    <3>2. TypeOK'
      BY <2>0, <2>1, <3>1, BeginTypes DEF ExportBackup, Begin
    <3>3. JobInv'
      BY <2>0, <2>1, <3>1, <3>2, BeginKeeps
         DEF ExportBackup, JobTypes, InHand
    <3> QED
      BY <3>2, <3>3
  <2>2. CASE PostSync(r)
    <3>1. "sync" \in Ops /\ "next" \in Pc /\ Begin(r, "sync", "next")
      BY <2>2 DEF PostSync, Ops, Pc
    <3>2. PICK found \in {Nodes, {}} : todo' = [todo EXCEPT ![r] = found]
      BY <2>2 DEF PostSync
    <3>3. UNCHANGED <<began, batch, cur>>
      BY <2>2 DEF PostSync
    <3>4. TypeOK'
      BY <2>0, <3>1, <3>2, <3>3, BeginTypes DEF Begin
    <3>5. JobInv'
      BY <2>0, <3>1, <3>2, <3>3, <3>4, BeginKeeps DEF JobTypes, InHand
    <3> QED
      BY <3>4, <3>5
  <2>3. CASE TestSFTPConnection(r)
    <3>1. "test" \in Ops /\ "dial" \in Pc /\ Begin(r, "test", "dial")
      BY <2>3 DEF TestSFTPConnection, Ops, Pc
    <3>2. TypeOK'
      BY <2>0, <2>3, <3>1, BeginTypes DEF TestSFTPConnection, Begin
    <3>3. JobInv'
      BY <2>0, <2>3, <3>1, <3>2, BeginKeeps
         DEF TestSFTPConnection, JobTypes, InHand
    <3> QED
      BY <3>2, <3>3
  <2>4. CASE SaveSettings(r)
    <3>1. "save" \in Ops /\ "save" \in Pc /\ Begin(r, "save", "save")
      BY <2>4 DEF SaveSettings, Ops, Pc
    <3>2. TypeOK'
      BY <2>0, <2>4, <3>1, BeginTypes DEF SaveSettings, Begin
    <3>3. JobInv'
      BY <2>0, <2>4, <3>1, <3>2, BeginKeeps
         DEF SaveSettings, JobTypes, InHand
    <3> QED
      BY <3>2, <3>3
  <2> QED
    BY <1>4, <2>1, <2>2, <2>3, <2>4 DEF Request
<1>5. ASSUME NEW p \in Procs, Step(p) PROVE TypedJobs'
  BY <1>5, StepKeepsJobs
<1>6. ASSUME NEW b \in Backups, NewBackup(b) PROVE TypedJobs'
  BY <1>6 DEF NewBackup, jobVars, JobInv
<1>7. ASSUME NEW n \in Nodes, DeleteNode(n) PROVE TypedJobs'
  BY <1>7 DEF DeleteNode, jobVars, JobInv
<1>8. CASE SyncTime
  BY <1>8 DEF SyncTime, jobVars, JobInv
<1>9. CASE Midnight
  BY <1>9 DEF Midnight, Before, Row, JobInv
<1>10. CASE Crash
  BY <1>0, <1>10, IdleKeeps DEF Crash, Jobs, JobTypes
<1>11. CASE UNCHANGED vars
  BY <1>11 DEF vars, jobVars, JobInv
<1> QED
  BY <1>1, <1>2, <1>3, <1>4, <1>5, <1>6, <1>7, <1>8, <1>9, <1>10, <1>11
     DEF Next

(* Every variable of the export keeps its type: a process that transfers   *)
(* has a version to transfer.                                              *)
THEOREM TypeCorrect == Spec => []TypeOK
<1>1. TypedJobs => TypeOK
  BY DEF TypedJobs
<1> QED
  BY <1>1, JobsInit, NextKeepsJobs, PTL DEF Spec

-----------------------------------------------------------------------------
(* Who changes what: an action of one process leaves the others alone.     *)
Untouched(q) ==
  /\ pc'[q] = pc[q] /\ op'[q] = op[q] /\ mine'[q] = mine[q]
  /\ todo'[q] = todo[q] /\ batch'[q] = batch[q] /\ cur'[q] = cur[q]
  /\ offered'[q] = offered[q] /\ failed'[q] = failed[q]

LEMMA StepFrame ==
  ASSUME TypedJobs, NEW p \in Procs, Step(p), NEW q \in Procs, q # p
  PROVE  Untouched(q)
<1> USE DEF TypedJobs, TypeOK, Untouched
<1>1. ASSUME Idle({p}) PROVE Untouched(q)
  BY <1>1 DEF Idle, Clear
<1>2. ASSUME GiveUp(p) PROVE Untouched(q)
  BY <1>1, <1>2 DEF GiveUp, Goto
<1>3. ASSUME NEW k, Accept(p, k) PROVE Untouched(q)
  BY <1>1, <1>3 DEF Accept, Goto
<1>4. ASSUME Counted(p) PROVE Untouched(q)
  BY <1>1, <1>4 DEF Counted, Goto
<1>5. CASE NextPending(p) \/ NextNode(p) \/ LoopEnds(p)
  BY <1>5 DEF NextPending, NextNode, LoopEnds, Goto
<1>6. CASE Dial(p) \/ DialFirst(p)
  BY <1>2, <1>3, <1>6 DEF Dial, DialFirst, Goto
<1>7. CASE Pin(p) \/ AlreadyPinned(p) \/ Reload(p)
  BY <1>2, <1>3, <1>7 DEF Pin, AlreadyPinned, Reload, Goto
<1>8. CASE Send(p) \/ TransferFails(p) \/ Mark(p) \/ Unmarked(p)
  BY <1>2, <1>4, <1>8 DEF Send, TransferFails, Mark, Unmarked, MarkFails, Goto
<1>9. CASE Finish(p) \/ Save(p) \/ RowNotSaved(p)
  BY <1>1, <1>9 DEF Finish, Save, RowNotSaved
<1> QED
  BY <1>5, <1>6, <1>7, <1>8, <1>9 DEF Step

-----------------------------------------------------------------------------
(* What a step does to the versions: only Send writes, only Mark marks.    *)
LEMMA StepVersions ==
  ASSUME TypedJobs, NEW p \in Procs, Step(p)
  PROVE  /\ sent \subseteq sent'
         /\ \/ state' = state
            \/ /\ pc[p] = "mark" /\ sent' = sent
               /\ state' = [state EXCEPT ![cur[p]] = "exported"]
<1>1. CASE NextPending(p) \/ NextNode(p) \/ LoopEnds(p)
  BY <1>1 DEF NextPending, NextNode, LoopEnds
<1>2. CASE Dial(p) \/ DialFirst(p) \/ Pin(p) \/ AlreadyPinned(p) \/ Reload(p)
  BY <1>2 DEF Dial, DialFirst, Pin, AlreadyPinned, Reload
<1>3. CASE Send(p) \/ TransferFails(p) \/ Mark(p) \/ Unmarked(p)
  BY <1>3 DEF Send, Written, TransferFails, Mark, Unmarked
<1>4. CASE Finish(p) \/ Save(p) \/ RowNotSaved(p)
  BY <1>4 DEF Finish, Save, RowNotSaved
<1> QED
  BY <1>1, <1>2, <1>3, <1>4 DEF Step

LEMMA RequestFrame ==
  ASSUME NEW r \in Requests, Request(r)
  PROVE  UNCHANGED <<state, sent, row, outdated>>
BY DEF Request, ExportBackup, PostSync, TestSFTPConnection, SaveSettings, Begin

LEMMA ExportedStep ==
  TypedJobs /\ ExportedWasSent /\ [Next]_vars => ExportedWasSent'
<1> SUFFICES ASSUME TypedJobs, ExportedWasSent, [Next]_vars
             PROVE  ExportedWasSent'
  OBVIOUS
<1> USE DEF ExportedWasSent
<1>1. CASE CheckExports \/ LoadBatch \/ NothingToDo
  BY <1>1 DEF CheckExports, Begin, LoadBatch, NothingToDo
<1>2. ASSUME NEW r \in Requests, Request(r) PROVE ExportedWasSent'
  BY <1>2, RequestFrame
<1>3. ASSUME NEW p \in Procs, Step(p) PROVE ExportedWasSent'
  <2>1. pc[p] = "mark" => cur[p] \in sent
    BY DEF TypedJobs, JobInv
  <2> QED
    BY <1>3, <2>1, StepVersions DEF TypedJobs, TypeOK
<1>4. ASSUME NEW b \in Backups, NewBackup(b) PROVE ExportedWasSent'
  BY <1>4 DEF NewBackup, TypedJobs, TypeOK
<1>5. ASSUME NEW n \in Nodes, DeleteNode(n) PROVE ExportedWasSent'
  BY <1>5 DEF DeleteNode
<1>6. CASE SyncTime \/ Midnight \/ Crash
  BY <1>6 DEF SyncTime, Midnight, Crash
<1>7. CASE UNCHANGED vars
  BY <1>7 DEF vars
<1> QED
  BY <1>1, <1>2, <1>3, <1>4, <1>5, <1>6, <1>7 DEF Next

(* However the exports cross each other, crash and fail, a version counts  *)
(* as exported only when its file has been written: CheckExports and the   *)
(* handlers set the flag after Export has returned without an error.       *)
THEOREM ExportedMeansSent == Spec => []ExportedWasSent
<1>1. Init => ExportedWasSent
  BY DEF Init, ExportedWasSent
<1> QED
  BY <1>1, JobsInit, NextKeepsJobs, ExportedStep, PTL DEF Spec

-----------------------------------------------------------------------------
(* A batch that has not failed so far is marked but for what is left of it *)
(* and what is in hand.                                                    *)
Done(b) == state[b] \in {"exported", "deleted"}

BatchInv ==
  (pc[Ticker] \in {"next", "finish"} \cup InHand /\ ~failed[Ticker]) =>
     \A b \in batch[Ticker] :
        \/ Done(b)
        \/ pc[Ticker] # "finish" /\ b \in todo[Ticker]
        \/ pc[Ticker] \in InHand /\ b = cur[Ticker]

LEMMA TickerStep ==
  ASSUME TypedJobs, BatchInv, Step(Ticker)
  PROVE  BatchInv'
<1> USE TickerIsProc DEF BatchInv, Done, InHand, TypedJobs, TypeOK
<1>0. op[Ticker] = IF pc[Ticker] = "idle" THEN "none" ELSE "check"
  BY DEF JobInv
<1>1. CASE NextPending(Ticker)
  BY <1>1 DEF NextPending, Goto
<1>2. CASE NextNode(Ticker)
  BY <1>0, <1>2 DEF NextNode
<1>3. CASE LoopEnds(Ticker)
  BY <1>3 DEF LoopEnds, Goto
<1>4. ASSUME GiveUp(Ticker) \/ Idle({Ticker}) PROVE BatchInv'
  BY <1>4 DEF GiveUp, Goto, Idle, Clear
<1>5. ASSUME NEW k, Accept(Ticker, k), pc[Ticker] \in InHand, state' = state
      PROVE  BatchInv'
  BY <1>0, <1>5 DEF Accept, Goto
<1>6. CASE Dial(Ticker)
  BY <1>4, <1>5, <1>6 DEF Dial
<1>7. CASE DialFirst(Ticker) \/ AlreadyPinned(Ticker)
  BY <1>7 DEF DialFirst, AlreadyPinned, Goto
<1>8. CASE Pin(Ticker) \/ Reload(Ticker)
  BY <1>4, <1>5, <1>8 DEF Pin, Reload
<1>9. CASE Send(Ticker)
  BY <1>9 DEF Send, Goto
<1>10. CASE TransferFails(Ticker)
  BY <1>4, <1>10 DEF TransferFails
<1>11. CASE Mark(Ticker)
  BY <1>0, <1>11 DEF Mark, Counted, Goto, JobInv
<1>12. CASE Unmarked(Ticker)
  BY <1>0, <1>4, <1>12 DEF Unmarked, MarkFails
<1>13. CASE Finish(Ticker) \/ Save(Ticker) \/ RowNotSaved(Ticker)
  BY <1>4, <1>13 DEF Finish, Save, RowNotSaved
<1> QED
  BY <1>1, <1>2, <1>3, <1>6, <1>7, <1>8, <1>9, <1>10, <1>11, <1>12, <1>13
     DEF Step

LEMMA BatchStep == TypedJobs /\ BatchInv /\ [Next]_vars => BatchInv'
<1> SUFFICES ASSUME TypedJobs, BatchInv, [Next]_vars PROVE BatchInv'
  OBVIOUS
<1> USE TickerIsProc DEF BatchInv, Done, InHand, TypedJobs, TypeOK
<1>1. CASE CheckExports
  BY <1>1 DEF CheckExports, Begin, Goto
<1>2. CASE LoadBatch
  BY <1>2 DEF LoadBatch, Goto
<1>3. CASE NothingToDo
  BY <1>3 DEF NothingToDo, Idle, Clear
<1>4. ASSUME NEW r \in Requests, Request(r) PROVE BatchInv'
  <2>1. r # Ticker /\ r \in Procs
    BY SftpExportAssumption DEF Procs
  <2>2. Untouched(Ticker)
    BY <1>4, <2>1 DEF Request, ExportBackup, PostSync, TestSFTPConnection,
       SaveSettings, Begin, Goto, Untouched
  <2> QED
    BY <1>4, <2>2, RequestFrame DEF Untouched
<1>5. ASSUME NEW p \in Procs, Step(p) PROVE BatchInv'
  <2>1. CASE p = Ticker
    BY <1>5, <2>1, TickerStep
  <2>2. CASE p # Ticker
    <3>1. Untouched(Ticker)
      BY <1>5, <2>2, StepFrame
    <3>2. \A b \in Backups : Done(b) => Done(b)'
      BY <1>5, StepVersions
    <3>3. batch[Ticker] \subseteq Backups
      OBVIOUS
    <3> QED
      BY <3>1, <3>2, <3>3 DEF Untouched
  <2> QED
    BY <2>1, <2>2
<1>6. ASSUME NEW b \in Backups, NewBackup(b) PROVE BatchInv'
  BY <1>6 DEF NewBackup, jobVars
<1>7. ASSUME NEW n \in Nodes, DeleteNode(n) PROVE BatchInv'
  <2>1. \A b \in Backups : Done(b) => Done(b)'
    BY <1>7 DEF DeleteNode
  <2>2. batch[Ticker] \subseteq Backups
    OBVIOUS
  <2> QED
    BY <1>7, <2>1, <2>2 DEF DeleteNode, jobVars
<1>8. CASE SyncTime \/ Midnight
  BY <1>8 DEF SyncTime, Midnight, jobVars
<1>9. CASE Crash
  BY <1>9 DEF Crash, Idle, Clear
<1>10. CASE UNCHANGED vars
  BY <1>10 DEF vars, jobVars
<1> QED
  BY <1>1, <1>2, <1>3, <1>4, <1>5, <1>6, <1>7, <1>8, <1>9, <1>10 DEF Next

(* A batch of any size that CheckExports reports as a success was exported *)
(* as a whole, although requests export, delete and sync meanwhile.        *)
THEOREM SuccessMeansComplete == Spec => []SuccessIsComplete
<1>1. Init => BatchInv
  BY TickerIsProc DEF Init, NoJobs, BatchInv, InHand
<1>2. BatchInv => SuccessIsComplete
  BY DEF BatchInv, SuccessIsComplete, Done, InHand
<1> QED
  BY <1>1, <1>2, JobsInit, NextKeepsJobs, BatchStep, PTL DEF Spec

-----------------------------------------------------------------------------
(* Until somebody saves over a newer row, what a process has loaded agrees *)
(* with the row, but that it may not know of a key yet.                    *)
Agrees(p) ==
  pc[p] \notin {"idle", "save"} =>
     /\ mine[p].addr = row.addr
     /\ mine[p].fp # NoKey => mine[p].fp = row.fp
     /\ pc[p] \in Connected => offered[p] = row.fp

TrustInv == ~outdated => \A p \in Procs : Agrees(p)

(* A request begins with what the row says.                                *)
LEMMA BeginAgrees ==
  ASSUME TypedJobs, TrustInv, NEW p \in Procs, NEW handler \in Ops,
         NEW label \in Pc \ Connected, Begin(p, handler, label),
         handler = "save" => label = "save"
  PROVE  TrustInv'
<1>1. /\ pc' = [pc EXCEPT ![p] = label]
      /\ mine' = [mine EXCEPT ![p] = Loaded(handler)]
      /\ UNCHANGED <<row, offered, outdated>>
  BY DEF Begin, Goto
<1>2. handler # "save" =>
        Loaded(handler).addr = row.addr /\ Loaded(handler).fp = row.fp
  BY AnyRowType DEF Loaded, TypedJobs, TypeOK, Row
<1> QED
  BY <1>1, <1>2 DEF TrustInv, Agrees, TypedJobs, TypeOK

(* The process itself: a key that it accepts is the key in the row.        *)
LEMMA AcceptAgrees ==
  ASSUME TypedJobs, NEW p \in Procs, NEW k \in Keys, Accept(p, k),
         mine[p].addr = row'.addr, k = row'.fp
  PROVE  Agrees(p)'
<1>1. CASE op[p] = "test"
  BY <1>1 DEF Accept, Idle, Clear, Agrees, TypedJobs, TypeOK
<1>2. CASE op[p] # "test"
  BY <1>2 DEF Accept, Goto, Agrees, TypedJobs, TypeOK, Row
<1> QED
  BY <1>1, <1>2

LEMMA GiveUpAgrees ==
  ASSUME TypedJobs, NEW p \in Procs, Agrees(p), pc[p] \notin {"idle", "save"},
         GiveUp(p), row' = row
  PROVE  Agrees(p)'
<1>1. CASE op[p] \in {"check", "sync"}
  BY <1>1 DEF GiveUp, Goto, Agrees, Connected, TypedJobs, TypeOK
<1>2. CASE op[p] \notin {"check", "sync"}
  BY <1>2 DEF GiveUp, Idle, Clear, Agrees, TypedJobs, TypeOK
<1> QED
  BY <1>1, <1>2

(* The others: they see the same address, and a key where none was.        *)
LEMMA OthersAgree ==
  ASSUME TypedJobs, NEW p \in Procs, Step(p), NEW q \in Procs, q # p,
         Agrees(q), row'.addr = row.addr, row.fp = NoKey \/ row'.fp = row.fp
  PROVE  Agrees(q)'
<1>1. Untouched(q)
  BY StepFrame
<1>2. pc[q] \in Connected => offered[q] \in Keys
  BY DEF TypedJobs, JobInv, Connected, InHand
<1>3. NoKey \notin Keys
  BY SftpExportAssumption
<1> QED
  BY <1>1, <1>2, <1>3 DEF Agrees, Untouched

LEMMA TrustStep ==
  ASSUME TypedJobs, TrustInv, NEW p \in Procs, Step(p)
  PROVE  TrustInv'
<1> USE DEF TypedJobs, TypeOK
<1> SUFFICES ASSUME ~outdated' PROVE \A q \in Procs : Agrees(q)'
  BY DEF TrustInv
<1>1. CASE Save(p)
  <2>1. PICK a \in Addrs, on \in Switch :
          /\ row' = [mine[p] EXCEPT !.addr = a, !.enabled = on,
                        !.fp = IF a = mine[p].addr THEN @ ELSE NoKey]
          /\ outdated' = (outdated \/ ~SameServer(mine[p], row)
               \/ (a # row.addr /\ \E q \in Procs \ {p} : pc[q] # "idle"))
    BY <1>1 DEF Save
  <2>2. ~outdated /\ SameServer(mine[p], row)
    BY <2>1
  <2>3. pc'[p] = "idle"
    BY <1>1 DEF Save, Idle, Clear
  <2>4. CASE a = row.addr
    <3>1. row'.addr = row.addr /\ row'.fp = row.fp
      BY <2>1, <2>2, <2>4 DEF SameServer, Row
    <3> QED
      BY <1>1, <2>2, <2>3, <3>1, OthersAgree DEF TrustInv, Agrees, Step
  <2>5. CASE a # row.addr
    <3>1. \A q \in Procs : q # p => pc[q] = "idle"
      BY <2>1, <2>5
    <3>2. \A q \in Procs : pc'[q] = "idle"
      BY <2>3, <3>1, StepFrame DEF Untouched
    <3> QED
      BY <3>2 DEF Agrees
  <2> QED
    BY <2>4, <2>5
<1>2. CASE ~Save(p)
  <2>0. ~outdated /\ \A q \in Procs : Agrees(q)
    <3>1. outdated => outdated'
      BY <1>2 DEF Step, NextPending, NextNode, LoopEnds, Dial, DialFirst, Pin,
         AlreadyPinned, Reload, Send, TransferFails, Mark, Unmarked, Finish,
         RowNotSaved
    <3> QED
      BY <3>1 DEF TrustInv
  <2>1. Agrees(p)' /\ row'.addr = row.addr /\ (row.fp = NoKey \/ row'.fp = row.fp)
    <3>0. Agrees(p)
      BY <2>0
    <3>1. CASE NextPending(p) \/ NextNode(p) \/ LoopEnds(p)
      BY <3>0, <3>1 DEF NextPending, NextNode, LoopEnds, Goto, Agrees, Connected
    <3>2. CASE Dial(p)
      <4>1. PICK k \in Presents[mine[p].addr] :
              IF k = mine[p].fp THEN Accept(p, k) ELSE GiveUp(p)
        BY <3>2 DEF Dial
      <4>2. k \in Keys /\ row' = row /\ pc[p] = "dial" /\ mine[p].fp # NoKey
        BY <3>2, <4>1 DEF Dial, Keys, Row
      <4> QED
        BY <3>0, <4>1, <4>2, AcceptAgrees, GiveUpAgrees DEF Agrees
    <3>3. CASE DialFirst(p) \/ AlreadyPinned(p)
      BY <3>0, <3>3 DEF DialFirst, AlreadyPinned, Goto, Agrees, Connected
    <3>4. CASE Pin(p)
      <4>1. offered[p] \in Keys
        BY <3>4 DEF Pin, JobInv, InHand
      <4>2. /\ row' = [row EXCEPT !.fp = offered[p]] /\ row.fp = NoKey
            /\ pc[p] = "pin" /\ Accept(p, offered[p])
        BY <3>4 DEF Pin, Pinned
      <4>3. row'.addr = row.addr /\ row'.fp = offered[p]
        BY <4>2 DEF Row
      <4>4. mine[p].addr = row'.addr
        BY <3>0, <4>2, <4>3 DEF Agrees
      <4> QED
        BY <4>1, <4>2, <4>3, <4>4, AcceptAgrees
    <3>5. CASE Reload(p)
      <4>1. offered[p] \in Keys /\ pc[p] = "reload" /\ row' = row
        BY <3>5 DEF Reload, JobInv, InHand
      <4> QED
        BY <3>0, <3>5, <4>1, AcceptAgrees, GiveUpAgrees DEF Reload, Agrees
    <3>6. CASE Send(p)
      BY <3>0, <3>6 DEF Send, Goto, Agrees, Connected
    <3>7. CASE TransferFails(p)
      BY <3>0, <3>7, GiveUpAgrees DEF TransferFails
    <3>8. ASSUME Counted(p), pc[p] = "mark", row' = row PROVE Agrees(p)'
      BY <3>0, <3>8 DEF Counted, Goto, Idle, Clear, Agrees, Connected
    <3>9. CASE Mark(p) \/ Unmarked(p)
      BY <3>0, <3>8, <3>9, GiveUpAgrees DEF Mark, Unmarked, MarkFails
    <3>10. CASE Finish(p)
      <4>1. pc'[p] = "idle"
        BY <3>10 DEF Finish, Idle, Clear
      <4>2. SameServer(mine[p], row)
        BY <3>10 DEF Finish
      <4>3. row'.addr = mine[p].addr /\ row'.fp = mine[p].fp
        BY <3>10 DEF Finish, Row
      <4> QED
        BY <4>1, <4>2, <4>3 DEF SameServer, Agrees
    <3>11. CASE RowNotSaved(p)
      BY <3>11 DEF RowNotSaved, Idle, Clear, Agrees
    <3> QED
      BY <1>2, <3>1, <3>2, <3>3, <3>4, <3>5, <3>6, <3>7, <3>9, <3>10, <3>11
         DEF Step
  <2> QED
    BY <2>0, <2>1, OthersAgree
<1> QED
  BY <1>1, <1>2

LEMMA TrustNext == TypedJobs /\ TrustInv /\ [Next]_vars => TrustInv'
<1> SUFFICES ASSUME TypedJobs, TrustInv, [Next]_vars PROVE TrustInv'
  OBVIOUS
<1>0. Ticker \in Procs /\ Requests \subseteq Procs
  BY DEF Procs
<1>1. CASE CheckExports
  <2>1. "check" \in Ops /\ "batch" \in Pc \ Connected
    BY DEF Ops, Pc, Connected
  <2> QED
    BY <1>0, <1>1, <2>1, BeginAgrees DEF CheckExports
<1>2. CASE LoadBatch
  BY <1>0, <1>2
     DEF LoadBatch, Goto, TrustInv, Agrees, Connected, TypedJobs, TypeOK
<1>3. CASE NothingToDo
  BY <1>3 DEF NothingToDo, Idle, Clear, TrustInv, Agrees, TypedJobs, TypeOK
<1>4. ASSUME NEW r \in Requests, Request(r) PROVE TrustInv'
  <2>1. {"export", "sync", "test", "save"} \subseteq Ops
    BY DEF Ops
  <2>2. {"dial", "next", "save"} \subseteq Pc \ Connected
    BY DEF Pc, Connected
  <2> QED
    BY <1>0, <1>4, <2>1, <2>2, BeginAgrees
       DEF Request, ExportBackup, PostSync, TestSFTPConnection, SaveSettings
<1>5. ASSUME NEW p \in Procs, Step(p) PROVE TrustInv'
  BY <1>5, TrustStep
<1>6. ASSUME NEW b \in Backups, NewBackup(b) PROVE TrustInv'
  BY <1>6 DEF NewBackup, jobVars, TrustInv, Agrees
<1>7. ASSUME NEW n \in Nodes, DeleteNode(n) PROVE TrustInv'
  BY <1>7 DEF DeleteNode, jobVars, TrustInv, Agrees
<1>8. CASE SyncTime
  BY <1>8 DEF SyncTime, jobVars, TrustInv, Agrees
<1>9. CASE Midnight
  BY <1>9 DEF Midnight, Before, TrustInv, Agrees, TypedJobs, TypeOK, Row
<1>10. CASE Crash
  BY <1>10 DEF Crash, Idle, Clear, TrustInv, Agrees, TypedJobs, TypeOK
<1>11. CASE UNCHANGED vars
  BY <1>11 DEF vars, jobVars, TrustInv, Agrees
<1> QED
  BY <1>1, <1>2, <1>3, <1>4, <1>5, <1>6, <1>7, <1>8, <1>9, <1>10, <1>11
     DEF Next

(* Of any number of first connections, offered any keys, one key wins, and *)
(* every file goes to the server that has the key in the row - as long as  *)
(* nobody saves the row over a newer one or changes the address under a    *)
(* request.                                                                *)
THEOREM FirstUseTrusted == Spec => []OneKeyTrusted
<1>1. Init => TrustInv
  BY DEF Init, NoJobs, TrustInv, Agrees
<1>2. TrustInv => OneKeyTrusted
  BY DEF TrustInv, Agrees, OneKeyTrusted, Connected
<1> QED
  BY <1>1, <1>2, JobsInit, NextKeepsJobs, TrustNext, PTL DEF Spec
=============================================================================
