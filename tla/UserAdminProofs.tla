-------------------------- MODULE UserAdminProofs --------------------------
(* UserAdmin for any set of accounts and any number of requests: the type  *)
(* invariant, that an administrator remains, that the setup runs once and  *)
(* that deleted accounts stay deleted.                                     *)
EXTENDS UserAdmin, FiniteSetTheorems, TLAPS

(* The handlers between Lock and Unlock.                                   *)
Holding(r) == form[r].op # "profile" /\ pc[r] \in {"load", "check", "write"}

MutexInv ==
  /\ \A r \in Requests : Holding(r) => mutex
  /\ \A r, q \in Requests : Holding(r) /\ Holding(q) => r = q

(* A request under way has a form, and a profile is written from a row     *)
(* that was live.                                                          *)
FormInv ==
  \A r \in Requests :
     /\ pc[r] # "idle" => form[r] \in Form
     /\ (pc[r] # "idle" /\ form[r].op = "setup") => form[r].admin
     /\ pc[r] \in {"lock", "check"} => form[r].op # "profile"
     /\ (pc[r] = "write" /\ form[r].op = "profile") => row[r].state = "live"

(* The handler that holds the mutex writes to the row that it has loaded:  *)
(* nobody else deletes it.                                                 *)
TargetInv ==
  \A r \in Requests :
     (pc[r] \in {"check", "write"} /\ form[r].op = "save") => IsLive(form[r].id)

(* And what it checked is still true when it writes.                       *)
Checked(r) ==
  /\ (form[r].op = "delete" \/ (form[r].op = "save" /\ ~form[r].admin)) =>
        Admins # {form[r].id}
  /\ form[r].op = "setup" => ~HasUsers

CheckedInv ==
  /\ \A r \in Requests :
        (pc[r] = "check" /\ form[r].op = "delete") => row[r] = users[form[r].id]
  /\ \A r \in Requests : pc[r] = "write" => Checked(r)
  /\ AdminRemains
  /\ \A i, j \in founders : i = j

(* The inductive invariant.                                                *)
IInv == /\ TypeOK /\ MutexInv /\ FormInv /\ TargetInv
        /\ (~unchecked => CheckedInv)

-----------------------------------------------------------------------------
LEMMA NoProfileName ==
  /\ "save" # "profile" /\ "create" # "profile"
  /\ "delete" # "profile" /\ "setup" # "profile"
  /\ NoForm.op = "none"
BY DEF NoForm

THEOREM TypeInit == Init => TypeOK
<1> NoRow \in Row
  BY DEF NoRow, Row
<1> QED BY DEF Init, TypeOK, Pc

(* A handler that returns leaves every variable with its type.             *)
LEMMA ReturnType ==
  ASSUME TypeOK, NEW r \in Requests, Return(r)
  PROVE  /\ mutex' \in BOOLEAN
         /\ pc' \in [Requests -> Pc]
         /\ form' \in [Requests -> Form \cup {NoForm}]
         /\ row' \in [Requests -> Row]
BY DEF TypeOK, Return, Goto, Unlock, Pc, Row, NoRow

(* Forms come with an account of the table and an operation.               *)
LEMMA FormFields ==
  ASSUME NEW f \in Form
  PROVE  f.op \in Ops /\ f.by \in Ids /\ f.id \in Ids /\ f.admin \in BOOLEAN
BY DEF Form

LEMMA SaveType ==
  ASSUME TypeOK, NEW i \in Ids, NEW admin \in BOOLEAN, Save(i, admin)
  PROVE  /\ users' \in [Ids -> Row]
         /\ users'[i].state # "none"
         /\ \A f \in founders : users'[f].state # "none"
BY DEF TypeOK, Save, Live, Row

LEMMA SoftDeleteType ==
  ASSUME TypeOK, NEW i \in Ids, SoftDelete(i)
  PROVE  /\ users' \in [Ids -> Row]
         /\ \A f \in founders : users'[f].state # "none"
<1>1. /\ [users[i] EXCEPT !.state = IF @ = "live" THEN "deleted" ELSE @] \in Row
      /\ users[i].state # "none" =>
           [users[i] EXCEPT !.state = IF @ = "live" THEN "deleted" ELSE @].state
             # "none"
  BY DEF TypeOK, Row
<1> QED BY <1>1 DEF TypeOK, SoftDelete

THEOREM TypeStep ==
  ASSUME TypeOK, FormInv, [Next]_vars
  PROVE  TypeOK'
<1>1. ASSUME NEW r \in Requests, Admit(r) PROVE TypeOK'
  <2>1. PICK f \in Form :
           /\ form' = [form EXCEPT ![r] = f]
           /\ Goto(r, IF f.op = "profile" THEN "load" ELSE "lock")
    BY <1>1 DEF Admit, SetupForms, ProfileForms, UserForms
  <2> QED BY <1>1, <2>1 DEF Admit, TypeOK, Goto, Pc
<1>2. ASSUME NEW r \in Requests, TakeMutex(r) PROVE TypeOK'
  BY <1>2 DEF TakeMutex, TypeOK, Goto, Lock, Pc
<1>3. ASSUME NEW r \in Requests, Load(r) PROVE TypeOK'
  <2>1. form[r].id \in Ids
    BY <1>3, FormFields DEF Load, FormInv
  <2> QED BY <1>3, <2>1 DEF Load, TypeOK, Goto, Pc, Row, NoRow
<1>4. ASSUME NEW r \in Requests, Check(r) PROVE TypeOK'
  BY <1>4 DEF Check, TypeOK, Goto, Pc
<1>5. ASSUME NEW r \in Requests, Write(r) PROVE TypeOK'
  <2> USE <1>5
  <2>1. form[r] \in Form /\ form[r].id \in Ids /\ form[r].admin \in BOOLEAN
    BY FormFields DEF Write, FormInv
  <2>2. row[r].admin \in BOOLEAN
    BY DEF TypeOK, Row
  <2>3. CASE WriteAccount(r)
    BY <2>1, <2>3, SaveType, ReturnType DEF WriteAccount, Write, TypeOK
  <2>4. CASE WriteProfile(r)
    <3>1. /\ users' \in [Ids -> Row]
          /\ \A f \in founders : users'[f].state # "none"
      BY <2>1, <2>2, <2>4, SaveType DEF WriteProfile
    <3>2. unchecked' \in BOOLEAN
      BY <2>4 DEF WriteProfile, TypeOK
    <3> QED BY <2>4, <3>1, <3>2, ReturnType DEF WriteProfile, Write, TypeOK
  <2>5. CASE RemoveAccount(r)
    BY <2>1, <2>5, SoftDeleteType, ReturnType DEF RemoveAccount, Write, TypeOK
  <2>6. CASE InsertAccount(r)
    BY <2>1, <2>6, SaveType, ReturnType DEF InsertAccount, Write, TypeOK
  <2> QED BY <2>3, <2>4, <2>5, <2>6 DEF Write
<1>6. ASSUME NEW r \in Requests, Refuse(r) PROVE TypeOK'
  BY <1>6, ReturnType DEF Refuse, TypeOK
<1>7. ASSUME NEW r \in Requests, SkipCheck(r) PROVE TypeOK'
  BY <1>7 DEF SkipCheck, TypeOK, Goto, Pc
<1>8. CASE Restart
  BY <1>8 DEF Restart, TypeOK, Pc, Row, NoRow
<1>9. CASE UNCHANGED vars
  BY <1>9 DEF vars, TypeOK
<1> QED BY <1>1, <1>2, <1>3, <1>4, <1>5, <1>6, <1>7, <1>8, <1>9 DEF Next

-----------------------------------------------------------------------------
(* Return gives the mutex back when it was the holder that returned.       *)
LEMMA ReturnStep ==
  ASSUME TypeOK, MutexInv, NEW r \in Requests, Return(r),
         pc[r] \in {"load", "check", "write"}
  PROVE  MutexInv'
<1>1. \A q \in Requests : Holding(q)' => Holding(q) /\ q # r
  BY DEF TypeOK, Return, Goto, Holding
<1>2. CASE form[r].op = "profile"
  BY <1>1, <1>2 DEF Return, MutexInv
<1>3. CASE form[r].op # "profile"
  BY <1>1, <1>3 DEF MutexInv, Holding
<1> QED BY <1>2, <1>3

LEMMA MutexStep ==
  ASSUME TypeOK, MutexInv, FormInv, [Next]_vars
  PROVE  MutexInv'
<1>1. ASSUME NEW r \in Requests, Admit(r) PROVE MutexInv'
  <2>1. PICK f \in Form :
           /\ form' = [form EXCEPT ![r] = f]
           /\ Goto(r, IF f.op = "profile" THEN "load" ELSE "lock")
    BY <1>1 DEF Admit, SetupForms, ProfileForms, UserForms
  <2>2. \A q \in Requests : Holding(q)' => Holding(q)
    BY <1>1, <2>1 DEF Admit, TypeOK, Goto, Holding
  <2> QED BY <1>1, <2>2 DEF Admit, MutexInv
<1>2. ASSUME NEW r \in Requests, TakeMutex(r) PROVE MutexInv'
  <2>1. \A q \in Requests : Holding(q)' => Holding(q) \/ q = r
    BY <1>2 DEF TakeMutex, TypeOK, Goto, Holding
  <2>2. \A q \in Requests : ~Holding(q)
    BY <1>2 DEF TakeMutex, Lock, MutexInv
  <2> QED BY <1>2, <2>1, <2>2 DEF TakeMutex, Lock, MutexInv
<1>3. ASSUME NEW r \in Requests, Load(r) \/ Check(r) \/ SkipCheck(r)
      PROVE MutexInv'
  <2>1. \A q \in Requests : Holding(q)' => Holding(q)
    BY <1>3 DEF Load, Check, SkipCheck, TypeOK, Goto, Holding
  <2> QED BY <1>3, <2>1 DEF Load, Check, SkipCheck, MutexInv
<1>4. ASSUME NEW r \in Requests, Write(r) \/ Refuse(r) PROVE MutexInv'
  BY <1>4, ReturnStep DEF Write, Refuse
<1>5. CASE Restart
  BY <1>5 DEF Restart, MutexInv, Holding
<1>6. CASE UNCHANGED vars
  BY <1>6 DEF vars, MutexInv, Holding
<1> QED BY <1>1, <1>2, <1>3, <1>4, <1>5, <1>6 DEF Next

LEMMA FormStep ==
  ASSUME TypeOK, FormInv, [Next]_vars
  PROVE  FormInv'
<1>1. ASSUME NEW r \in Requests, Admit(r) PROVE FormInv'
  <2>1. PICK f \in Form :
           /\ f.op = "setup" => f.admin
           /\ form' = [form EXCEPT ![r] = f]
           /\ Goto(r, IF f.op = "profile" THEN "load" ELSE "lock")
    BY <1>1 DEF Admit, SetupForms, ProfileForms, UserForms
  <2> QED BY <1>1, <2>1 DEF Admit, TypeOK, Goto, FormInv
<1>2. ASSUME NEW r \in Requests, TakeMutex(r) \/ Check(r) \/ SkipCheck(r)
      PROVE FormInv'
  BY <1>2 DEF TakeMutex, Check, SkipCheck, TypeOK, Goto, FormInv
<1>3. ASSUME NEW r \in Requests, Load(r) PROVE FormInv'
  <2>1. form[r].op = "profile" => row'[r].state = "live"
    BY <1>3 DEF Load, TypeOK, IsLive
  <2> QED BY <1>3, <2>1 DEF Load, TypeOK, Goto, FormInv
<1>4. ASSUME NEW r \in Requests, Write(r) \/ Refuse(r) PROVE FormInv'
  BY <1>4 DEF Write, Refuse, Return, TypeOK, Goto, FormInv
<1>5. CASE Restart
  BY <1>5 DEF Restart, FormInv
<1>6. CASE UNCHANGED vars
  BY <1>6 DEF vars, FormInv
<1> QED BY <1>1, <1>2, <1>3, <1>4, <1>5, <1>6 DEF Next

-----------------------------------------------------------------------------
(* Saving a profile leaves live accounts live, and changes nothing at all  *)
(* when the row was still as it had been loaded.                           *)
LEMMA ProfileKeeps ==
  ASSUME TypeOK, FormInv, NEW r \in Requests, pc[r] = "write", WriteProfile(r)
  PROVE  /\ \A i \in Ids : IsLive(i) => IsLive(i)'
         /\ ~unchecked' => ~unchecked /\ users' = users
<1>1. form[r].id \in Ids
  BY FormFields DEF FormInv
<1>2. \A i \in Ids : IsLive(i) => IsLive(i)'
  BY <1>1 DEF WriteProfile, Save, Live, IsLive, TypeOK
<1>3. ASSUME ~unchecked' PROVE ~unchecked /\ users' = users
  <2>1. ~unchecked /\ users[form[r].id] = row[r]
    BY <1>3 DEF WriteProfile, TypeOK
  <2>2. row[r] = Live(row[r].admin)
    BY DEF FormInv, WriteProfile, TypeOK, Row, Live
  <2> QED BY <1>1, <2>1, <2>2 DEF WriteProfile, Save, TypeOK
<1> QED BY <1>2, <1>3

(* While one handler holds the mutex no other is about to write, except a  *)
(* profile.                                                                *)
LEMMA OneWriter ==
  ASSUME MutexInv, NEW r \in Requests, NEW q \in Requests, Holding(r), Holding(q)
  PROVE  q = r
BY DEF MutexInv

LEMMA TargetStep ==
  ASSUME TypeOK, MutexInv, FormInv, TargetInv, [Next]_vars
  PROVE  TargetInv'
<1>1. ASSUME NEW r \in Requests, Admit(r) PROVE TargetInv'
  <2>1. PICK f \in Form :
           /\ form' = [form EXCEPT ![r] = f]
           /\ Goto(r, IF f.op = "profile" THEN "load" ELSE "lock")
    BY <1>1 DEF Admit, SetupForms, ProfileForms, UserForms
  <2> QED BY <1>1, <2>1 DEF Admit, TypeOK, Goto, TargetInv, IsLive
<1>2. ASSUME NEW r \in Requests,
             TakeMutex(r) \/ Load(r) \/ Check(r) \/ SkipCheck(r)
      PROVE TargetInv'
  BY <1>2 DEF TakeMutex, Load, Check, SkipCheck, TypeOK, Goto, TargetInv, IsLive
<1>3. ASSUME NEW r \in Requests, Refuse(r) PROVE TargetInv'
  BY <1>3 DEF Refuse, Return, TypeOK, Goto, TargetInv, IsLive
<1>4. ASSUME NEW r \in Requests, Write(r) PROVE TargetInv'
  <2> SUFFICES ASSUME NEW q \in Requests,
                      pc'[q] \in {"check", "write"}, form'[q].op = "save"
               PROVE  users'[form'[q].id].state = "live"
    BY DEF TargetInv, IsLive
  <2>1. q # r /\ pc'[q] = pc[q] /\ form'[q] = form[q]
    BY <1>4 DEF Write, Return, Goto, TypeOK
  <2>2. IsLive(form[q].id) /\ form[q].id \in Ids
    BY <2>1, FormFields DEF TargetInv, FormInv
  <2>3. Holding(q)
    BY <2>1 DEF Holding
  <2>4. form[r].op = "profile"
    BY <1>4, <2>1, <2>3, OneWriter DEF Write, Holding
  <2>5. WriteProfile(r)
    BY <1>4, <2>4
       DEF Write, WriteAccount, WriteProfile, RemoveAccount, InsertAccount
  <2> QED BY <1>4, <2>1, <2>2, <2>5, ProfileKeeps DEF Write, IsLive
<1>5. CASE Restart
  BY <1>5 DEF Restart, TargetInv
<1>6. CASE UNCHANGED vars
  BY <1>6 DEF vars, TargetInv, IsLive
<1> QED BY <1>1, <1>2, <1>3, <1>4, <1>5, <1>6 DEF Next

-----------------------------------------------------------------------------
(* The count of DeleteUser: with more than one administrator, another one  *)
(* is left.                                                                *)
LEMMA AnotherAdmin ==
  ASSUME NEW i, Cardinality(Admins) > 1
  PROVE  Admins # {i}
<1>1. Cardinality({i}) = 1
  BY FS_Singleton
<1> QED BY <1>1

(* A user's deletion takes away at most that user's account.               *)
LEMMA DeletionOf ==
  ASSUME TypeOK, NEW i \in Ids, SoftDelete(i)
  PROVE  Admins' = Admins \ {i}
<1>1. users'[i].state # "live" /\ \A j \in Ids \ {i} : users'[j] = users[j]
  BY DEF TypeOK, SoftDelete, Row
<1> QED BY <1>1 DEF Admins, IsAdmin, IsLive

LEMMA SaveOf ==
  ASSUME TypeOK, NEW i \in Ids, NEW admin \in BOOLEAN, Save(i, admin)
  PROVE  Admins' = IF admin THEN Admins \cup {i} ELSE Admins \ {i}
<1>1. users'[i] = Live(admin) /\ \A j \in Ids \ {i} : users'[j] = users[j]
  BY DEF TypeOK, Save
<1> QED BY <1>1 DEF Admins, IsAdmin, IsLive, Live

(* Whoever passes the check of its handler may write.                      *)
LEMMA CheckStep ==
  ASSUME TypeOK, FormInv, CheckedInv, NEW r \in Requests, Check(r)
  PROVE  Checked(r)
<1>1. form[r].id \in Ids /\ form[r].admin \in BOOLEAN
  BY FormFields DEF Check, FormInv
<1>2. ASSUME form[r].op = "delete" PROVE Admins # {form[r].id}
  <2>1. row[r] = users[form[r].id]
    BY <1>2 DEF Check, CheckedInv
  <2>2. row[r].admin => Admins # {form[r].id}
    BY <1>2, AnotherAdmin DEF Check, DeleteAllowed
  <2> QED BY <2>1, <2>2 DEF Admins, IsAdmin
<1>3. ASSUME form[r].op = "save", ~form[r].admin PROVE Admins # {form[r].id}
  BY <1>3 DEF Check, SaveAllowed, Admins
<1>4. form[r].op = "setup" => ~HasUsers
  BY DEF Check, SetupAllowed
<1> QED BY <1>2, <1>3, <1>4 DEF Checked

(* What the steps that leave the table alone keep.                         *)
LEMMA CheckedSame ==
  ASSUME TypeOK, CheckedInv, UNCHANGED <<users, founders>>,
         \A q \in Requests :
            /\ pc'[q] = "write" => Checked(q)'
            /\ (pc'[q] = "check" /\ form'[q].op = "delete")
                  => row'[q] = users[form'[q].id]
  PROVE  CheckedInv'
<1>1. AdminRemains'
  BY DEF CheckedInv, AdminRemains, Admins, IsAdmin, IsLive
<1> QED BY <1>1 DEF CheckedInv

LEMMA CheckedStill ==
  ASSUME CheckedInv, NEW q \in Requests, pc[q] = "write", UNCHANGED users,
         form'[q] = form[q]
  PROVE  Checked(q)'
<1>1. Checked(q)
  BY DEF CheckedInv
<1> QED BY <1>1 DEF Checked, Admins, IsAdmin, IsLive, HasUsers

(* A holder of the mutex that writes leaves an administrator.              *)
LEMMA WriteLeavesAdmin ==
  ASSUME TypeOK, FormInv, CheckedInv, NEW r \in Requests, Write(r),
         form[r].op # "profile"
  PROVE  AdminRemains' /\ \A i, j \in founders' : i = j
<1>1. form[r].id \in Ids /\ form[r].admin \in BOOLEAN
  BY FormFields DEF Write, FormInv
<1>2. Checked(r) /\ AdminRemains /\ \A i, j \in founders : i = j
  BY DEF Write, CheckedInv
<1>3. CASE WriteAccount(r)
  <2>1. Admins' = IF form[r].admin THEN Admins \cup {form[r].id}
                  ELSE Admins \ {form[r].id}
    BY <1>1, <1>3, SaveOf DEF WriteAccount
  <2> QED BY <1>2, <1>3, <2>1 DEF WriteAccount, AdminRemains, Checked
<1>4. CASE RemoveAccount(r)
  <2>1. Admins' = Admins \ {form[r].id}
    BY <1>1, <1>4, DeletionOf DEF RemoveAccount
  <2> QED BY <1>2, <1>4, <2>1 DEF RemoveAccount, AdminRemains, Checked
<1>5. CASE InsertAccount(r)
  <2>1. PICK i \in Ids :
           /\ users[i] = NoRow
           /\ Save(i, form[r].admin)
           /\ founders' = IF form[r].op = "setup" THEN founders \cup {i}
                          ELSE founders
    BY <1>5 DEF InsertAccount
  <2>2. Admins' = IF form[r].admin THEN Admins \cup {i} ELSE Admins \ {i}
    BY <1>1, <2>1, SaveOf
  <2>3. i \notin Admins
    BY <2>1 DEF Admins, IsAdmin, IsLive, NoRow
  <2>4. CASE form[r].op = "setup"
    <3>1. Admins = {} /\ founders = {}
      BY <1>2, <2>4 DEF Checked, HasUsers, Admins, IsAdmin, AdminRemains
    <3>2. form[r].admin
      BY <2>4 DEF FormInv, Write
    <3> QED BY <2>1, <2>2, <2>4, <3>1, <3>2 DEF AdminRemains
  <2>5. CASE form[r].op # "setup"
    BY <1>2, <2>1, <2>2, <2>3, <2>5 DEF AdminRemains
  <2> QED BY <2>4, <2>5
<1> QED BY <1>3, <1>4, <1>5 DEF Write, WriteProfile

(* The steps that do not write.                                            *)
LEMMA CheckedQuiet ==
  ASSUME TypeOK, FormInv, CheckedInv, NEW r \in Requests,
         \/ Admit(r) \/ TakeMutex(r) \/ Load(r) \/ Check(r) \/ Refuse(r)
  PROVE  CheckedInv'
<1>1. UNCHANGED <<users, founders>>
  BY DEF Admit, TakeMutex, Load, Check, Refuse
<1>2. ASSUME NEW q \in Requests, pc'[q] = "write" PROVE Checked(q)'
  <2>1. CASE pc[q] = "write" /\ form'[q] = form[q]
    BY <1>1, <2>1, CheckedStill
  <2>2. CASE q = r /\ Check(r)
    <3>1. Checked(r) /\ form'[r] = form[r]
      BY <2>2, CheckStep DEF Check
    <3> QED BY <1>1, <2>2, <3>1 DEF Checked, Admins, IsAdmin, IsLive, HasUsers
  <2>3. CASE q = r /\ Load(r)
    <3>1. form'[r].op = "profile"
      BY <1>2, <2>3 DEF Load, Goto, TypeOK
    <3> QED BY <2>3, <3>1 DEF Checked
  <2> QED BY <1>2, <2>1, <2>2, <2>3
          DEF Admit, TakeMutex, Load, Check, Refuse, Return, Goto, TypeOK
<1>3. ASSUME NEW q \in Requests, pc'[q] = "check", form'[q].op = "delete"
      PROVE  row'[q] = users[form'[q].id]
  BY <1>3 DEF Admit, TakeMutex, Load, Check, Refuse, Return, Goto, TypeOK,
              CheckedInv
<1> QED BY <1>1, <1>2, <1>3, CheckedSame

LEMMA CheckedStep ==
  ASSUME TypeOK, MutexInv, FormInv, ~unchecked => CheckedInv, [Next]_vars,
         ~unchecked'
  PROVE  CheckedInv'
<1>1. ASSUME NEW r \in Requests,
             Admit(r) \/ TakeMutex(r) \/ Load(r) \/ Check(r) \/ Refuse(r)
      PROVE  CheckedInv'
  <2>1. ~unchecked
    BY <1>1 DEF Admit, TakeMutex, Load, Check, Refuse
  <2> QED BY <1>1, <2>1, CheckedQuiet
<1>2. ASSUME NEW r \in Requests, Write(r), form[r].op = "profile"
      PROVE  CheckedInv'
  <2>1. WriteProfile(r)
    BY <1>2 DEF Write, WriteAccount, RemoveAccount, InsertAccount
  <2>2. ~unchecked /\ UNCHANGED <<users, founders>>
    BY <1>2, <2>1, ProfileKeeps DEF Write, WriteProfile
  <2>3. ASSUME NEW q \in Requests, pc'[q] # "idle"
        PROVE  pc'[q] = pc[q] /\ form'[q] = form[q] /\ row'[q] = row[q]
    BY <1>2, <2>3 DEF Write, Return, Goto, TypeOK
  <2>4. \A q \in Requests : pc'[q] = "write" => Checked(q)'
    BY <2>2, <2>3, CheckedStill
  <2>5. \A q \in Requests : (pc'[q] = "check" /\ form'[q].op = "delete")
                               => row'[q] = users[form'[q].id]
    BY <2>2, <2>3 DEF CheckedInv
  <2> QED BY <2>2, <2>4, <2>5, CheckedSame
<1>3. ASSUME NEW r \in Requests, Write(r), form[r].op # "profile"
      PROVE  CheckedInv'
  <2>1. ~unchecked
    BY <1>3 DEF Write, WriteAccount, WriteProfile, RemoveAccount, InsertAccount
  <2>2. ASSUME NEW q \in Requests, pc'[q] \in {"check", "write"}
        PROVE  form'[q].op = "profile" /\ pc'[q] = "write"
    <3>1. q # r /\ pc'[q] = pc[q] /\ form'[q] = form[q]
      BY <1>3, <2>2 DEF Write, Return, Goto, TypeOK
    <3>2. Holding(r)
      BY <1>3 DEF Write, Holding
    <3>3. ~Holding(q)
      BY <3>1, <3>2, OneWriter
    <3>4. form[q].op = "profile"
      BY <2>2, <3>1, <3>3 DEF Holding
    <3> QED BY <2>2, <3>1, <3>4 DEF FormInv
  <2>3. AdminRemains' /\ \A i, j \in founders' : i = j
    BY <1>3, <2>1, WriteLeavesAdmin
  <2>4. \A q \in Requests : pc'[q] = "write" => Checked(q)'
    BY <2>2 DEF Checked
  <2> QED BY <2>2, <2>3, <2>4 DEF CheckedInv
<1>4. ASSUME NEW r \in Requests, SkipCheck(r) PROVE CheckedInv'
  BY <1>4 DEF SkipCheck
<1>5. CASE Restart \/ UNCHANGED vars
  <2>1. ~unchecked /\ UNCHANGED <<users, founders>>
    BY <1>5 DEF Restart, vars
  <2>2. CASE Restart
    BY <2>1, <2>2, CheckedSame DEF Restart
  <2>3. CASE UNCHANGED vars
    <3>1. \A q \in Requests : pc'[q] = "write" => Checked(q)'
      BY <2>1, <2>3, CheckedStill DEF vars
    <3> QED BY <2>1, <2>3, <3>1, CheckedSame DEF vars, CheckedInv
  <2> QED BY <1>5, <2>2, <2>3
<1> QED BY <1>1, <1>2, <1>3, <1>4, <1>5 DEF Next

-----------------------------------------------------------------------------
THEOREM Invariant == Spec => []IInv
<1>1. Init => IInv
  <2>1. Init => MutexInv /\ FormInv /\ TargetInv
    BY DEF Init, MutexInv, FormInv, TargetInv, Holding
  <2>2. Init => CheckedInv
    BY DEF Init, CheckedInv, AdminRemains
  <2> QED BY <2>1, <2>2, TypeInit DEF IInv
<1>2. IInv /\ [Next]_vars => IInv'
  <2> SUFFICES ASSUME IInv, [Next]_vars PROVE IInv'
    OBVIOUS
  <2>1. TypeOK' /\ MutexInv' /\ FormInv' /\ TargetInv'
    BY TypeStep, MutexStep, FormStep, TargetStep DEF IInv
  <2>2. ~unchecked' => CheckedInv'
    BY CheckedStep DEF IInv
  <2> QED BY <2>1, <2>2 DEF IInv
<1> QED BY <1>1, <1>2, PTL DEF Spec

(* Every variable keeps its type.                                          *)
THEOREM TypeCorrect == Spec => []TypeOK
<1>1. IInv => TypeOK
  BY DEF IInv
<1> QED BY <1>1, Invariant, PTL

(* After the setup there is always an administrator, however the           *)
(* demotions and deletions of any number of administrators cross, as long  *)
(* as no profile was saved from a stale row and no failing query let a     *)
(* demotion pass (SaveUser, DeleteUser under userMutationMu).              *)
THEOREM AdminAlwaysRemains == Spec => []CheckedAdminRemains
<1>1. IInv => CheckedAdminRemains
  BY DEF IInv, CheckedInv, CheckedAdminRemains
<1> QED BY <1>1, Invariant, PTL

(* The setup form makes one account at most (PostCreateSuperuser).         *)
THEOREM SetupOnce == Spec => []SingleFounder
<1>1. ASSUME IInv PROVE SingleFounder
  <2> SUFFICES ASSUME ~unchecked PROVE Cardinality(founders) <= 1
    BY DEF SingleFounder
  <2>1. \A i, j \in founders : i = j
    BY <1>1 DEF IInv, CheckedInv
  <2>2. CASE founders = {}
    <3>1. Cardinality({}) = 0
      BY FS_EmptySet
    <3> QED BY <2>2, <3>1
  <2>3. ASSUME NEW i \in founders PROVE Cardinality(founders) <= 1
    <3>1. founders = {i}
      BY <2>1
    <3>2. Cardinality({i}) = 1
      BY FS_Singleton
    <3> QED BY <3>1, <3>2
  <2> QED BY <2>2, <2>3
<1> QED BY <1>1, Invariant, PTL

(* A deleted account stays deleted: TargetInv is what keeps SaveUser from  *)
(* bringing it back.                                                       *)
THEOREM DeletionIsFinal == Spec => DeletedStaysDeleted
<1> DEFINE Final(i) ==
      users[i].state = "deleted" =>
         \/ users'[i].state = "deleted"
         \/ \E r \in Requests : /\ pc[r] = "write" /\ form[r].op = "profile"
                                /\ form[r].id = i
<1>1. ASSUME IInv, Next, NEW i \in Ids, users[i].state = "deleted",
             users'[i].state # "deleted"
      PROVE  \E r \in Requests : /\ pc[r] = "write" /\ form[r].op = "profile"
                                 /\ form[r].id = i
  <2>1. PICK r \in Requests : Write(r)
    BY <1>1 DEF Next, Admit, TakeMutex, Load, Check, Refuse, SkipCheck, Restart
  <2>2. form[r].id \in Ids
    BY <1>1, <2>1, FormFields DEF IInv, FormInv, Write
  <2>3. ASSUME WriteAccount(r) PROVE FALSE
    <3>1. users[form[r].id].state = "live"
      BY <1>1, <2>1, <2>3 DEF IInv, TargetInv, IsLive, Write, WriteAccount
    <3>2. users'[i] = users[i]
      BY <1>1, <2>2, <2>3, <3>1 DEF IInv, TypeOK, WriteAccount, Save
    <3> QED BY <1>1, <3>2
  <2>4. ASSUME RemoveAccount(r) PROVE FALSE
    BY <1>1, <2>2, <2>4 DEF IInv, TypeOK, Row, RemoveAccount, SoftDelete
  <2>5. ASSUME InsertAccount(r) PROVE FALSE
    <3>1. PICK j \in Ids : users[j] = NoRow /\ Save(j, form[r].admin)
      BY <2>5 DEF InsertAccount
    <3>2. users'[i] = users[i]
      BY <1>1, <3>1 DEF IInv, TypeOK, Save, NoRow
    <3> QED BY <1>1, <3>2
  <2>6. WriteProfile(r)
    BY <2>1, <2>3, <2>4, <2>5 DEF Write
  <2>7. form[r].id = i
    BY <1>1, <2>2, <2>6 DEF IInv, TypeOK, WriteProfile, Save
  <2> QED BY <2>1, <2>6, <2>7 DEF Write, WriteProfile
<1>2. IInv /\ [Next]_vars => [\A i \in Ids : Final(i)]_vars
  BY <1>1
<1> QED BY <1>2, Invariant, PTL DEF Spec, DeletedStaysDeleted
=============================================================================
