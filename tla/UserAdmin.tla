----------------------------- MODULE UserAdmin -----------------------------
(* The table of users and the handlers that change it: SaveUser and        *)
(* DeleteUser (internal/handlers/forms.go), PostCreateSuperuser            *)
(* (setup.go), which share userMutationMu, and SaveProfile, which does not *)
(* take it. A request is admitted by RequireAuth and RequirePermission     *)
(* before its handler runs. Of the four roles only Administrator is told   *)
(* apart; names, passwords and avatars are left out, and the unique index  *)
(* on the name is one of the reasons why a save may be refused.            *)
EXTENDS Integers, FiniteSets

CONSTANTS Ids,        \* primary keys of table users (bounds the accounts)
          Requests,   \* requests under way at the same time
          Profiles,   \* whether users save their profile
          DbFails     \* whether a query may fail

ASSUME UserAdminAssumption ==
  /\ IsFiniteSet(Ids) /\ Ids # {}
  /\ {Profiles, DbFails} \subseteq BOOLEAN

VARIABLES users,      \* users[i]: the row with primary key i
          mutex,      \* whether userMutationMu is locked
          pc, form,   \* of each request: its next step, and what it asks for
          row,        \* of each request: the row it loaded
          founders,   \* accounts that the first-time setup created
          unchecked   \* history: a role was written that nobody checked

vars == <<users, mutex, pc, form, row, founders, unchecked>>

Row    == [state : {"none", "live", "deleted"}, admin : BOOLEAN]
NoRow  == [state |-> "none", admin |-> FALSE]
Live(admin) == [state |-> "live", admin |-> admin]

Ops    == {"save", "create", "delete", "setup", "profile"}
Form   == [op : Ops, by : Ids, id : Ids, admin : BOOLEAN]
NoForm == [op |-> "none"]
Pc     == {"idle", "lock", "load", "check", "write"}

IsLive(i)  == users[i].state = "live"
IsAdmin(i) == IsLive(i) /\ users[i].admin
Admins     == {i \in Ids : IsAdmin(i)}
HasUsers   == \E i \in Ids : IsLive(i)

(* The forms that get past the middleware: the setup is open to anybody,   *)
(* the profile to its user, the user forms to administrators.              *)
SetupForms   == {f \in Form : f.op = "setup" /\ f.by = f.id /\ f.admin}
ProfileForms == {f \in Form : /\ f.op = "profile" /\ f.by = f.id /\ ~f.admin
                              /\ Profiles /\ IsLive(f.by)}
UserForms    == {f \in Form : /\ f.op \in {"save", "create", "delete"}
                              /\ f.op = "create" => f.id = f.by
                              /\ f.op = "delete" => ~f.admin
                              /\ IsAdmin(f.by)}

Init ==
  /\ users = [i \in Ids |-> NoRow]
  /\ mutex = FALSE
  /\ pc = [r \in Requests |-> "idle"]
  /\ form = [r \in Requests |-> NoForm]
  /\ row = [r \in Requests |-> NoRow]
  /\ founders = {}
  /\ unchecked = FALSE

Goto(r, label) == pc' = [pc EXCEPT ![r] = label]

(* Return with the deferred Unlock; only the profile handler has no lock.  *)
LockMutant == mutex' = TRUE              \* Lock is missing
Lock   == ~mutex /\ mutex' = TRUE
Unlock == mutex' = FALSE
Return(r) ==
  /\ Goto(r, "idle")
  /\ row' = [row EXCEPT ![r] = NoRow]
  /\ form' = [form EXCEPT ![r] = NoForm]
  /\ IF form[r].op = "profile" THEN UNCHANGED mutex ELSE Unlock

-----------------------------------------------------------------------------
(* RequireAuth reads the user again for every request, RequirePermission   *)
(* judges by the role it found then.                                       *)
Admit(r) ==
  /\ pc[r] = "idle"
  /\ \E f \in SetupForms \cup ProfileForms \cup UserForms :
        /\ form' = [form EXCEPT ![r] = f]
        /\ Goto(r, IF f.op = "profile" THEN "load" ELSE "lock")
  /\ UNCHANGED <<users, mutex, row, founders, unchecked>>

TakeMutex(r) ==
  /\ pc[r] = "lock"
  /\ Lock
  /\ Goto(r, "load")
  /\ UNCHANGED <<users, form, row, founders, unchecked>>

(* A form that names an account loads it; one that does not has a zero row *)
(* and will insert.                                                        *)
Load(r) ==
  /\ pc[r] = "load"
  /\ form[r].op \in {"save", "delete", "profile"} => IsLive(form[r].id)
  /\ row' = [row EXCEPT ![r] = IF form[r].op \in {"create", "setup"} THEN NoRow
                               ELSE users[form[r].id]]
  /\ Goto(r, IF form[r].op = "profile" THEN "write" ELSE "check")
  /\ UNCHANGED <<users, mutex, form, founders, unchecked>>

(* What each handler insists on before it writes. SaveUser looks at the    *)
(* row again and counts the other administrators; DeleteUser trusts the    *)
(* row it loaded and counts all of them.                                   *)
SaveAllowedMutant(f) == f.by = f.id => f.admin   \* no last-admin check
SaveAllowed(f) ==
  /\ f.by = f.id => f.admin
  /\ (~f.admin /\ IsAdmin(f.id)) => Admins \ {f.id} # {}

DeleteAllowed(f, loaded) ==
  /\ f.by # f.id
  /\ loaded.admin => Cardinality(Admins) > 1

SetupAllowedMutant == TRUE               \* hasUsers is not asked again
SetupAllowed == ~HasUsers

Check(r) ==
  /\ pc[r] = "check"
  /\ form[r].op = "save"   => SaveAllowed(form[r])
  /\ form[r].op = "delete" => DeleteAllowed(form[r], row[r])
  /\ form[r].op = "setup"  => SetupAllowed
  /\ Goto(r, "write")
  /\ UNCHANGED <<users, mutex, form, row, founders, unchecked>>

(* gorm: Save updates the live row, and when there is none any more it     *)
(* inserts with ON CONFLICT DO UPDATE, which brings a deleted row back.    *)
Save(i, admin) == users' = [users EXCEPT ![i] = Live(admin)]

(* gorm: Delete sets deleted_at of a live row.                             *)
SoftDeleteMutant(i) == users' = [users EXCEPT ![i] = NoRow]   \* Unscoped
SoftDelete(i) ==
  users' = [users EXCEPT ![i].state = IF @ = "live" THEN "deleted" ELSE @]

WriteAccount(r) ==
  /\ form[r].op = "save"
  /\ Save(form[r].id, form[r].admin)
  /\ UNCHANGED <<founders, unchecked>>

(* SaveProfile writes the whole row, with the role it has loaded.          *)
WriteProfile(r) ==
  /\ form[r].op = "profile"
  /\ Save(form[r].id, row[r].admin)
  /\ unchecked' = (unchecked \/ users[form[r].id] # row[r])
  /\ UNCHANGED founders

RemoveAccount(r) ==
  /\ form[r].op = "delete"
  /\ SoftDelete(form[r].id)
  /\ UNCHANGED <<founders, unchecked>>

InsertAccount(r) ==
  /\ form[r].op \in {"create", "setup"}
  /\ \E i \in Ids :
        /\ users[i] = NoRow
        /\ Save(i, form[r].admin)
        /\ founders' = IF form[r].op = "setup" THEN founders \cup {i}
                       ELSE founders
  /\ UNCHANGED unchecked

Write(r) ==
  /\ pc[r] = "write"
  /\ \/ WriteAccount(r) \/ WriteProfile(r)
     \/ RemoveAccount(r) \/ InsertAccount(r)
  /\ Return(r)

(* A missing row, a validation error, a name in use, a failed query: the   *)
(* handler returns and has written nothing.                                *)
Refuse(r) ==
  /\ pc[r] \in {"load", "check", "write"}
  /\ Return(r)
  /\ UNCHANGED <<users, founders, unchecked>>

(* SaveUser ignores the error of the query that finds the role in force.   *)
SkipCheck(r) ==
  /\ DbFails /\ pc[r] = "check"
  /\ form[r].op = "save" /\ (form[r].by = form[r].id => form[r].admin)
  /\ Goto(r, "write")
  /\ unchecked' = TRUE
  /\ UNCHANGED <<users, mutex, form, row, founders>>

(* The process dies and is started again.                                  *)
Restart ==
  /\ pc' = [r \in Requests |-> "idle"]
  /\ row' = [r \in Requests |-> NoRow]
  /\ form' = [r \in Requests |-> NoForm]
  /\ mutex' = FALSE
  /\ UNCHANGED <<users, founders, unchecked>>

Next == \/ \E r \in Requests : \/ Admit(r) \/ TakeMutex(r) \/ Load(r)
                               \/ Check(r) \/ Write(r) \/ Refuse(r)
                               \/ SkipCheck(r)
        \/ Restart

Spec == Init /\ [][Next]_vars

-----------------------------------------------------------------------------
(* Every variable keeps its type, and the accounts of the setup keep their *)
(* rows: a deletion sets deleted_at, it does not remove the row.           *)
TypeOK ==
  /\ users \in [Ids -> Row]
  /\ mutex \in BOOLEAN
  /\ pc \in [Requests -> Pc]
  /\ form \in [Requests -> Form \cup {NoForm}]
  /\ row \in [Requests -> Row]
  /\ founders \subseteq {i \in Ids : users[i].state # "none"}
  /\ unchecked \in BOOLEAN

(* "At least one administrator must remain" (SaveUser, DeleteUser), once   *)
(* the setup is done.                                                      *)
AdminRemains == founders # {} => Admins # {}

(* It does as long as no profile was saved from a row that had changed     *)
(* since it was loaded, and no failing query let a demotion pass unseen,   *)
(* whatever demotions and deletions cross each other.                      *)
CheckedAdminRemains == ~unchecked => AdminRemains

(* Of several submissions of the setup form at most one makes an account,  *)
(* and the form never opens again: hasUsers stays true with the last       *)
(* administrator.                                                          *)
SingleFounder == ~unchecked => Cardinality(founders) <= 1

(* A deleted account stays deleted: the handlers behind the mutex never    *)
(* write back a row that they loaded before the deletion.                  *)
DeletedStaysDeleted ==
  [][\A i \in Ids : users[i].state = "deleted" =>
        \/ users'[i].state = "deleted"
        \/ \E r \in Requests : /\ pc[r] = "write" /\ form[r].op = "profile"
                               /\ form[r].id = i]_vars
=============================================================================
