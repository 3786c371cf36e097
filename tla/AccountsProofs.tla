--------------------------- MODULE AccountsProofs ---------------------------
(***************************************************************************)
(* Proofs about the account manager, for any services, users, passwords    *)
(* and any number of concurrent calls.                                     *)
(***************************************************************************)
EXTENDS Accounts, TLAPS

\* A statement belongs to one call, which has begun and is not over.
LEMMA ExecuteFrame ==
    ASSUME NEW r \in Nr, Execute(r)
    PROVE  /\ UNCHANGED <<begun, call, before>>
           /\ step[r] \in {"first", "second"}
           /\ \E s \in {"second", "done", "dead"} : step' = [step EXCEPT ![r] = s]
           /\ \/ UNCHANGED answer
              \/ \E a \in {"none", "true", "false", "exception"} :
                    answer' = [answer EXCEPT ![r] = a]
BY DEF Execute, calls, GoOn, Finish, Result, At, SetService, CreateTable,
   DeleteServiceRow, DropTable, Refuse, GetTableName, SetUser, DeleteUserRow, GetUser, Die

\* Every statement keeps every variable in its range (ServiceModel and
\* UserModel on their tables, the calls of the web server).
LEMMA TypeStep == TypeOK /\ [Next]_vars => TypeOK'
<1> SUFFICES ASSUME TypeOK, [Next]_vars PROVE TypeOK'
  OBVIOUS
<1> USE CallAssumption
<1>1. ASSUME NEW c \in Call, Begin(c) PROVE TypeOK'
  <2>1. begun + 1 \in Nr /\ begun' = begun + 1 /\ begun' \in 0 .. MaxCall
    BY <1>1 DEF Begin, TypeOK, Nr
  <2>2. call' = [call EXCEPT ![begun + 1] = c] /\ step' = [step EXCEPT ![begun + 1] = "first"]
    BY <1>1 DEF Begin
  <2>3. /\ call' \in [Nr -> Call \cup {NoCall}]
        /\ step' \in [Nr -> {"none", "first", "second", "done", "dead"}]
    BY <2>1, <2>2 DEF TypeOK
  <2>4. \A r \in Nr : (step'[r] = "none" <=> r > begun') /\ (r <= begun' => call'[r] \in Call)
    <3> TAKE r \in Nr
    <3>1. r \in Nat /\ begun \in Nat /\ (r <= begun' <=> r <= begun \/ r = begun + 1)
      BY <2>1 DEF TypeOK, Nr
    <3>2. QED
      BY <2>1, <2>2, <3>1 DEF TypeOK
  <2>5. before' \in [Nr -> SUBSET Nr]
    BY <1>1, <2>1 DEF Begin, TypeOK
  <2>6. UNCHANGED <<services, tables, users, answer>>
    BY <1>1 DEF Begin, db
  <2>7. QED
    BY <2>1, <2>3, <2>4, <2>5, <2>6 DEF TypeOK
<1>2. ASSUME NEW r \in Nr, Execute(r)
      PROVE  /\ UNCHANGED <<begun, call, before>>
             /\ step[r] \in {"first", "second"}
             /\ \E s \in {"second", "done", "dead"} : step' = [step EXCEPT ![r] = s]
             /\ \/ UNCHANGED answer
                \/ \E a \in {"none", "true", "false", "exception"} :
                      answer' = [answer EXCEPT ![r] = a]
  BY <1>2, ExecuteFrame
<1>3. ASSUME NEW r \in Nr, Execute(r)
      PROVE  /\ services' \subseteq Service
             /\ tables' \subseteq Service
             /\ users' \in [Service -> SUBSET Row]
             /\ \A s \in Service \ tables' : users'[s] = {}
  <2> DEFINE DbOK == /\ services' \subseteq Service
                     /\ tables' \subseteq Service
                     /\ users' \in [Service -> SUBSET Row]
                     /\ \A s \in Service \ tables' : users'[s] = {}
  <2>1. call[r] \in Call /\ call[r].service \in Service
    <3>1. call[r] \in Call
      BY <1>2, <1>3 DEF TypeOK, Nr
    <3>2. QED
      BY <3>1 DEF Call, ServiceCall, DeleteUserCall, UserCall
  <2>2. CASE UNCHANGED db
    BY <2>2 DEF db, TypeOK
  <2>3. CASE SetService(r)
    BY <2>1, <2>3 DEF SetService, TypeOK
  <2>4. CASE CreateTable(r)
    BY <2>1, <2>4 DEF CreateTable, TypeOK
  <2>5. CASE DeleteServiceRow(r)
    BY <2>1, <2>5 DEF DeleteServiceRow, TypeOK
  <2>6. CASE DropTable(r)
    BY <2>1, <2>6 DEF DropTable, TypeOK
  <2>7. CASE SetUser(r)
    <3>1. call[r].op = "addUser"
      BY <2>7 DEF SetUser, At
    <3>2. call[r].user \in User /\ call[r].password \in Password
      BY <2>1, <3>1 DEF Call, ServiceCall, DeleteUserCall, UserCall
    <3>3. [user |-> call[r].user, password |-> call[r].password, by |-> r] \in Row
      BY <3>2 DEF Row
    <3>4. UNCHANGED <<services, tables>>
      BY <2>7 DEF SetUser
    <3>5. CASE UNCHANGED users
      BY <3>4, <3>5 DEF TypeOK
    <3>6. CASE /\ call[r].service \in tables
               /\ users' = [users EXCEPT ![call[r].service] =
                     @ \cup {[user |-> call[r].user, password |-> call[r].password, by |-> r]}]
      BY <2>1, <3>3, <3>4, <3>6 DEF TypeOK
    <3>7. QED
      BY <2>7, <3>5, <3>6 DEF SetUser
  <2>8. CASE DeleteUserRow(r)
    BY <2>1, <2>8 DEF DeleteUserRow, TypeOK
  <2>9. QED
    BY <1>3, <2>2, <2>3, <2>4, <2>5, <2>6, <2>7, <2>8
    DEF Execute, Refuse, GetTableName, GetUser, Die
<1>4. ASSUME NEW r \in Nr, Execute(r) PROVE TypeOK'
  <2>1. /\ step' \in [Nr -> {"none", "first", "second", "done", "dead"}]
        /\ \A q \in Nr : step'[q] = "none" <=> step[q] = "none"
    BY <1>2, <1>4 DEF TypeOK
  <2>2. answer' \in [Nr -> {"none", "true", "false", "exception"}]
    BY <1>2, <1>4 DEF TypeOK
  <2>3. QED
    BY <1>2, <1>3, <1>4, <2>1, <2>2 DEF TypeOK
<1>5. CASE UNCHANGED vars
  BY <1>5 DEF vars, TypeOK
<1>6. QED
  BY <1>1, <1>4, <1>5 DEF Next

\* Type correctness of the account manager.
THEOREM AccountsTypeCorrect == Spec => []TypeOK
<1>1. Init => TypeOK
  BY CallAssumption DEF Init, TypeOK, Nr, NoCall
<1>2. QED
  BY <1>1, TypeStep, PTL DEF Spec

-----------------------------------------------------------------------------
(* What is deleted stays deleted, and a service that is added stands.      *)

\* A call that began after another was over finds it so for ever.
BeforeIsOver == \A r \in Nr : \A q \in before[r] : Over(q)

\* ServiceStands, as it holds between the two statements of addService.
Standing ==
    \A r \in Nr :
        call[r].op = "addService" /\ step[r] \in {"second", "done"} /\ NoDeletionSince(r)
            => /\ call[r].service \in services
               /\ step[r] = "done" => call[r].service \in tables

IInv ==
    /\ TypeOK
    /\ BeforeIsOver
    /\ DeletedUserStaysGone
    /\ ~MayFail => ServiceTakesItsUsers
    /\ ~MayFail => Standing

\* A call that is over stays so, with its answer.
LEMMA OverForGood ==
    ASSUME TypeOK, NEW r \in Nr, Execute(r), NEW q \in Nr, q # r
    PROVE  step'[q] = step[q] /\ answer'[q] = answer[q]
BY ExecuteFrame DEF TypeOK

\* A row that a statement puts into a user table is its own call's.
LEMMA NewRowsAreOwn ==
    ASSUME TypeOK, NEW r \in Nr, Execute(r), NEW s \in Service, NEW row \in users'[s]
    PROVE  row \in users[s] \/ row.by = r
<1>1. CASE UNCHANGED users
  BY <1>1
<1>2. CASE DropTable(r)
  BY <1>2 DEF DropTable, TypeOK
<1>3. CASE SetUser(r)
  BY <1>3 DEF SetUser, TypeOK
<1>4. CASE DeleteUserRow(r)
  BY <1>4 DEF DeleteUserRow, TypeOK
<1>5. QED
  BY <1>1, <1>2, <1>3, <1>4 DEF Execute, SetService, CreateTable, DeleteServiceRow,
     Refuse, GetTableName, GetUser, Die, db

\* A beginning call changes nothing for the others.
LEMMA BeginFrame ==
    ASSUME TypeOK, NEW c \in Call, Begin(c)
    PROVE  /\ UNCHANGED <<services, tables, users, answer>>
           /\ \E r \in Nr :
                 /\ r = begun + 1 /\ step[r] = "none" /\ begun' = r
                 /\ step'[r] = "first" /\ before'[r] = {q \in Nr : Over(q)} /\ call'[r] = c
                 /\ \A q \in Nr : q # r => /\ step'[q] = step[q]
                                          /\ call'[q] = call[q]
                                          /\ before'[q] = before[q]
<1>1. UNCHANGED <<services, tables, users, answer>>
  BY DEF Begin, db
<1>2. begun \in Nat /\ begun + 1 \in Nr /\ begun + 1 > begun
  BY CallAssumption DEF Begin, TypeOK, Nr
<1>3. step[begun + 1] = "none"
  BY <1>2 DEF TypeOK
<1>4. QED
  BY <1>1, <1>2, <1>3 DEF Begin, TypeOK

\* The call of r, as its operation says.
LEMMA CallFacts ==
    ASSUME TypeOK, NEW r \in Nr, step[r] # "none"
    PROVE  /\ r <= begun /\ call[r] \in Call /\ call[r].service \in Service
           /\ call[r].op \in {"addService", "deleteService", "addUser", "deleteUser", "userAuth"}
           /\ call[r].op = "deleteService" =>
                 call[r] = [op |-> "deleteService", service |-> call[r].service]
<1>1. r <= begun
  BY DEF TypeOK, Nr
<1>2. call[r] \in Call
  BY <1>1 DEF TypeOK
<1>3. QED
  BY <1>1, <1>2 DEF Call, ServiceCall, DeleteUserCall, UserCall

\* Beginning a call keeps the invariant: nothing has been read or written yet.
LEMMA BeginInv ==
    ASSUME IInv, TypeOK', NEW c \in Call, Begin(c)
    PROVE  IInv'
<1>1. UNCHANGED <<services, tables, users, answer>>
  BY BeginFrame DEF IInv
<1>2. PICK r \in Nr :
          /\ r = begun + 1 /\ step[r] = "none" /\ begun' = r
          /\ step'[r] = "first" /\ before'[r] = {q \in Nr : Over(q)} /\ call'[r] = c
          /\ \A q \in Nr : q # r => /\ step'[q] = step[q]
                                   /\ call'[q] = call[q]
                                   /\ before'[q] = before[q]
  BY BeginFrame DEF IInv
<1>3. \A q \in Nr : Over(q) => Over(q)'
  BY <1>2 DEF Over
<1>4. \A q \in Nr : before[q] \subseteq Nr
  BY DEF IInv, TypeOK
<1>5. BeforeIsOver'
  BY <1>2, <1>3, <1>4 DEF IInv, BeforeIsOver, Over
<1>6. DeletedUserStaysGone'
  BY <1>1, <1>2 DEF IInv, DeletedUserStaysGone, Succeeded
<1>7. ~MayFail => ServiceTakesItsUsers'
  BY <1>1, <1>2 DEF IInv, ServiceTakesItsUsers, Succeeded
<1>8. ASSUME ~MayFail PROVE Standing'
  <2> SUFFICES ASSUME NEW q \in Nr, call'[q].op = "addService",
                      step'[q] \in {"second", "done"}, NoDeletionSince(q)'
               PROVE  /\ call'[q].service \in services
                      /\ step'[q] = "done" => call'[q].service \in tables
    BY <1>1 DEF Standing
  <2>1. q # r /\ call'[q] = call[q] /\ step'[q] = step[q] /\ before'[q] = before[q]
    BY <1>2
  <2>2. NoDeletionSince(q)
    <3> SUFFICES ASSUME NEW d \in Nr, Deletes(d, call[q].service)
                 PROVE  d \in before[q]
      BY DEF NoDeletionSince
    <3>1. d # r /\ d <= begun'
      BY <1>2 DEF Deletes, IInv, TypeOK, Nr
    <3>2. Deletes(d, call[q].service)'
      BY <1>2, <2>1, <3>1 DEF Deletes
    <3>3. QED
      BY <2>1, <3>2 DEF NoDeletionSince
  <2>3. QED
    BY <1>8, <2>1, <2>2 DEF IInv, Standing
<1>9. QED
  BY <1>5, <1>6, <1>7, <1>8 DEF IInv

\* Every statement keeps the invariant.
LEMMA ExecuteInv ==
    ASSUME IInv, TypeOK', NEW r \in Nr, Execute(r)
    PROVE  IInv'
<1>1. /\ UNCHANGED <<begun, call, before>>
      /\ step[r] \in {"first", "second"}
  BY ExecuteFrame
<1>2. \A q \in Nr : q # r => step'[q] = step[q] /\ answer'[q] = answer[q]
  BY OverForGood DEF IInv
<1>3. \A q \in Nr : r \notin before[q]
  BY <1>1 DEF IInv, BeforeIsOver, Over
<1>4. \A s \in Service : \A row \in users'[s] : row \in users[s] \/ row.by = r
  BY NewRowsAreOwn DEF IInv
<1>5. r <= begun /\ call[r] \in Call /\ call[r].service \in Service
  BY <1>1, CallFacts DEF IInv
<1>6. BeforeIsOver'
  <2>1. \A q \in Nr : Over(q) => Over(q)'
    BY <1>1, <1>2 DEF Over
  <2>2. \A q \in Nr : before[q] \subseteq Nr
    BY DEF IInv, TypeOK
  <2>3. QED
    BY <1>1, <2>1, <2>2 DEF IInv, BeforeIsOver
<1>7. DeletedUserStaysGone'
  <2> SUFFICES ASSUME NEW d \in Nr, Succeeded(d, "deleteUser")',
                      NEW row \in users'[call[d].service], row.user = call[d].user
               PROVE  row.by \notin before[d]
    BY <1>1 DEF DeletedUserStaysGone
  <2>1. CASE d = r
    <3>1. DeleteUserRow(r) /\ answer'[r] = "true"
      BY <2>1 DEF Succeeded, Execute, SetService, CreateTable, DeleteServiceRow, DropTable,
         Refuse, GetTableName, SetUser, GetUser, Die, At, GoOn, Finish, Result, IInv, TypeOK, calls
    <3>2. users' = [users EXCEPT ![call[r].service] = {x \in @ : x.user # call[r].user}]
      BY <3>1 DEF DeleteUserRow, Result, IInv, TypeOK
    <3>3. QED
      BY <1>1, <1>5, <2>1, <3>2 DEF IInv, TypeOK
  <2>2. CASE d # r
    <3>1. Succeeded(d, "deleteUser")
      BY <1>1, <1>2, <2>2 DEF Succeeded
    <3>2. call[d].service \in Service
      BY <3>1, CallFacts DEF IInv, Succeeded
    <3>3. QED
      BY <1>3, <1>4, <3>1, <3>2 DEF IInv, DeletedUserStaysGone
  <2>3. QED
    BY <2>1, <2>2
<1>8. ASSUME ~MayFail PROVE ServiceTakesItsUsers'
  <2> SUFFICES ASSUME NEW d \in Nr, Succeeded(d, "deleteService")',
                      NEW row \in users'[call[d].service]
               PROVE  row.by \notin before[d]
    BY <1>1 DEF ServiceTakesItsUsers
  <2>1. CASE d = r
    <3>1. DropTable(r)
      BY <1>1, <2>1 DEF Succeeded, Execute, SetService, CreateTable, DeleteServiceRow,
         Refuse, GetTableName, SetUser, DeleteUserRow, GetUser, Die, At, GoOn, Finish, Result, IInv,
         TypeOK, calls
    <3>2. users' = [users EXCEPT ![call[r].service] = {}]
      BY <1>8, <3>1 DEF DropTable
    <3>3. QED
      BY <1>5, <2>1, <3>2 DEF IInv, TypeOK
  <2>2. CASE d # r
    <3>1. Succeeded(d, "deleteService")
      BY <1>1, <1>2, <2>2 DEF Succeeded
    <3>2. call[d].service \in Service
      BY <3>1, CallFacts DEF IInv, Succeeded
    <3>3. QED
      BY <1>3, <1>4, <1>8, <3>1, <3>2 DEF IInv, ServiceTakesItsUsers
  <2>3. QED
    BY <2>1, <2>2
<1>9. ASSUME ~MayFail PROVE Standing'
  <2> SUFFICES ASSUME NEW q \in Nr, call[q].op = "addService",
                      step'[q] \in {"second", "done"}, NoDeletionSince(q)'
               PROVE  /\ call[q].service \in services'
                      /\ step'[q] = "done" => call[q].service \in tables'
    BY <1>1 DEF Standing
  <2>1. NoDeletionSince(q)
    BY <1>1 DEF NoDeletionSince, Deletes
  <2>2. r # q => ~Deletes(r, call[q].service)
    BY <1>3, <2>1 DEF NoDeletionSince
  <2>3. CASE q = r
    <3>1. CASE SetService(r)
      BY <1>1, <1>9, <2>3, <3>1 DEF SetService, GoOn, IInv, TypeOK
    <3>2. CASE CreateTable(r)
      <4>1. step[r] = "second"
        BY <3>2 DEF CreateTable, At
      <4>2. call[r].service \in services
        BY <1>9, <2>1, <2>3, <4>1 DEF IInv, Standing
      <4>3. QED
        BY <1>9, <2>3, <3>2, <4>2 DEF CreateTable
    <3>3. QED
      BY <2>3, <3>1, <3>2 DEF Execute, DeleteServiceRow, DropTable, Refuse, GetTableName, SetUser,
         DeleteUserRow, GetUser, Die, At, Incomplete, IInv, TypeOK
  <2>4. CASE q # r
    <3>1. step'[q] = step[q]
      BY <1>2, <2>4
    <3>2. /\ call[q].service \in services
          /\ step[q] = "done" => call[q].service \in tables
      BY <1>9, <2>1, <3>1 DEF IInv, Standing
    <3>3. ~(call[r].op = "deleteService" /\ call[r].service = call[q].service)
      BY <1>1, <1>5, <2>2, <2>4, CallFacts DEF Deletes, IInv
    <3>4. \/ services \subseteq services' \/ DeleteServiceRow(r)
      BY DEF Execute, SetService, CreateTable, DropTable, Refuse, GetTableName, SetUser,
         DeleteUserRow, GetUser, Die, db
    <3>5. \/ tables \subseteq tables' \/ DropTable(r)
      BY DEF Execute, SetService, CreateTable, DeleteServiceRow, Refuse, GetTableName, SetUser,
         DeleteUserRow, GetUser, Die, db
    <3>6. call[q].service \in services'
      BY <3>2, <3>3, <3>4 DEF DeleteServiceRow, At
    <3>7. step[q] = "done" => call[q].service \in tables'
      BY <3>2, <3>3, <3>5 DEF DropTable, At
    <3>8. QED
      BY <3>1, <3>6, <3>7
  <2>5. QED
    BY <2>3, <2>4
<1>10. QED
  BY <1>6, <1>7, <1>8, <1>9 DEF IInv

LEMMA Inductive == IInv /\ [Next]_vars => IInv'
<1> SUFFICES ASSUME IInv, [Next]_vars PROVE IInv'
  OBVIOUS
<1>1. TypeOK'
  BY TypeStep DEF IInv
<1>2. CASE UNCHANGED vars
  BY <1>1, <1>2 DEF vars, IInv, BeforeIsOver, Over, DeletedUserStaysGone, Succeeded,
     ServiceTakesItsUsers, Standing, NoDeletionSince, Deletes
<1>3. QED
  BY <1>1, <1>2, BeginInv, ExecuteInv DEF Next

LEMMA InitInv == Init => IInv
<1> SUFFICES ASSUME Init PROVE IInv
  OBVIOUS
<1>1. TypeOK
  BY CallAssumption DEF Init, TypeOK, Nr, NoCall
<1>2. QED
  BY <1>1 DEF Init, IInv, BeforeIsOver, DeletedUserStaysGone, ServiceTakesItsUsers,
     Standing, Succeeded

\* The invariant holds throughout.
THEOREM AccountsInvariant == Spec => []IInv
BY InitInv, Inductive, PTL DEF Spec

\* deleteUser is final for the users that were added before it (UserLogic
\* l.62), also when statements fail.
THEOREM DeleteUserIsFinal == Spec => []DeletedUserStaysGone
<1>1. IInv => DeletedUserStaysGone
  BY DEF IInv
<1>2. QED
  BY <1>1, AccountsInvariant, PTL

\* deleteService takes the users with it for good (ServiceLogic l.36), if no
\* statement fails: it does not look at the result of DROP TABLE.
THEOREM DeleteServiceIsFinal ==
    ASSUME ~MayFail
    PROVE  Spec => []ServiceTakesItsUsers
<1>1. IInv => ServiceTakesItsUsers
  BY DEF IInv
<1>2. QED
  BY <1>1, AccountsInvariant, PTL

\* addService leaves the service with its table, whatever earlier calls have
\* left behind (ServiceLogic l.24), if no statement fails and no deletion runs
\* beside it.
THEOREM AddedServiceStands ==
    ASSUME ~MayFail
    PROVE  Spec => []ServiceStands
<1>1. IInv => ServiceStands
  BY DEF IInv, Standing, ServiceStands
<1>2. QED
  BY <1>1, AccountsInvariant, PTL
-----------------------------------------------------------------------------
(* What was added stays until it is removed, so that names are given once  *)
(* and whoever was added can log in.                                       *)

\* A row is there because its call has added it.
RowsAreAdded ==
    \A s \in Service : \A row \in users[s] :
        /\ Succeeded(row.by, "addUser")
        /\ call[row.by] \in UserCall
        /\ call[row.by].service = s
        /\ call[row.by].user = row.user
        /\ call[row.by].password = row.password

\* A removal that was not over when q began.
RemovedSince(q) ==
    \E d \in Nr : Removes(d, call[q].service, call[q].user) /\ d \notin before[q]

DeletedSince(q) == \E d \in Nr : Deletes(d, call[q].service) /\ d \notin before[q]

UsersAreKept ==
    \A q \in Nr : Succeeded(q, "addUser") =>
        (\E row \in users[call[q].service] : row.by = q) \/ RemovedSince(q)

\* q has put its service there
NewService(q) ==
    call[q].op = "addService" /\ step[q] \in {"second", "done"} /\ answer[q] = "true"

\* q has seen that its service is there
FoundService(q) ==
    \/ NewService(q)
    \/ call[q].op = "addUser" /\ (step[q] = "second" \/ Succeeded(q, "addUser"))

ServicesAreKept ==
    \A q \in Nr : FoundService(q) => call[q].service \in services \/ DeletedSince(q)

\* NamesAreUnique, of which the first part holds between the statements, too.
ServiceNamesAreUnique ==
    \A q, r \in Nr :
        /\ q \in before[r] /\ Succeeded(q, "addService") /\ NewService(r)
        /\ call[q].service = call[r].service
        => \E d \in Nr : Deletes(d, call[r].service) /\ Between(q, d, r)

UserNamesAreUnique ==
    \A q, r \in Nr :
        AddedTwice(q, r, "addUser") /\ call[q].user = call[r].user =>
            \E d \in Nr : Removes(d, call[r].service, call[r].user) /\ Between(q, d, r)

\* AuthIsEarned by an addUser that has succeeded.
EarnedBy(r, q) ==
    /\ r \notin before[q]
    /\ Succeeded(q, "addUser")
    /\ \A d \in before[r] :
          Removes(d, call[r].service, call[r].user) /\ Succeeded(d, call[d].op)
              => q \notin before[d]

AuthWasEarned ==
    \A r \in Nr : Succeeded(r, "userAuth") => \E q \in AddsFor(r) : EarnedBy(r, q)

KInv ==
    /\ RowsAreAdded
    /\ UsersAreKept
    /\ ServicesAreKept
    /\ ServiceNamesAreUnique
    /\ UserNamesAreUnique
    /\ ~MayFail => AuthWasEarned /\ AddedCanLogIn

\* The addUser calls for what r asks for, field by field.
LEMMA SameAddition ==
    ASSUME TypeOK, NEW r \in Nr, NEW q \in Nr, call[r].op = "userAuth", step[r] # "none"
    PROVE  q \in AddsFor(r) <=>
               /\ call[q] \in UserCall /\ call[q].op = "addUser"
               /\ call[q].service = call[r].service
               /\ call[q].user = call[r].user
               /\ call[q].password = call[r].password
<1>1. call[r] \in UserCall
  BY CallFacts DEF Call, ServiceCall, DeleteUserCall, UserCall
<1> DEFINE c == [call[r] EXCEPT !.op = "addUser"]
<1>2. /\ c \in UserCall /\ c.op = "addUser" /\ c.service = call[r].service
      /\ c.user = call[r].user /\ c.password = call[r].password
  BY <1>1 DEF UserCall
<1>3. \A x, y \in UserCall :
        x.op = y.op /\ x.service = y.service /\ x.user = y.user /\ x.password = y.password
            => x = y
  BY DEF UserCall
<1>4. c # NoCall
  BY <1>2 DEF NoCall
<1>5. q \in AddsFor(r) <=> call[q] = c
  BY <1>4 DEF AddsFor
<1> HIDE DEF c
<1> QED
  BY <1>2, <1>3, <1>5

\* What a statement leaves alone.
LEMMA OthersGoOn ==
    ASSUME IInv, NEW r \in Nr, Execute(r)
    PROVE  /\ UNCHANGED <<begun, call, before>>
           /\ step[r] \in {"first", "second"}
           /\ \A q \in Nr : q # r => step'[q] = step[q] /\ answer'[q] = answer[q]
           /\ \A q \in Nr : r \notin before[q]
           /\ \A q \in Nr : before[q] \subseteq Nr
           /\ r <= begun /\ call[r] \in Call /\ call[r].service \in Service
<1>1. UNCHANGED <<begun, call, before>> /\ step[r] \in {"first", "second"}
  BY ExecuteFrame
<1>2. \A q \in Nr : q # r => step'[q] = step[q] /\ answer'[q] = answer[q]
  BY OverForGood DEF IInv
<1>3. \A q \in Nr : r \notin before[q]
  BY <1>1 DEF IInv, BeforeIsOver, Over
<1>4. r <= begun /\ call[r] \in Call /\ call[r].service \in Service
  BY <1>1, CallFacts DEF IInv
<1> QED
  BY <1>1, <1>2, <1>3, <1>4 DEF IInv, TypeOK

\* Rows and services go by a removal, and by its own statement only.
LEMMA RowsAreRemoved ==
    ASSUME IInv, NEW r \in Nr, Execute(r), NEW s \in Service, NEW row \in users[s],
           row \notin users'[s]
    PROVE  Removes(r, s, row.user)
<1>1. r <= begun /\ call[r] \in Call /\ step[r] # "none"
  BY OthersGoOn
<1>2. users[s] \subseteq Row /\ users \in [Service -> SUBSET Row]
  BY DEF IInv, TypeOK
<1>3. CASE DropTable(r)
  <2>1. call[r].service = s /\ call[r].op = "deleteService"
    BY <1>2, <1>3 DEF DropTable, At
  <2> QED
    BY <1>1, <2>1, CallFacts DEF IInv, Removes, Deletes
<1>4. CASE DeleteUserRow(r)
  <2>1. call[r].service = s /\ call[r].op = "deleteUser" /\ call[r].user = row.user
    BY <1>2, <1>4 DEF DeleteUserRow, At
  <2>2. call[r] \in DeleteUserCall
    BY <1>1, <2>1 DEF Call, ServiceCall, DeleteUserCall, UserCall
  <2>3. call[r] = [op |-> "deleteUser", service |-> s, user |-> row.user]
    BY <2>1, <2>2 DEF DeleteUserCall
  <2> QED
    BY <1>1, <2>3 DEF Removes
<1>5. CASE SetUser(r)
  BY <1>2, <1>5 DEF SetUser
<1> QED
  BY <1>3, <1>4, <1>5 DEF Execute, SetService, CreateTable, DeleteServiceRow,
     Refuse, GetTableName, GetUser, Die, db

LEMMA ServicesAreRemoved ==
    ASSUME IInv, NEW r \in Nr, Execute(r), NEW s \in services, s \notin services'
    PROVE  Deletes(r, s)
<1>1. r <= begun /\ step[r] # "none"
  BY OthersGoOn
<1>2. DeleteServiceRow(r)
  BY DEF Execute, SetService, CreateTable, DropTable, Refuse, GetTableName, SetUser, DeleteUserRow,
     GetUser, Die, db
<1>3. call[r].service = s /\ call[r].op = "deleteService"
  BY <1>2 DEF DeleteServiceRow, At
<1> QED
  BY <1>1, <1>3, CallFacts DEF IInv, Deletes

\* The statement by which an addUser succeeds.
LEMMA UserIsSet ==
    ASSUME IInv, NEW r \in Nr, Execute(r), call[r].op = "addUser",
           step'[r] = "done", answer'[r] = "true"
    PROVE  /\ step[r] = "second"
           /\ call[r] \in UserCall
           /\ ~ Taken(call[r].service, call[r].user)
           /\ users' = [users EXCEPT ![call[r].service] = @ \cup
                 {[user |-> call[r].user, password |-> call[r].password, by |-> r]}]
<1>1. SetUser(r)
  BY DEF Execute, SetService, CreateTable, DeleteServiceRow, DropTable, Refuse, GetTableName,
     DeleteUserRow, GetUser, Die, At, GoOn, Finish, Result, IInv, TypeOK
<1>2. call[r] \in UserCall
  <2>1. call[r] \in Call
    BY OthersGoOn
  <2> QED
    BY <2>1 DEF Call, ServiceCall, DeleteUserCall, UserCall
<1>3. answer \in [Nr -> {"none", "true", "false", "exception"}]
  BY DEF IInv, TypeOK
<1> QED
  BY <1>1, <1>2, <1>3 DEF SetUser, At, Result

\* Rows are those of calls that are over, so a statement of another call keeps
\* what is known about them.
LEMMA RowsStayAdded ==
    ASSUME IInv, TypeOK', KInv, NEW r \in Nr, Execute(r)
    PROVE  RowsAreAdded'
<1> SUFFICES ASSUME NEW s \in Service, NEW row \in users'[s]
             PROVE  /\ Succeeded(row.by, "addUser")'
                    /\ call'[row.by] \in UserCall
                    /\ call'[row.by].service = s
                    /\ call'[row.by].user = row.user
                    /\ call'[row.by].password = row.password
  BY DEF RowsAreAdded
<1>1. UNCHANGED call /\ \A q \in Nr : q # r => step'[q] = step[q] /\ answer'[q] = answer[q]
  BY OthersGoOn
<1>2. CASE row \in users[s]
  <2>1. Succeeded(row.by, "addUser") /\ row.by \in Nr
    BY <1>2 DEF KInv, RowsAreAdded, IInv, TypeOK, Row
  <2>2. row.by # r
    BY <2>1, OthersGoOn DEF Succeeded
  <2> QED
    BY <1>1, <1>2, <2>1, <2>2 DEF KInv, RowsAreAdded, Succeeded
<1>3. CASE row \notin users[s]
  <2>1. SetUser(r) /\ users' # users
    BY <1>3 DEF Execute, SetService, CreateTable, DeleteServiceRow, DropTable, Refuse, GetTableName,
       DeleteUserRow, GetUser, Die, db, IInv, TypeOK
  <2>2. call[r].op = "addUser" /\ step'[r] = "done" /\ answer'[r] = "true"
    BY <2>1 DEF SetUser, At, Finish, Result, IInv, TypeOK
  <2>3. /\ call[r] \in UserCall
        /\ users' = [users EXCEPT ![call[r].service] = @ \cup
                 {[user |-> call[r].user, password |-> call[r].password, by |-> r]}]
    BY <2>2, UserIsSet
  <2>4. /\ s = call[r].service
        /\ row = [user |-> call[r].user, password |-> call[r].password, by |-> r]
    BY <1>3, <2>3 DEF IInv, TypeOK
  <2> QED
    BY <1>1, <2>2, <2>3, <2>4 DEF Succeeded
<1> QED
  BY <1>2, <1>3

LEMMA UsersStayKept ==
    ASSUME IInv, TypeOK', KInv, NEW r \in Nr, Execute(r)
    PROVE  UsersAreKept'
<1> SUFFICES ASSUME NEW q \in Nr, Succeeded(q, "addUser")'
             PROVE  (\E row \in users'[call[q].service] : row.by = q) \/ RemovedSince(q)
  BY OthersGoOn DEF UsersAreKept, RemovedSince, Removes, Deletes
<1>1. UNCHANGED call /\ \A p \in Nr : p # r => step'[p] = step[p] /\ answer'[p] = answer[p]
  BY OthersGoOn
<1>2. CASE q = r
  <2>1. /\ users' = [users EXCEPT ![call[r].service] = @ \cup
                 {[user |-> call[r].user, password |-> call[r].password, by |-> r]}]
        /\ call[r].service \in Service
    BY <1>1, <1>2, UserIsSet, OthersGoOn DEF Succeeded
  <2>2. [user |-> call[r].user, password |-> call[r].password, by |-> r]
            \in users'[call[r].service]
    BY <2>1 DEF IInv, TypeOK
  <2>3. [user |-> call[r].user, password |-> call[r].password, by |-> r].by = r
    OBVIOUS
  <2> QED
    BY <1>2, <2>2, <2>3
<1>3. CASE q # r
  <2>1. Succeeded(q, "addUser")
    BY <1>1, <1>3 DEF Succeeded
  <2>2. call[q].service \in Service
    BY <2>1, CallFacts DEF IInv, Succeeded
  <2>3. ASSUME NEW row \in users[call[q].service], row.by = q,
               row \notin users'[call[q].service]
        PROVE  RemovedSince(q)
    <3>1. row.user = call[q].user
      BY <2>2, <2>3 DEF KInv, RowsAreAdded
    <3>2. Removes(r, call[q].service, call[q].user)
      BY <2>2, <2>3, <3>1, RowsAreRemoved
    <3> QED
      BY <3>2, OthersGoOn DEF RemovedSince
  <2> QED
    BY <2>1, <2>3 DEF KInv, UsersAreKept
<1> QED
  BY <1>2, <1>3

LEMMA ServicesStayKept ==
    ASSUME IInv, TypeOK', KInv, NEW r \in Nr, Execute(r)
    PROVE  ServicesAreKept'
<1> SUFFICES ASSUME NEW q \in Nr, FoundService(q)'
             PROVE  call[q].service \in services' \/ DeletedSince(q)
  BY OthersGoOn DEF ServicesAreKept, DeletedSince, Deletes
<1>1. UNCHANGED call /\ \A p \in Nr : p # r => step'[p] = step[p] /\ answer'[p] = answer[p]
  BY OthersGoOn
<1>2. FoundService(q) \/ call[q].service \in services'
  <2>1. CASE q # r
    BY <1>1, <2>1 DEF FoundService, NewService, Succeeded
  <2>2. CASE q = r
    <3>1. CASE SetService(r)
      BY <1>1, <2>2, <3>1
      DEF SetService, At, GoOn, Result, FoundService, NewService, Succeeded, IInv, TypeOK
    <3>2. CASE CreateTable(r)
      BY <1>1, <2>2, <3>2 DEF CreateTable, At, FoundService, NewService, Succeeded
    <3>3. CASE GetTableName(r)
      BY <1>1, <2>2, <3>3
      DEF GetTableName, Finish, Result, FoundService, NewService, Succeeded, IInv, TypeOK, db
    <3>7. CASE Refuse(r)
      BY <1>1, <2>2, <3>7
      DEF Refuse, Incomplete, Finish, Result, FoundService, NewService, Succeeded, IInv, TypeOK
    <3>4. CASE SetUser(r)
      BY <1>1, <2>2, <3>4 DEF SetUser, At, FoundService, NewService, Succeeded
    <3>5. CASE Die(r)
      BY <1>1, <2>2, <3>5 DEF Die, FoundService, NewService, Succeeded, IInv, TypeOK
    <3>6. CASE DeleteServiceRow(r) \/ DropTable(r) \/ DeleteUserRow(r) \/ GetUser(r)
      BY <1>1, <2>2, <3>6
      DEF DeleteServiceRow, DropTable, DeleteUserRow, GetUser, At, FoundService, NewService,
          Succeeded
    <3> QED
      BY <3>1, <3>2, <3>3, <3>4, <3>5, <3>6, <3>7 DEF Execute
  <2> QED
    BY <2>1, <2>2
<1>3. ASSUME call[q].service \in services, call[q].service \notin services'
      PROVE  DeletedSince(q)
  BY <1>3, ServicesAreRemoved, OthersGoOn DEF DeletedSince
<1> QED
  BY <1>2, <1>3 DEF KInv, ServicesAreKept

\* The INSERT succeeds only where the earlier addition has been undone, by
\* something that the inserting call was not over before.
LEMMA NamesStayUnique ==
    ASSUME IInv, TypeOK', KInv, NEW r \in Nr, Execute(r)
    PROVE  ServiceNamesAreUnique' /\ UserNamesAreUnique'
<1>1. /\ UNCHANGED <<begun, call, before>>
      /\ \A p \in Nr : p # r => step'[p] = step[p] /\ answer'[p] = answer[p]
      /\ \A p \in Nr : r \notin before[p]
  BY OthersGoOn
<1>2. ASSUME NEW q \in Nr, NEW x \in Nr, q \in before[x], Succeeded(q, "addService")',
             NewService(x)', call[q].service = call[x].service
      PROVE  \E d \in Nr : Deletes(d, call[x].service) /\ Between(q, d, x)
  <2>1. q # r /\ Succeeded(q, "addService")
    BY <1>1, <1>2 DEF Succeeded
  <2>2. CASE NewService(x)
    BY <1>2, <2>1, <2>2 DEF KInv, ServiceNamesAreUnique
  <2>3. CASE ~ NewService(x)
    <3>1. x = r
      BY <1>1, <1>2, <2>3 DEF NewService
    <3>2. SetService(r) /\ answer'[r] = "true"
      BY <1>1, <1>2, <2>3, <3>1
      DEF Execute, CreateTable, DeleteServiceRow, DropTable, Refuse, GetTableName, SetUser,
          DeleteUserRow, GetUser, Die, At, Result, NewService, IInv, TypeOK
    <3>3. call[r].service \notin services
      BY <3>2 DEF SetService, Result, IInv, TypeOK
    <3>4. FoundService(q)
      BY <2>1 DEF FoundService, NewService, Succeeded
    <3>5. DeletedSince(q)
      BY <1>2, <3>1, <3>3, <3>4 DEF KInv, ServicesAreKept
    <3> QED
      BY <1>1, <1>2, <3>1, <3>5 DEF DeletedSince, Between
  <2> QED
    BY <2>2, <2>3
<1>3. ASSUME NEW q \in Nr, NEW x \in Nr, q \in before[x], Succeeded(q, "addUser")',
             Succeeded(x, "addUser")', call[q].service = call[x].service,
             call[q].user = call[x].user
      PROVE  \E d \in Nr : Removes(d, call[x].service, call[x].user) /\ Between(q, d, x)
  <2>1. q # r /\ Succeeded(q, "addUser")
    BY <1>1, <1>3 DEF Succeeded
  <2>2. CASE x # r
    BY <1>1, <1>3, <2>1, <2>2 DEF KInv, UserNamesAreUnique, AddedTwice, Succeeded
  <2>3. CASE x = r
    <3>1. ~ Taken(call[r].service, call[r].user)
      BY <1>1, <1>3, <2>3, UserIsSet DEF Succeeded
    <3>2. call[r].service \in Service
      BY OthersGoOn
    <3>3. ~ \E row \in users[call[q].service] : row.by = q
      BY <1>3, <2>3, <3>1, <3>2 DEF KInv, RowsAreAdded, Taken
    <3>4. RemovedSince(q)
      BY <2>1, <3>3 DEF KInv, UsersAreKept
    <3> QED
      BY <1>1, <1>3, <2>3, <3>4 DEF RemovedSince, Between
  <2> QED
    BY <2>2, <2>3
<1>4. ServiceNamesAreUnique'
  BY <1>1, <1>2 DEF ServiceNamesAreUnique, Deletes, Between
<1>5. UserNamesAreUnique'
  BY <1>1, <1>3 DEF UserNamesAreUnique, AddedTwice, Removes, Deletes, Between
<1> QED
  BY <1>4, <1>5

\* userAuth reads the row of an addUser that no removal came after; and it
\* misses none.
LEMMA LoginsStayRight ==
    ASSUME IInv, TypeOK', KInv, NEW r \in Nr, Execute(r), ~MayFail
    PROVE  AuthWasEarned' /\ AddedCanLogIn'
<1>1. /\ UNCHANGED <<begun, call, before>>
      /\ \A p \in Nr : p # r => step'[p] = step[p] /\ answer'[p] = answer[p]
      /\ \A p \in Nr : r \notin before[p] /\ before[p] \subseteq Nr
      /\ call[r].service \in Service
  BY OthersGoOn
<1>2. \A x \in Nr : AddsFor(x)' = AddsFor(x)
  BY <1>1 DEF AddsFor
<1>3. \A d \in Nr : \A s, u : Removes(d, s, u)' <=> Removes(d, s, u)
  BY <1>1 DEF Removes, Deletes
<1>4. \A p \in Nr : \A op : p # r => (Succeeded(p, op)' <=> Succeeded(p, op))
  BY <1>1 DEF Succeeded
<1>5. ASSUME NEW x \in Nr, Succeeded(x, "userAuth")'
      PROVE  \E q \in AddsFor(x) : EarnedBy(x, q)
  <2>1. CASE x # r
    BY <1>4, <1>5, <2>1 DEF KInv, AuthWasEarned
  <2>2. CASE x = r
    <3>1. GetUser(r) /\ answer'[r] = "true" /\ call[r].op = "userAuth" /\ step[r] # "none"
      BY <1>1, <1>5, <2>2 DEF Succeeded, Execute, SetService, CreateTable, DeleteServiceRow,
         DropTable, Refuse, GetTableName, SetUser, DeleteUserRow, Die, At, GoOn, Finish, Result,
         IInv, TypeOK
    <3>2. PICK row \in users[call[r].service] :
            row.user = call[r].user /\ row.password = call[r].password
      BY <3>1 DEF GetUser, Result, IInv, TypeOK
    <3> DEFINE q == row.by
    <3>3. /\ Succeeded(q, "addUser") /\ q \in Nr /\ call[q] \in UserCall
          /\ call[q].op = "addUser" /\ call[q].service = call[r].service
          /\ call[q].user = call[r].user /\ call[q].password = call[r].password
      BY <1>1, <3>2 DEF KInv, RowsAreAdded, Succeeded, IInv, TypeOK, Row
    <3>4. q \in AddsFor(r)
      BY <3>1, <3>3, SameAddition DEF IInv
    <3>5. ASSUME NEW d \in before[r], Removes(d, call[r].service, call[r].user),
                 Succeeded(d, call[d].op)
          PROVE  q \notin before[d]
      <4>1. d \in Nr
        BY <1>1
      <4>2. CASE Deletes(d, call[r].service)
        <5>1. Succeeded(d, "deleteService") /\ call[d].service = call[r].service
          BY <3>5, <4>2 DEF Deletes, Succeeded
        <5> QED
          BY <3>2, <4>1, <5>1 DEF IInv, ServiceTakesItsUsers
      <4>3. CASE call[d] = [op |-> "deleteUser", service |-> call[r].service,
                            user |-> call[r].user]
        <5>1. /\ Succeeded(d, "deleteUser") /\ call[d].service = call[r].service
              /\ call[d].user = call[r].user
          BY <3>5, <4>3 DEF Succeeded
        <5> QED
          BY <3>2, <4>1, <5>1 DEF IInv, DeletedUserStaysGone
      <4> QED
        BY <3>5, <4>2, <4>3 DEF Removes
    <3> HIDE DEF q
    <3>6. EarnedBy(r, q)
      BY <1>1, <3>3, <3>5 DEF EarnedBy
    <3> QED
      BY <2>2, <3>4, <3>6
  <2> QED
    BY <2>1, <2>2
<1>6. ASSUME NEW x \in Nr, NEW q \in Nr, EarnedBy(x, q) PROVE EarnedBy(x, q)'
  <2>1. q # r
    BY <1>6, OthersGoOn DEF EarnedBy, Succeeded
  <2>2. Succeeded(q, "addUser")'
    BY <1>4, <1>6, <2>1 DEF EarnedBy
  <2>3. ASSUME NEW d \in before[x], Removes(d, call[x].service, call[x].user)',
               Succeeded(d, call[d].op)'
        PROVE  q \notin before[d]
    <3>1. d \in Nr /\ d # r
      BY <1>1
    <3>2. Removes(d, call[x].service, call[x].user)
      BY <1>1, <2>3 DEF Removes, Deletes
    <3>3. Succeeded(d, call[d].op)
      BY <1>1, <2>3, <3>1 DEF Succeeded
    <3> QED
      BY <1>6, <3>2, <3>3 DEF EarnedBy
  <2>4. x \notin before'[q] /\ before'[x] = before[x]
    BY <1>1, <1>6 DEF EarnedBy
  <2>5. \A d \in before'[x] :
            (Removes(d, call[x].service, call[x].user) /\ Succeeded(d, call[d].op))'
                => q \notin before'[d]
    BY <1>1, <2>3, <2>4
  <2> QED
    BY <2>2, <2>4, <2>5 DEF EarnedBy
<1>7. AuthWasEarned'
  <2> SUFFICES ASSUME NEW x \in Nr, Succeeded(x, "userAuth")'
               PROVE  \E q \in AddsFor(x)' : EarnedBy(x, q)'
    BY DEF AuthWasEarned
  <2>1. PICK q \in AddsFor(x) : EarnedBy(x, q)
    BY <1>5
  <2>2. q \in Nr
    BY DEF AddsFor
  <2> QED
    BY <1>2, <1>6, <2>1, <2>2
<1>8. ASSUME NEW x \in Nr, step'[x] = "done", call[x].op = "userAuth", answer'[x] # "true",
             ~Incomplete(x), NEW q \in AddsFor(x) \cap before[x], Succeeded(q, "addUser")'
      PROVE  \E d \in Nr : Removes(d, call[x].service, call[x].user) /\ Between(q, d, x)
  <2>1. q \in Nr /\ q # r /\ Succeeded(q, "addUser")
    BY <1>1, <1>4, <1>8
  <2>2. CASE x # r
    BY <1>1, <1>8, <2>1, <2>2 DEF KInv, AddedCanLogIn
  <2>3. CASE x = r
    <3>1. /\ call[q].service = call[r].service /\ call[q].user = call[r].user
          /\ call[q].password = call[r].password
      <4>1. step[r] # "none"
        BY OthersGoOn
      <4> QED
        BY <1>8, <2>1, <2>3, <4>1, SameAddition DEF IInv
    <3>2. GetTableName(r) \/ GetUser(r)
      BY <1>1, <1>8, <2>3 DEF Execute, SetService, CreateTable, DeleteServiceRow,
         DropTable, Refuse, SetUser, DeleteUserRow, Die, At, IInv, TypeOK
    <3>3. RemovedSince(q)
      <4>1. CASE GetTableName(r)
        <5>1. call[r].service \notin services
          BY <1>8, <2>3, <4>1 DEF Refuse, GetTableName, GoOn, IInv, TypeOK
        <5>2. DeletedSince(q)
          BY <2>1, <3>1, <5>1 DEF KInv, ServicesAreKept, FoundService, Succeeded
        <5> QED
          BY <5>2 DEF DeletedSince, RemovedSince, Removes
      <4>2. CASE GetUser(r)
        <5>1. ~ \E row \in users[call[r].service] :
                   row.user = call[r].user /\ row.password = call[r].password
          BY <1>8, <2>3, <4>2 DEF GetUser, Result, IInv, TypeOK
        <5>2. ~ \E row \in users[call[q].service] : row.by = q
          BY <1>1, <3>1, <5>1 DEF KInv, RowsAreAdded
        <5> QED
          BY <2>1, <5>2 DEF KInv, UsersAreKept
      <4> QED
        BY <3>2, <4>1, <4>2
    <3>4. PICK d \in Nr : Removes(d, call[q].service, call[q].user) /\ d \notin before[q]
      BY <3>3 DEF RemovedSince
    <3> QED
      BY <1>1, <2>3, <3>1, <3>4 DEF Between
  <2> QED
    BY <2>2, <2>3
<1>9. AddedCanLogIn'
  BY <1>1, <1>2, <1>3, <1>8 DEF AddedCanLogIn, Between, Incomplete
<1> QED
  BY <1>7, <1>9

\* A call that begins has done nothing yet, and no older call is over later
\* than it.
LEMMA BeginKeeps ==
    ASSUME IInv, KInv, NEW c \in Call, Begin(c)
    PROVE  KInv'
<1>1. UNCHANGED <<services, tables, users, answer>>
  BY BeginFrame DEF IInv
<1>2. PICK r \in Nr :
          /\ r = begun + 1 /\ step[r] = "none" /\ begun' = r
          /\ step'[r] = "first" /\ before'[r] = {q \in Nr : Over(q)} /\ call'[r] = c
          /\ \A q \in Nr : q # r => /\ step'[q] = step[q]
                                   /\ call'[q] = call[q]
                                   /\ before'[q] = before[q]
  BY BeginFrame DEF IInv
<1>3. /\ \A q \in Nr : r \notin before[q] /\ before[q] \subseteq Nr
      /\ begun \in Nat /\ Nr \subseteq Nat
  BY <1>2 DEF IInv, BeforeIsOver, Over, TypeOK, Nr
<1>4. \A d \in Nr : \A s, u :
        /\ Removes(d, s, u) => d # r /\ Removes(d, s, u)'
        /\ Deletes(d, s) => d # r /\ Deletes(d, s)'
  <2> SUFFICES ASSUME NEW d \in Nr, NEW s, NEW u
               PROVE  /\ Removes(d, s, u) => d # r /\ Removes(d, s, u)'
                      /\ Deletes(d, s) => d # r /\ Deletes(d, s)'
    OBVIOUS
  <2>1. d <= begun => d # r /\ d <= begun'
    <3>1. d \in Nat /\ begun \in Nat /\ r = begun + 1 /\ begun' = r
      BY <1>2, <1>3
    <3> QED
      BY <3>1
  <2>2. d # r => call'[d] = call[d]
    BY <1>2
  <2> QED
    BY <2>1, <2>2 DEF Removes, Deletes
<1>5. \A d \in Nr : \A s, u : Removes(d, s, u)' /\ d # r => Removes(d, s, u)
  <2> SUFFICES ASSUME NEW d \in Nr, NEW s, NEW u, Removes(d, s, u)', d # r
               PROVE  Removes(d, s, u)
    OBVIOUS
  <2>1. d <= begun
    BY <1>2, <1>3 DEF Removes, Deletes
  <2> QED
    BY <1>2, <2>1 DEF Removes, Deletes
<1>6. /\ \A q \in Nr : \A op : Succeeded(q, op)' => q # r /\ Succeeded(q, op)
      /\ \A q \in Nr : \A op : Succeeded(q, op) => q # r /\ Succeeded(q, op)'
  BY <1>1, <1>2 DEF Succeeded
<1>7. \A q \in Nr : /\ FoundService(q)' => q # r /\ FoundService(q)
                    /\ NewService(q)' => q # r /\ NewService(q)
  BY <1>1, <1>2, <1>6 DEF FoundService, NewService
<1>8. \A p, d, q \in Nr : p # r /\ d # r /\ Between(p, d, q) => Between(p, d, q)'
  BY <1>2 DEF Between
<1>9. RowsAreAdded'
  <2> SUFFICES ASSUME NEW s \in Service, NEW row \in users[s]
               PROVE  /\ Succeeded(row.by, "addUser")'
                      /\ call'[row.by] \in UserCall
                      /\ call'[row.by].service = s
                      /\ call'[row.by].user = row.user
                      /\ call'[row.by].password = row.password
    BY <1>1 DEF RowsAreAdded
  <2>1. row.by \in Nr /\ Succeeded(row.by, "addUser")
    BY DEF KInv, RowsAreAdded, IInv, TypeOK, Row
  <2> QED
    BY <1>2, <1>6, <2>1 DEF KInv, RowsAreAdded
<1>10. UsersAreKept'
  <2> SUFFICES ASSUME NEW q \in Nr, Succeeded(q, "addUser")'
               PROVE  (\E row \in users[call[q].service] : row.by = q) \/ RemovedSince(q)'
    BY <1>1, <1>2, <1>6 DEF UsersAreKept
  <2>1. q # r /\ Succeeded(q, "addUser")
    BY <1>6
  <2> QED
    BY <1>2, <1>4, <2>1 DEF KInv, UsersAreKept, RemovedSince
<1>11. ServicesAreKept'
  <2> SUFFICES ASSUME NEW q \in Nr, FoundService(q)'
               PROVE  call[q].service \in services \/ DeletedSince(q)'
    BY <1>1, <1>2, <1>7 DEF ServicesAreKept
  <2>1. q # r /\ FoundService(q)
    BY <1>7
  <2> QED
    BY <1>2, <1>4, <2>1 DEF KInv, ServicesAreKept, DeletedSince
<1>12. ServiceNamesAreUnique'
  <2> SUFFICES ASSUME NEW q \in Nr, NEW x \in Nr, (q \in before[x])',
                      Succeeded(q, "addService")', NewService(x)',
                      (call[q].service = call[x].service)'
               PROVE  \E d \in Nr : Deletes(d, call[x].service)' /\ Between(q, d, x)'
    BY DEF ServiceNamesAreUnique
  <2>1. q # r /\ x # r /\ Succeeded(q, "addService") /\ NewService(x)
    BY <1>6, <1>7
  <2>2. PICK d \in Nr : Deletes(d, call[x].service) /\ Between(q, d, x)
    BY <1>2, <2>1 DEF KInv, ServiceNamesAreUnique
  <2> QED
    BY <1>2, <1>4, <1>8, <2>1, <2>2
<1>13. UserNamesAreUnique'
  <2> SUFFICES ASSUME NEW q \in Nr, NEW x \in Nr, (q \in before[x])',
                      Succeeded(q, "addUser")', Succeeded(x, "addUser")',
                      (call[q].service = call[x].service)', (call[q].user = call[x].user)'
               PROVE  \E d \in Nr :
                        Removes(d, call[x].service, call[x].user)' /\ Between(q, d, x)'
    BY DEF UserNamesAreUnique, AddedTwice
  <2>1. q # r /\ x # r /\ Succeeded(q, "addUser") /\ Succeeded(x, "addUser")
    BY <1>6
  <2>2. PICK d \in Nr : Removes(d, call[x].service, call[x].user) /\ Between(q, d, x)
    BY <1>2, <2>1 DEF KInv, UserNamesAreUnique, AddedTwice
  <2> QED
    BY <1>2, <1>4, <1>8, <2>1, <2>2
<1>14. ASSUME ~MayFail PROVE AuthWasEarned'
  <2> SUFFICES ASSUME NEW x \in Nr, Succeeded(x, "userAuth")'
               PROVE  \E q \in AddsFor(x)' : EarnedBy(x, q)'
    BY DEF AuthWasEarned
  <2>1. x # r /\ Succeeded(x, "userAuth")
    BY <1>6
  <2>2. PICK q \in AddsFor(x) : EarnedBy(x, q)
    BY <1>14, <2>1 DEF KInv, AuthWasEarned
  <2>3. q \in Nr /\ q # r /\ Succeeded(q, "addUser")'
    BY <1>6, <2>2 DEF AddsFor, EarnedBy
  <2>4. q \in AddsFor(x)'
    BY <1>2, <2>1, <2>2, <2>3 DEF AddsFor
  <2>5. ASSUME NEW d \in before[x], Removes(d, call[x].service, call[x].user)',
               Succeeded(d, call[d].op)'
        PROVE  q \notin before[d]
    <3>1. d \in Nr /\ d # r
      BY <1>3
    <3>2. Removes(d, call[x].service, call[x].user)
      BY <1>2, <1>5, <2>1, <2>5, <3>1
    <3>3. Succeeded(d, call[d].op)
      BY <1>1, <1>2, <2>5, <3>1 DEF Succeeded
    <3> QED
      BY <2>2, <3>2, <3>3 DEF EarnedBy
  <2>6. before'[x] = before[x] /\ before'[q] = before[q]
    BY <1>2, <2>1, <2>3
  <2>7. \A d \in before[x] : before'[d] = before[d]
    BY <1>2, <1>3
  <2>8. x \notin before'[q]
    BY <2>2, <2>6 DEF EarnedBy
  <2>9. EarnedBy(x, q)'
    BY <2>3, <2>5, <2>6, <2>7, <2>8 DEF EarnedBy
  <2> QED
    BY <2>4, <2>9
<1>15. ASSUME ~MayFail PROVE AddedCanLogIn'
  <2> SUFFICES ASSUME NEW x \in Nr, step'[x] = "done", call'[x].op = "userAuth",
                      answer'[x] # "true", ~Incomplete(x)', NEW q \in AddsFor(x)' \cap before'[x],
                      Succeeded(q, "addUser")'
               PROVE  \E d \in Nr :
                        Removes(d, call[x].service, call[x].user)' /\ Between(q, d, x)'
    BY DEF AddedCanLogIn
  <2>1. x # r /\ q \in Nr /\ q # r /\ Succeeded(q, "addUser")
    BY <1>2, <1>6 DEF AddsFor
  <2>2. q \in AddsFor(x) \cap before[x]
    BY <1>2, <2>1 DEF AddsFor
  <2>4. ~Incomplete(x)
    BY <1>2, <2>1 DEF Incomplete
  <2>3. PICK d \in Nr : Removes(d, call[x].service, call[x].user) /\ Between(q, d, x)
    BY <1>1, <1>2, <1>15, <2>1, <2>2, <2>4 DEF KInv, AddedCanLogIn
  <2> QED
    BY <1>2, <1>4, <1>8, <2>1, <2>3
<1> QED
  BY <1>9, <1>10, <1>11, <1>12, <1>13, <1>14, <1>15 DEF KInv

LEMMA KeptInductive == IInv /\ KInv /\ [Next]_vars => KInv'
<1> SUFFICES ASSUME IInv, KInv, [Next]_vars PROVE KInv'
  OBVIOUS
<1>1. TypeOK'
  BY TypeStep DEF IInv
<1>2. CASE UNCHANGED vars
  BY <1>2 DEF vars, KInv, RowsAreAdded, UsersAreKept, ServicesAreKept, ServiceNamesAreUnique,
     UserNamesAreUnique, AuthWasEarned, AddedCanLogIn, Incomplete, EarnedBy, AddsFor, AddedTwice,
     Between, RemovedSince, DeletedSince, Removes, Deletes, FoundService, NewService, Succeeded
<1>3. ASSUME NEW c \in Call, Begin(c) PROVE KInv'
  BY <1>3, BeginKeeps
<1>4. ASSUME NEW r \in Nr, Execute(r) PROVE KInv'
  BY <1>1, <1>4, RowsStayAdded, UsersStayKept, ServicesStayKept, NamesStayUnique,
     LoginsStayRight DEF KInv
<1> QED
  BY <1>2, <1>3, <1>4 DEF Next

THEOREM KeptInvariant == Spec => []KInv
<1>1. Init => KInv
  BY DEF Init, KInv, RowsAreAdded, UsersAreKept, ServicesAreKept, ServiceNamesAreUnique,
     UserNamesAreUnique, AuthWasEarned, AddedCanLogIn, AddedTwice, FoundService, NewService,
     Succeeded
<1> QED
  BY <1>1, KeptInductive, AccountsInvariant, PTL DEF Spec

\* A service name and a user name are given once (the UNIQUE keys of
\* service_id_table and of the user tables): of two calls that were both told
\* that they added it, the later one follows a removal.  Also when statements
\* fail.
THEOREM NamesAreGivenOnce == Spec => []NamesAreUnique
<1>1. KInv => NamesAreUnique
  BY DEF KInv, ServiceNamesAreUnique, UserNamesAreUnique, NamesAreUnique, NewService,
     AddedTwice, Succeeded
<1> QED
  BY <1>1, KeptInvariant, PTL

\* userAuth (UserLogic l.85) answers with a token only for a name and a
\* password that an addUser has stored, and that no removal which was over
\* before userAuth began has taken away, if no statement fails.
THEOREM LoginsAreEarned ==
    ASSUME ~MayFail
    PROVE  Spec => []AuthIsEarned
<1>1. KInv => AuthIsEarned
  BY DEF KInv, AuthWasEarned, EarnedBy, AuthIsEarned, Succeeded
<1> QED
  BY <1>1, KeptInvariant, PTL

\* Whoever addUser has stored is let in by every later userAuth with the same
\* password, until a removal begins to run beside them, if no statement fails
\* and neither the name nor the password is empty.
THEOREM AddedUsersLogIn ==
    ASSUME ~MayFail
    PROVE  Spec => []AddedCanLogIn
<1>1. KInv => AddedCanLogIn
  BY DEF KInv
<1> QED
  BY <1>1, KeptInvariant, PTL
=============================================================================
