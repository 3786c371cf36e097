------------------------------ MODULE Accounts ------------------------------
(***************************************************************************)
(* The account manager: ServiceLogic and UserLogic on ServiceModel and     *)
(* UserModel.                                                              *)
(*                                                                         *)
(* Each API call is a PHP process of its own; it runs one SQL statement at *)
(* a time, outside any transaction, so the statements of different calls   *)
(* interleave.  A call has one or two of them: "first" and "second" name   *)
(* the one that comes next.                                                *)
(*                                                                         *)
(* A service has a row in service_id_table and a table of its own for its  *)
(* users.  The table's name is computed from the service's, so a table is  *)
(* named here by its service.                                              *)
(*                                                                         *)
(* Left out: the permission of a user and the token made of it, the        *)
(* deleted flag (no code sets it), and the lists, which change nothing.    *)
(***************************************************************************)
EXTENDS Naturals

CONSTANTS Service,    \* service_id: names that somebody asks for; not the empty
                      \* one, which addService refuses and nothing finds then
          User,       \* user_id; the empty one may be among them
          Password,   \* passwords, as SecureHash leaves them; userAuth may be
                      \* sent the empty one
          Empty,      \* the empty string, which a parameter is that is left out
          MaxCall,    \* bound: API calls in a behaviour
          MayFail     \* may a statement fail for reasons of the server's own?

ASSUME CallAssumption == MaxCall \in Nat /\ MayFail \in BOOLEAN

Nr == 1 .. MaxCall    \* calls are numbered in the order in which they begin

VARIABLES
    services,  \* the rows of service_id_table
    tables,    \* the services whose user table exists
    users,     \* the rows of each user table, with the call that added them
    begun,     \* how many calls have begun
    call,      \* what each call asks for
    step,      \* how far it is
    answer,    \* $result, what it returns when it is done
    before     \* the calls that were over when it began

db == <<services, tables, users>>
calls == <<begun, call, before>>
vars == <<services, tables, users, begun, call, step, answer, before>>

ServiceCall == [op : {"addService", "deleteService"}, service : Service]
DeleteUserCall == [op : {"deleteUser"}, service : Service, user : User]
UserCall == [op : {"addUser", "userAuth"}, service : Service, user : User,
             password : Password]
Call == ServiceCall \cup DeleteUserCall \cup UserCall
NoCall == [op |-> "none"]

Row == [user : User, password : Password, by : Nr]

TypeOK ==
    /\ services \subseteq Service
    /\ tables \subseteq Service
    /\ users \in [Service -> SUBSET Row]
    /\ \A s \in Service \ tables : users[s] = {}
    /\ begun \in 0 .. MaxCall
    /\ call \in [Nr -> Call \cup {NoCall}]
    /\ step \in [Nr -> {"none", "first", "second", "done", "dead"}]
    /\ \A r \in Nr : step[r] = "none" <=> r > begun
    /\ \A r \in Nr : r <= begun => call[r] \in Call
    /\ answer \in [Nr -> {"none", "true", "false", "exception"}]
    /\ before \in [Nr -> SUBSET Nr]
-----------------------------------------------------------------------------
(* Helpers.                                                                *)

\* call r is about to run this statement of this operation
At(r, when, op) == step[r] = when /\ call[r].op = op

GoOn(r) == step' = [step EXCEPT ![r] = "second"]

Finish(r) == step' = [step EXCEPT ![r] = "done"]

Result(r, ok) == answer' = [answer EXCEPT ![r] = ok]
-----------------------------------------------------------------------------
(* Slips that the properties below must notice; no action uses these.      *)

\* a user table without its UNIQUE key
NeverTaken(s, u) == FALSE

\* INSERT that does not need the table to be there
SetUserAnywhere(r) ==
    LET c == call[r] IN
    /\ At(r, "second", "addUser")
    /\ users' = [users EXCEPT ![c.service] =
                    @ \cup {[user |-> c.user, password |-> c.password, by |-> r]}]
    /\ Result(r, "true")
    /\ Finish(r)
    /\ UNCHANGED <<services, tables, calls>>

\* DELETE by a column that never matches
DeleteUserByRowId(r) ==
    /\ At(r, "second", "deleteUser")
    /\ Result(r, "true")
    /\ Finish(r)
    /\ UNCHANGED <<db, calls>>

\* DROP of the table that service_id_table names, looked up too late
DropTableIfListed(r) ==
    LET s == call[r].service IN
    /\ At(r, "second", "deleteService")
    /\ IF s \in services
       THEN tables' = tables \ {s} /\ users' = [users EXCEPT ![s] = {}]
       ELSE UNCHANGED <<tables, users>>
    /\ Finish(r)
    /\ UNCHANGED <<services, answer, calls>>

\* CREATE only for a service whose row was inserted
CreateTableOnce(r) ==
    LET s == call[r].service IN
    /\ At(r, "second", "addService")
    /\ tables' = IF answer[r] = "true" THEN tables \cup {s} ELSE tables
    /\ Finish(r)
    /\ UNCHANGED <<services, users, answer, calls>>

\* CREATE that replaces a table that exists
CreateTableAfresh(r) ==
    LET s == call[r].service IN
    /\ At(r, "second", "addService")
    /\ tables' = tables \cup {s}
    /\ users' = [users EXCEPT ![s] = {}]
    /\ Finish(r)
    /\ UNCHANGED <<services, answer, calls>>

\* userAuth that does not look at the password
GetUserAnyPassword(r) ==
    LET c == call[r] IN
    /\ At(r, "second", "userAuth")
    /\ Result(r, IF \E row \in users[c.service] : row.user = c.user
                 THEN "true" ELSE "false")
    /\ Finish(r)
    /\ UNCHANGED <<db, calls>>
-----------------------------------------------------------------------------
(* addService.                                                             *)

\* INSERT: service_id is UNIQUE.  Whatever comes of it is what addService
\* will return.
SetService(r) ==
    LET s == call[r].service IN
    /\ At(r, "first", "addService")
    /\ \/ /\ s \notin services
          /\ services' = services \cup {s}
          /\ Result(r, "true")
       \/ /\ s \in services \/ MayFail
          /\ Result(r, "false")
          /\ UNCHANGED services
    /\ GoOn(r)
    /\ UNCHANGED <<tables, users, calls>>

\* CREATE TABLE IF NOT EXISTS, whether or not the row was new; its own result
\* is dropped.
CreateTable(r) ==
    LET s == call[r].service IN
    /\ At(r, "second", "addService")
    /\ \/ tables' = tables \cup {s}
       \/ MayFail /\ UNCHANGED tables
    /\ Finish(r)
    /\ UNCHANGED <<services, users, answer, calls>>
-----------------------------------------------------------------------------
(* deleteService.                                                          *)

\* DELETE, which is content with no row.
DeleteServiceRow(r) ==
    LET s == call[r].service IN
    /\ At(r, "first", "deleteService")
    /\ \/ /\ services' = services \ {s}
          /\ Result(r, "true")
       \/ /\ MayFail
          /\ Result(r, "false")
          /\ UNCHANGED services
    /\ GoOn(r)
    /\ UNCHANGED <<tables, users, calls>>

\* DROP TABLE, also when the row could not be deleted; its own result is
\* dropped.
DropTable(r) ==
    LET s == call[r].service IN
    /\ At(r, "second", "deleteService")
    /\ \/ tables' = tables \ {s} /\ users' = [users EXCEPT ![s] = {}]
       \/ MayFail /\ UNCHANGED <<tables, users>>
    /\ Finish(r)
    /\ UNCHANGED <<services, answer, calls>>
-----------------------------------------------------------------------------
(* addUser, deleteUser and userAuth.                                       *)

\* userAuth refuses what is incomplete; addUser does not ask.
Incomplete(r) ==
    /\ call[r].op = "userAuth"
    /\ Empty \in {call[r].service, call[r].user, call[r].password}

Refuse(r) ==
    /\ step[r] = "first" /\ Incomplete(r)
    /\ Result(r, "false")
    /\ Finish(r)
    /\ UNCHANGED <<db, calls>>

\* setUserTableName: without a row there is no table name, and UserModel
\* throws.  The actions catch that, except userAuth's.
GetTableName(r) ==
    LET s == call[r].service IN
    /\ step[r] = "first"
    /\ call[r].op \in {"addUser", "deleteUser", "userAuth"} /\ ~Incomplete(r)
    /\ \/ s \in services /\ GoOn(r) /\ UNCHANGED answer
       \/ /\ s \notin services \/ MayFail
          /\ Result(r, IF call[r].op = "userAuth" THEN "exception" ELSE "false")
          /\ Finish(r)
    /\ UNCHANGED <<db, calls>>

\* user_id is UNIQUE
Taken(s, u) == \E row \in users[s] : row.user = u

\* INSERT, into the table that was named then
SetUser(r) ==
    LET c == call[r] IN
    /\ At(r, "second", "addUser")
    /\ \/ /\ c.service \in tables
          /\ ~Taken(c.service, c.user)
          /\ users' = [users EXCEPT ![c.service] =
                          @ \cup {[user |-> c.user, password |-> c.password, by |-> r]}]
          /\ Result(r, "true")
       \/ /\ c.service \notin tables \/ Taken(c.service, c.user) \/ MayFail
          /\ Result(r, "false")
          /\ UNCHANGED users
    /\ Finish(r)
    /\ UNCHANGED <<services, tables, calls>>

\* DELETE, from the table that was named then
DeleteUserRow(r) ==
    LET c == call[r] IN
    /\ At(r, "second", "deleteUser")
    /\ \/ /\ c.service \in tables
          /\ users' = [users EXCEPT ![c.service] = {row \in @ : row.user # c.user}]
          /\ Result(r, "true")
       \/ /\ c.service \notin tables \/ MayFail
          /\ Result(r, "false")
          /\ UNCHANGED users
    /\ Finish(r)
    /\ UNCHANGED <<services, tables, calls>>

\* SELECT and the comparison of userAuth: a token, or null
GetUser(r) ==
    LET c == call[r]
        known == \E row \in users[c.service] :
                    row.user = c.user /\ row.password = c.password
    IN
    /\ At(r, "second", "userAuth")
    /\ \/ known /\ Result(r, "true")
       \/ (~known \/ MayFail) /\ Result(r, "false")
    /\ Finish(r)
    /\ UNCHANGED <<db, calls>>
-----------------------------------------------------------------------------
Over(r) == step[r] \in {"done", "dead"}

\* A request of the web server.
Begin(c) ==
    LET r == begun + 1 IN
    /\ begun < MaxCall
    /\ begun' = r
    /\ call' = [call EXCEPT ![r] = c]
    /\ step' = [step EXCEPT ![r] = "first"]
    /\ before' = [before EXCEPT ![r] = {q \in Nr : Over(q)}]
    /\ UNCHANGED <<db, answer>>

\* The PHP process ends between two statements, by a time limit or a restart,
\* and answers nothing.  One that ends before the first has done nothing.
Die(r) ==
    /\ step[r] = "second"
    /\ step' = [step EXCEPT ![r] = "dead"]
    /\ Result(r, "none")
    /\ UNCHANGED <<db, calls>>

Execute(r) ==
    \/ SetService(r)
    \/ CreateTable(r)
    \/ DeleteServiceRow(r)
    \/ DropTable(r)
    \/ Refuse(r)
    \/ GetTableName(r)
    \/ SetUser(r)
    \/ DeleteUserRow(r)
    \/ GetUser(r)
    \/ Die(r)

Init ==
    /\ services = {}
    /\ tables = {}
    /\ users = [s \in Service |-> {}]
    /\ begun = 0
    /\ call = [r \in Nr |-> NoCall]
    /\ step = [r \in Nr |-> "none"]
    /\ answer = [r \in Nr |-> "none"]
    /\ before = [r \in Nr |-> {}]

Next == (\E c \in Call : Begin(c)) \/ (\E r \in Nr : Execute(r))

Spec == Init /\ [][Next]_vars
-----------------------------------------------------------------------------
(* Correctness.                                                            *)

Succeeded(r, op) == step[r] = "done" /\ call[r].op = op /\ answer[r] = "true"

Deletes(d, s) == d <= begun /\ call[d] = [op |-> "deleteService", service |-> s]

Removes(d, s, u) ==
    \/ Deletes(d, s)
    \/ d <= begun /\ call[d] = [op |-> "deleteUser", service |-> s, user |-> u]

\* d was at work after q began and before r was over
Between(q, d, r) == d \notin before[q] /\ r \notin before[d]

\* deleteUser: when it has answered true, the user that was added before it
\* began is gone for good, whatever else goes on (UserLogic l.62).
DeletedUserStaysGone ==
    \A d \in Nr : Succeeded(d, "deleteUser") =>
        \A row \in users[call[d].service] :
            row.user = call[d].user => row.by \notin before[d]

\* deleteService (l.36, "deletes the service, and the users' data too"): when
\* it has answered true, no user that was added before it began is in the
\* table again, also if the service is added anew.
ServiceTakesItsUsers ==
    \A d \in Nr : Succeeded(d, "deleteService") =>
        \A row \in users[call[d].service] : row.by \notin before[d]

\* q and, after it, r did the same addition.
AddedTwice(q, r, op) ==
    /\ q \in before[r]
    /\ Succeeded(q, op)
    /\ Succeeded(r, op)
    /\ call[q].service = call[r].service

\* A name is given once: two calls that added the same service, or the same
\* user, one after the other, had a deletion between them.
NamesAreUnique ==
    \A q, r \in Nr :
        /\ AddedTwice(q, r, "addService") =>
              \E d \in Nr : Deletes(d, call[r].service) /\ Between(q, d, r)
        /\ AddedTwice(q, r, "addUser") /\ call[q].user = call[r].user =>
              \E d \in Nr : Removes(d, call[r].service, call[r].user) /\ Between(q, d, r)

\* The calls that ask for the user and the password that r asks for.
AddsFor(r) ==
    {q \in Nr : /\ call[q] # NoCall
                /\ call[q] = [call[r] EXCEPT !.op = "addUser"]}

\* Nobody is authenticated but by an addUser of the same name and password
\* that was not refused, and not undone before userAuth began.
AuthIsEarned ==
    \A r \in Nr : Succeeded(r, "userAuth") =>
        \E q \in AddsFor(r) :
            /\ r \notin before[q]
            /\ answer[q] # "false"
            /\ \A d \in before[r] :
                  Removes(d, call[r].service, call[r].user) /\ Succeeded(d, call[d].op)
                      => q \notin before[d]

\* Whoever was added can log in, until somebody deletes the user or the
\* service: an addService for a service that exists does no harm.  Only with an
\* empty service, name or password, which addUser takes like any other, not.
AddedCanLogIn ==
    \A r \in Nr :
        step[r] = "done" /\ call[r].op = "userAuth" /\ ~Incomplete(r) /\ answer[r] # "true" =>
        \A q \in AddsFor(r) \cap before[r] : Succeeded(q, "addUser") =>
            \E d \in Nr : Removes(d, call[r].service, call[r].user) /\ Between(q, d, r)

\* Every deletion of r's service was over when r began.
NoDeletionSince(r) == \A d \in Nr : Deletes(d, call[r].service) => d \in before[r]

\* A service that was asked for after every deletion of it was over is there
\* with its table, also if the answer was false, and whatever an earlier call
\* that raced or died has left behind.
ServiceStands ==
    \A r \in Nr :
        step[r] = "done" /\ call[r].op = "addService" /\ NoDeletionSince(r)
            => call[r].service \in services \cap tables

\* ServiceLogic l.20, 36: adding a service creates its user table, deleting it
\* deletes that; so when all calls are done there is a table for each service
\* and no other.
ServicesHaveTables ==
    (\A r \in Nr : step[r] \in {"none", "done"}) => services = tables
=============================================================================
