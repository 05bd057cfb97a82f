-------------------------------- MODULE Users --------------------------------
(***************************************************************************)
(* Administration of users: pkg/auth/users, called by the handlers of      *)
(* pkg/webserver for requests of logged-in users, and by the commands of   *)
(* cmd (createuser, edituser, changepassword, deleteuser), which open the  *)
(* same database while the server runs.                                    *)
(*                                                                         *)
(* UpdateUser and UpdatePassword read the row in one call to the database  *)
(* and write all of its columns in another one; between the two, and       *)
(* between the check of the acting user and the first of them, any other   *)
(* request or command may run.                                             *)
(*                                                                         *)
(* Only form data that passes validation gets this far: Names are valid    *)
(* usernames, Passwords pass validatePasswordStrength.                     *)
(***************************************************************************)
EXTENDS Naturals

CONSTANTS
    Clients,        \* requests and commands that may be in progress together
    MaxUsers,       \* bound on the users ever created
    Names,
    Passwords,
    Levels,         \* access levels that are given to users
    First           \* the columns of the first administrator's row

Ids == 1 .. MaxUsers

\* AccessLevelReadOnly, AccessLevelAdmin
ReadOnly == 1
Admin == 3

Columns == [name : Names, password : Passwords, level : Levels]

ASSUME UsersAssumption ==
    /\ MaxUsers \in Nat \ {0}
    /\ Levels \subseteq ReadOnly .. Admin
    /\ First \in Columns
    /\ First.level = Admin

VARIABLES
    row,        \* "absent", "live" or "deleted": the row with this id
    user,       \* its columns
    pc,         \* "idle", "called" or "read": where the client is
    call,       \* what it was asked to do
    copy,       \* the User that GetUserByID returned to it
    commands,   \* history: whether a command was ever run
    crossed,    \* history: users on whom calls have overlapped
    raced       \* history: whether deletes or demotions have overlapped

history == <<crossed, raced>>
vars == <<row, user, pc, call, copy, commands, history>>

NoCall == [op |-> "none"]
Calls ==
    [op : {"create"}, user : Columns]
    \cup [op : {"update"}, id : Ids, name : Names, level : Levels]
    \cup [op : {"password"}, id : Ids, password : Passwords]
    \cup [op : {"delete"}, id : Ids]

TypeOK ==
    /\ row \in [Ids -> {"absent", "live", "deleted"}]
    /\ user \in [Ids -> Columns]
    /\ pc \in [Clients -> {"idle", "called", "read"}]
    /\ call \in [Clients -> Calls \cup {NoCall}]
    /\ copy \in [Clients -> Columns]
    /\ commands \in BOOLEAN
    /\ crossed \subseteq Ids
    /\ raced \in BOOLEAN

\* The first administrator was created from the command line.
Init ==
    /\ row = [i \in Ids |-> IF i = 1 THEN "live" ELSE "absent"]
    /\ user = [i \in Ids |-> First]
    /\ pc = [c \in Clients |-> "idle"]
    /\ call = [c \in Clients |-> NoCall]
    /\ copy = [c \in Clients |-> First]
    /\ commands = FALSE
    /\ crossed = {}
    /\ raced = FALSE

-----------------------------------------------------------------------------
(* Requests and commands, up to their call of pkg/auth/users. *)

Invoke(c, k) ==
    /\ pc[c] = "idle"
    /\ pc' = [pc EXCEPT ![c] = "called"]
    /\ call' = [call EXCEPT ![c] = k]
    /\ UNCHANGED <<row, user, copy>>

\* The middlewares: the request is one of a user who exists and whose level
\* is high enough.
Authorised(a, required) == row[a] = "live" /\ user[a].level >= required

CreateUserPost(c, a, u) ==
    /\ Authorised(a, Admin)
    /\ Invoke(c, [op |-> "create", user |-> u])

\* "To prevent lockout, you cannot change the current user access level to
\* below Admin"
UpdateUserPut(c, a, i, n, l) ==
    /\ Authorised(a, Admin)
    /\ ~(i = a /\ l < Admin)
    /\ Invoke(c, [op |-> "update", id |-> i, name |-> n, level |-> l])

UpdatePasswordPut(c, a, i, p) ==
    /\ Authorised(a, Admin)
    /\ Invoke(c, [op |-> "password", id |-> i, password |-> p])

\* Any user, for themselves, with the current password.
CurrentUserUpdatePassword(c, a, p) ==
    /\ Authorised(a, ReadOnly)
    /\ Invoke(c, [op |-> "password", id |-> a, password |-> p])

\* Mutant of DeleteUserPost: an administrator may delete himself.
DeleteAnyone(c, a, i) ==
    /\ Authorised(a, Admin)
    /\ Invoke(c, [op |-> "delete", id |-> i])

DeleteUserPost(c, a, i) ==
    /\ Authorised(a, Admin)
    /\ i # a
    /\ Invoke(c, [op |-> "delete", id |-> i])

Request(c) ==
    /\ UNCHANGED commands
    /\ \E a \in Ids :
        \/ \E u \in Columns : CreateUserPost(c, a, u)
        \/ \E i \in Ids, n \in Names, l \in Levels : UpdateUserPut(c, a, i, n, l)
        \/ \E i \in Ids, p \in Passwords : UpdatePasswordPut(c, a, i, p)
        \/ \E p \in Passwords : CurrentUserUpdatePassword(c, a, p)
        \/ \E i \in Ids : DeleteUserPost(c, a, i)

CreateUserCommand(c, u) ==
    Invoke(c, [op |-> "create", user |-> u])

\* The other commands: GetUserByUsername gives the id, then as the handlers do,
\* without an acting user.
EditUserCommand(c, i, n, l) ==
    /\ row[i] = "live"
    /\ Invoke(c, [op |-> "update", id |-> i, name |-> n, level |-> l])

ChangePasswordCommand(c, i, p) ==
    /\ row[i] = "live"
    /\ Invoke(c, [op |-> "password", id |-> i, password |-> p])

DeleteUserCommand(c, i) ==
    /\ row[i] = "live"
    /\ Invoke(c, [op |-> "delete", id |-> i])

Command(c) ==
    /\ commands' = TRUE
    /\ \/ \E u \in Columns : CreateUserCommand(c, u)
       \/ \E i \in Ids, n \in Names, l \in Levels : EditUserCommand(c, i, n, l)
       \/ \E i \in Ids, p \in Passwords : ChangePasswordCommand(c, i, p)
       \/ \E i \in Ids : DeleteUserCommand(c, i)

-----------------------------------------------------------------------------
(* pkg/auth/users, one call to the database at a time. *)

\* The call returns; what it wrote is in row and user.
Return(c) ==
    /\ pc' = [pc EXCEPT ![c] = "idle"]
    /\ call' = [call EXCEPT ![c] = NoCall]
    /\ copy' = [copy EXCEPT ![c] = First]
    /\ UNCHANGED commands

\* The unique index on username has the soft-deleted rows, too.
NameFree(n, i) == \A j \in Ids \ {i} : row[j] # "absent" => user[j].name # n

CreateUser(c) ==
    /\ pc[c] = "called"
    /\ call[c].op = "create"
    /\ \E i \in Ids :
        /\ row[i] = "absent"
        /\ \A j \in Ids : j < i => row[j] # "absent"
        /\ NameFree(call[c].user.name, i)
        /\ row' = [row EXCEPT ![i] = "live"]
        /\ user' = [user EXCEPT ![i] = call[c].user]
    /\ Return(c)

\* Mutant of Found: soft-deleted rows are found, too.
FoundUnscoped(i) == row[i] # "absent"

\* The query of GetUserByID.
Found(i) == row[i] = "live"

GetUserByID(c) ==
    /\ pc[c] = "called"
    /\ call[c].op # "create"
    /\ Found(call[c].id)
    /\ pc' = [pc EXCEPT ![c] = "read"]
    /\ copy' = [copy EXCEPT ![c] = user[call[c].id]]
    /\ UNCHANGED <<row, user, call, commands>>

\* gorm's Save: UPDATE of every column of the live row and, when there was
\* none, an upsert that makes the row live (see Save in module Queue).
Save(i, columns) ==
    /\ NameFree(columns.name, i)
    /\ row' = [row EXCEPT ![i] = "live"]
    /\ user' = [user EXCEPT ![i] = columns]

UpdateUser(c) ==
    /\ pc[c] = "read"
    /\ call[c].op = "update"
    /\ Save(call[c].id, [copy[c] EXCEPT !.name = call[c].name, !.level = call[c].level])
    /\ Return(c)

\* Mutant of UpdatePassword: the other columns are not taken from the row.
PasswordResetsLevel(c) ==
    /\ pc[c] = "read"
    /\ call[c].op = "password"
    /\ Save(call[c].id, [copy[c] EXCEPT !.password = call[c].password, !.level = ReadOnly])
    /\ Return(c)

UpdatePassword(c) ==
    /\ pc[c] = "read"
    /\ call[c].op = "password"
    /\ Save(call[c].id, [copy[c] EXCEPT !.password = call[c].password])
    /\ Return(c)

DeleteUser(c) ==
    /\ pc[c] = "read"
    /\ call[c].op = "delete"
    /\ row' = [row EXCEPT ![call[c].id] = IF @ = "live" THEN "deleted" ELSE @]
    /\ Return(c)
    /\ UNCHANGED user

\* The user is not found, the name is taken, the database fails or the client
\* dies: nothing is written.
Fail(c) ==
    /\ pc[c] # "idle"
    /\ Return(c)
    /\ UNCHANGED <<row, user>>

Step ==
    \E c \in Clients :
        \/ Request(c) \/ Command(c)
        \/ CreateUser(c) \/ GetUserByID(c)
        \/ UpdateUser(c) \/ UpdatePassword(c) \/ DeleteUser(c)
        \/ Fail(c)

\* Two calls have read user i and not written yet.
Crossing(i) ==
    \E c, d \in Clients :
        c # d /\ \A b \in {c, d} : pc[b] = "read" /\ call[b].id = i

\* Carrying out k takes an access level away.
Takes(k) == k.op = "delete" \/ (k.op = "update" /\ k.level < Admin)

\* Two calls that take access levels away, of whomever, are under way.
Racing == \E c, d \in Clients : c # d /\ \A b \in {c, d} : pc[b] # "idle" /\ Takes(call[b])

\* Nothing in the code keeps calls apart; the history says whether they did.
Next ==
    /\ Step
    /\ crossed' = crossed \cup {i \in Ids : Crossing(i)'}
    /\ raced' = (raced \/ Racing')

Spec == Init /\ [][Next]_vars
-----------------------------------------------------------------------------
\* User i is deleted, and no call under way has read the row before that.
Gone(i) ==
    /\ row[i] = "deleted"
    /\ \A c \in Clients : pc[c] = "read" /\ call[c].id = i => call[c].op = "delete"

\* Whatever overlaps, only an edit or change of password that had read the row
\* before it was deleted can bring a user back: once those calls have ended, the
\* delete is final.
DeletionSettles == [][\A i \in Ids : Gone(i) => Gone(i)']_vars

\* "Delete a User - permanently remove a user": a deleted user stays deleted.
DeletedStaysDeleted == [][\A i \in Ids : row[i] = "deleted" => row'[i] = "deleted"]_vars

\* Client c ends an operation on user i.
Ends(c, i, op) == pc[c] = "read" /\ pc'[c] = "idle" /\ call[c].op = op /\ call[c].id = i

\* "Edit a User - update details such as username, password, or access level":
\* what was edited stays until it is edited again.  A name or access level
\* changes only by an edit that asks for this, a password only by a change of
\* the password.  Calls on other users may overlap; calls on the user must not
\* have done so.
EditsStick ==
    [][\A i \in Ids \ crossed : row[i] = "live" =>
        /\ user'[i].name # user[i].name \/ user'[i].level # user[i].level =>
            \E c \in Clients : /\ Ends(c, i, "update")
                               /\ user'[i].name = call[c].name
                               /\ user'[i].level = call[c].level
        /\ user'[i].password # user[i].password =>
            \E c \in Clients : /\ Ends(c, i, "password")
                               /\ user'[i].password = call[c].password]_vars

\* As long as no command is run and no two deletes or demotions, nor two calls on
\* one user, overlap, the requests of the web interface never leave the system
\* without an administrator.
AdminRemains == ~commands /\ crossed = {} /\ ~raced => \E i \in Ids : Authorised(i, Admin)
=============================================================================
