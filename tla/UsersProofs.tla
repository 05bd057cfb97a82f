----------------------------- MODULE UsersProofs -----------------------------
(***************************************************************************)
(* Proofs about Users, for any number of users, clients, names, passwords  *)
(* and levels, and calls that overlap in any way.  Types are kept and a    *)
(* delete becomes final.  As long as no two calls have worked on a user at *)
(* once, what a call has read of that user is current (CopyInv): edits of  *)
(* the user stick and a delete is final at once.  If, besides, deletes and *)
(* demotions have not overlapped, there is an administrator whom nothing   *)
(* under way harms (AdminInv), so that one remains.  The run               *)
(* users_delete_race shows what an overlap can do.                         *)
(***************************************************************************)
EXTENDS Users, TLAPS

\* A client that is at work has something to do; only operations on an existing
\* user read it first.
ClientsAreCalled ==
    \A c \in Clients :
        /\ pc[c] # "idle" => call[c] \in Calls
        /\ pc[c] = "read" => call[c].op # "create"

TypeInv == TypeOK /\ ClientsAreCalled

\* What a client has read is what is in the table, unless calls on that user
\* have overlapped.
CopyIsCurrent ==
    \A c \in Clients : pc[c] = "read" /\ call[c].id \notin crossed =>
        row[call[c].id] = "live" /\ copy[c] = user[call[c].id]

\* Two calls that have read the same user are one, or recorded.
CrossingsAreRecorded ==
    \A c, d \in Clients :
        /\ pc[c] = "read" /\ pc[d] = "read"
        /\ call[c].id = call[d].id /\ call[c].id \notin crossed
        => c = d

\* Carrying out k would take user a the administrator's role.
Harms(k, a) ==
    \/ k.op = "delete" /\ k.id = a
    \/ k.op = "update" /\ k.id = a /\ k.level < Admin

\* There is an administrator whom nothing that is under way harms.
SafeAdmin ==
    ~commands => \E a \in Ids :
        /\ Authorised(a, Admin)
        /\ \A c \in Clients : pc[c] # "idle" => ~Harms(call[c], a)

\* Calls have been kept apart so far.
KeptApart == crossed = {} /\ ~raced

CopyInv == TypeInv /\ CopyIsCurrent /\ CrossingsAreRecorded
AdminInv == CopyInv /\ (KeptApart => SafeAdmin)

HistoryOK == crossed \subseteq Ids /\ raced \in BOOLEAN

\* The step that ends a call of c.
Write(c) ==
    \/ CreateUser(c) \/ UpdateUser(c) \/ UpdatePassword(c)
    \/ DeleteUser(c) \/ Fail(c)

-----------------------------------------------------------------------------
(* Calls. *)

\* The fields of a call, by operation.
LEMMA CallFields ==
    ASSUME NEW k \in Calls
    PROVE  /\ k.op \in {"create", "update", "password", "delete"}
           /\ k.op = "create" => k.user \in Columns
           /\ k.op # "create" => k.id \in Ids
           /\ k.op = "update" => k.name \in Names /\ k.level \in Levels
           /\ k.op = "password" => k.password \in Passwords
BY DEF Calls

\* The middlewares and handlers let a request through that leaves the acting
\* administrator alone, or changes a password.
LEMMA RequestInvokes ==
    ASSUME NEW c \in Clients, Request(c)
    PROVE  /\ UNCHANGED commands
           /\ \E k \in Calls :
                /\ Invoke(c, k)
                /\ \/ k.op = "password"
                   \/ \E a \in Ids : Authorised(a, Admin) /\ ~Harms(k, a)
<1>1. PICK a \in Ids :
        \/ \E u \in Columns : CreateUserPost(c, a, u)
        \/ \E i \in Ids, n \in Names, l \in Levels : UpdateUserPut(c, a, i, n, l)
        \/ \E i \in Ids, p \in Passwords : UpdatePasswordPut(c, a, i, p)
        \/ \E p \in Passwords : CurrentUserUpdatePassword(c, a, p)
        \/ \E i \in Ids : DeleteUserPost(c, a, i)
  BY DEF Request
<1> DEFINE Allowed(k) == /\ Invoke(c, k)
                         /\ \/ k.op = "password"
                            \/ \E b \in Ids : Authorised(b, Admin) /\ ~Harms(k, b)
<1>2. ASSUME NEW u \in Columns, CreateUserPost(c, a, u) PROVE \E k \in Calls : Allowed(k)
  <2> DEFINE k == [op |-> "create", user |-> u]
  <2>1. k \in Calls /\ ~Harms(k, a)
    BY DEF Calls, Harms
  <2> QED
    BY <1>2, <2>1 DEF CreateUserPost
<1>3. ASSUME NEW i \in Ids, NEW n \in Names, NEW l \in Levels, UpdateUserPut(c, a, i, n, l)
      PROVE  \E k \in Calls : Allowed(k)
  <2> DEFINE k == [op |-> "update", id |-> i, name |-> n, level |-> l]
  <2>1. k \in Calls
    BY DEF Calls
  <2>2. ~Harms(k, a)
    BY <1>3 DEF UpdateUserPut, Harms
  <2> QED
    BY <1>3, <2>1, <2>2 DEF UpdateUserPut
<1>4. ASSUME NEW i \in Ids, NEW p \in Passwords,
             UpdatePasswordPut(c, a, i, p) \/ CurrentUserUpdatePassword(c, a, p)
      PROVE  \E k \in Calls : Allowed(k)
  <2>1. PICK j \in Ids : Invoke(c, [op |-> "password", id |-> j, password |-> p])
    BY <1>4 DEF UpdatePasswordPut, CurrentUserUpdatePassword
  <2>2. [op |-> "password", id |-> j, password |-> p] \in Calls
    BY DEF Calls
  <2> QED
    BY <2>1, <2>2
<1>5. ASSUME NEW i \in Ids, DeleteUserPost(c, a, i) PROVE \E k \in Calls : Allowed(k)
  <2> DEFINE k == [op |-> "delete", id |-> i]
  <2>1. k \in Calls
    BY DEF Calls
  <2>2. ~Harms(k, a)
    BY <1>5 DEF DeleteUserPost, Harms
  <2> QED
    BY <1>5, <2>1, <2>2 DEF DeleteUserPost
<1>6. \E k \in Calls : Allowed(k)
  BY <1>1, <1>2, <1>3, <1>4, <1>5
<1> QED
  BY <1>6 DEF Request

\* A command is any call.
LEMMA CommandInvokes ==
    ASSUME NEW c \in Clients, Command(c)
    PROVE  commands' = TRUE /\ \E k \in Calls : Invoke(c, k)
<1>1. ASSUME NEW u \in Columns, CreateUserCommand(c, u) PROVE \E k \in Calls : Invoke(c, k)
  <2>1. [op |-> "create", user |-> u] \in Calls
    BY DEF Calls
  <2> QED
    BY <1>1, <2>1 DEF CreateUserCommand
<1>2. ASSUME NEW i \in Ids, NEW n \in Names, NEW l \in Levels, EditUserCommand(c, i, n, l)
      PROVE  \E k \in Calls : Invoke(c, k)
  <2>1. [op |-> "update", id |-> i, name |-> n, level |-> l] \in Calls
    BY DEF Calls
  <2> QED
    BY <1>2, <2>1 DEF EditUserCommand
<1>3. ASSUME NEW i \in Ids, NEW p \in Passwords, ChangePasswordCommand(c, i, p)
      PROVE  \E k \in Calls : Invoke(c, k)
  <2>1. [op |-> "password", id |-> i, password |-> p] \in Calls
    BY DEF Calls
  <2> QED
    BY <1>3, <2>1 DEF ChangePasswordCommand
<1>4. ASSUME NEW i \in Ids, DeleteUserCommand(c, i) PROVE \E k \in Calls : Invoke(c, k)
  <2>1. [op |-> "delete", id |-> i] \in Calls
    BY DEF Calls
  <2> QED
    BY <1>4, <2>1 DEF DeleteUserCommand
<1> QED
  BY <1>1, <1>2, <1>3, <1>4 DEF Command

-----------------------------------------------------------------------------
(* Types, whatever runs at the same time. *)

\* The first admin alone is well typed.
LEMMA InitTypes == Init => TypeInv
<1> SUFFICES ASSUME Init PROVE TypeInv
  OBVIOUS
<1>1. /\ row \in [Ids -> {"absent", "live", "deleted"}]
      /\ user \in [Ids -> Columns]
      /\ copy \in [Clients -> Columns]
  BY UsersAssumption DEF Init
<1>2. /\ pc \in [Clients -> {"idle", "called", "read"}]
      /\ call \in [Clients -> Calls \cup {NoCall}]
      /\ ClientsAreCalled
  BY DEF Init, ClientsAreCalled
<1>3. commands \in BOOLEAN /\ crossed \subseteq Ids /\ raced \in BOOLEAN
  BY DEF Init
<1> QED
  BY <1>1, <1>2, <1>3 DEF TypeInv, TypeOK

\* Starting a call keeps the types.
LEMMA InvokeTypes ==
    ASSUME TypeInv, NEW c \in Clients, NEW k \in Calls, Invoke(c, k),
           commands' \in BOOLEAN, HistoryOK'
    PROVE  TypeInv'
<1>1. /\ pc' = [pc EXCEPT ![c] = "called"]
      /\ call' = [call EXCEPT ![c] = k]
      /\ row' = row /\ user' = user /\ copy' = copy
  BY DEF Invoke
<1>2. TypeOK'
  BY <1>1 DEF TypeInv, TypeOK, HistoryOK
<1>3. ClientsAreCalled'
  BY <1>1 DEF TypeInv, TypeOK, ClientsAreCalled
<1> QED
  BY <1>2, <1>3 DEF TypeInv

\* A call that returns leaves its client idle, whatever it wrote.
LEMMA ReturnTypes ==
    ASSUME TypeInv, HistoryOK', NEW c \in Clients, Return(c),
           row' \in [Ids -> {"absent", "live", "deleted"}],
           user' \in [Ids -> Columns]
    PROVE  TypeInv'
<1>1. /\ pc' = [pc EXCEPT ![c] = "idle"]
      /\ call' = [call EXCEPT ![c] = NoCall]
      /\ copy' = [copy EXCEPT ![c] = First]
      /\ commands' = commands
  BY DEF Return
<1>2. commands' \in BOOLEAN
  BY <1>1 DEF TypeInv, TypeOK
<1>3. TypeOK'
  BY <1>1, <1>2, UsersAssumption DEF TypeInv, TypeOK, HistoryOK
<1>4. ClientsAreCalled'
  BY <1>1 DEF TypeInv, TypeOK, ClientsAreCalled
<1> QED
  BY <1>3, <1>4 DEF TypeInv

\* The copy a call reads is a user's columns.
LEMMA GetUserByIDTypes ==
    ASSUME TypeInv, HistoryOK', NEW c \in Clients, GetUserByID(c)
    PROVE  TypeInv'
<1>1. /\ pc[c] = "called"
      /\ call[c].op # "create"
      /\ pc' = [pc EXCEPT ![c] = "read"]
      /\ copy' = [copy EXCEPT ![c] = user[call[c].id]]
      /\ row' = row /\ user' = user /\ call' = call /\ commands' = commands
  BY DEF GetUserByID
<1>2. call[c] \in Calls /\ call[c].id \in Ids
  BY <1>1, CallFields DEF TypeInv, ClientsAreCalled
<1>3. commands' \in BOOLEAN
  BY <1>1 DEF TypeInv, TypeOK
<1>4. TypeOK'
  BY <1>1, <1>2, <1>3 DEF TypeInv, TypeOK, HistoryOK
<1>5. ClientsAreCalled'
  BY <1>1, <1>2 DEF TypeInv, TypeOK, ClientsAreCalled
<1> QED
  BY <1>4, <1>5 DEF TypeInv

\* The columns an edit or a change of password saves, and to which row.
LEMMA SavedColumns ==
    ASSUME TypeInv, NEW c \in Clients, UpdateUser(c) \/ UpdatePassword(c)
    PROVE  \E u \in Columns :
             /\ call[c].id \in Ids
             /\ row' = [row EXCEPT ![call[c].id] = "live"]
             /\ user' = [user EXCEPT ![call[c].id] = u]
             /\ \/ /\ call[c].op = "update"
                   /\ u.name = call[c].name
                   /\ u.level = call[c].level
                   /\ u.password = copy[c].password
                \/ /\ call[c].op = "password"
                   /\ u.name = copy[c].name
                   /\ u.level = copy[c].level
                   /\ u.password = call[c].password
<1>1. pc[c] = "read" /\ call[c] \in Calls
  BY DEF UpdateUser, UpdatePassword, TypeInv, ClientsAreCalled
<1>2. copy[c] \in Columns
  BY DEF TypeInv, TypeOK
<1>3. CASE UpdateUser(c)
  <2> DEFINE u == [copy[c] EXCEPT !.name = call[c].name, !.level = call[c].level]
  <2>1. /\ call[c].op = "update"
        /\ row' = [row EXCEPT ![call[c].id] = "live"]
        /\ user' = [user EXCEPT ![call[c].id] = u]
    BY <1>3 DEF UpdateUser, Save
  <2>2. call[c].id \in Ids /\ call[c].name \in Names /\ call[c].level \in Levels
    BY <1>1, <2>1, CallFields
  <2>3. /\ u \in Columns
        /\ u.name = call[c].name /\ u.level = call[c].level /\ u.password = copy[c].password
    BY <1>2, <2>2 DEF Columns
  <2> QED
    BY <2>1, <2>2, <2>3
<1>4. CASE UpdatePassword(c)
  <2> DEFINE u == [copy[c] EXCEPT !.password = call[c].password]
  <2>1. /\ call[c].op = "password"
        /\ row' = [row EXCEPT ![call[c].id] = "live"]
        /\ user' = [user EXCEPT ![call[c].id] = u]
    BY <1>4 DEF UpdatePassword, Save
  <2>2. call[c].id \in Ids /\ call[c].password \in Passwords
    BY <1>1, <2>1, CallFields
  <2>3. /\ u \in Columns
        /\ u.name = copy[c].name /\ u.level = copy[c].level /\ u.password = call[c].password
    BY <1>2, <2>2 DEF Columns
  <2> QED
    BY <2>1, <2>2, <2>3
<1> QED
  BY <1>3, <1>4

\* The row and the columns that CreateUser writes.
LEMMA CreatedColumns ==
    ASSUME TypeInv, NEW c \in Clients, CreateUser(c)
    PROVE  /\ call[c].user \in Columns
           /\ \E i \in Ids : /\ row[i] = "absent"
                             /\ row' = [row EXCEPT ![i] = "live"]
                             /\ user' = [user EXCEPT ![i] = call[c].user]
<1>1. pc[c] = "called" /\ call[c].op = "create" /\ call[c] \in Calls
  BY DEF CreateUser, TypeInv, ClientsAreCalled
<1>2. call[c].user \in Columns
  BY <1>1, CallFields
<1> QED
  BY <1>2 DEF CreateUser

\* A call that writes, or fails, was under way and returns.
LEMMA WritesReturn ==
    ASSUME NEW c \in Clients, Write(c)
    PROVE  pc[c] # "idle" /\ Return(c)
BY DEF Write, CreateUser, UpdateUser, UpdatePassword, DeleteUser, Fail

\* What a call that returns has written is well-typed.
LEMMA WritesTypes ==
    ASSUME TypeInv, HistoryOK', NEW c \in Clients, Write(c)
    PROVE  TypeInv'
<1>1. Return(c)
  BY WritesReturn
<1> USE DEF TypeInv, TypeOK
<1>2. CASE CreateUser(c)
  BY <1>1, <1>2, CreatedColumns, ReturnTypes
<1>3. CASE UpdateUser(c) \/ UpdatePassword(c)
  BY <1>1, <1>3, SavedColumns, ReturnTypes
<1>4. CASE DeleteUser(c)
  <2>1. user' = user /\ row' = [row EXCEPT ![call[c].id] = IF @ = "live" THEN "deleted" ELSE @]
    BY <1>4 DEF DeleteUser
  <2>2. row' \in [Ids -> {"absent", "live", "deleted"}]
    BY <2>1
  <2> QED
    BY <1>1, <2>1, <2>2, ReturnTypes
<1>5. CASE Fail(c)
  BY <1>1, <1>5, ReturnTypes DEF Fail
<1> QED
  BY <1>2, <1>3, <1>4, <1>5 DEF Write

\* The history names users and a truth value.
LEMMA HistoryTypes ==
    ASSUME TypeInv, [Next]_vars
    PROVE  HistoryOK'
<1>0. HistoryOK
  BY DEF TypeInv, TypeOK, HistoryOK
<1>1. CASE UNCHANGED vars
  BY <1>0, <1>1 DEF vars, history, HistoryOK
<1>2. CASE Next
  <2>1. crossed' \subseteq Ids
    BY <1>0, <1>2 DEF Next, HistoryOK
  <2>2. raced' \in BOOLEAN
    BY <1>2, Zenon DEF Next
  <2> QED
    BY <2>1, <2>2 DEF HistoryOK
<1> QED
  BY <1>1, <1>2

\* Every step keeps the types.
LEMMA NextTypes == TypeInv /\ [Next]_vars => TypeInv'
<1> SUFFICES ASSUME TypeInv, [Next]_vars PROVE TypeInv'
  OBVIOUS
<1>0. HistoryOK'
  BY HistoryTypes
<1>1. CASE UNCHANGED vars
  BY <1>1 DEF vars, history, TypeInv, TypeOK, ClientsAreCalled
<1>2. ASSUME NEW c \in Clients, Request(c) PROVE TypeInv'
  <2>1. commands' \in BOOLEAN
    BY <1>2, RequestInvokes DEF TypeInv, TypeOK
  <2> QED
    BY <1>0, <1>2, <2>1, RequestInvokes, InvokeTypes
<1>3. ASSUME NEW c \in Clients, Command(c) PROVE TypeInv'
  <2>1. commands' \in BOOLEAN
    BY <1>3, CommandInvokes
  <2> QED
    BY <1>0, <1>3, <2>1, CommandInvokes, InvokeTypes
<1> QED
  BY <1>0, <1>1, <1>2, <1>3, GetUserByIDTypes, WritesTypes DEF Next, Step, Write

\* Whatever requests and commands run together, rows, calls in progress and
\* copies stay well-formed.
THEOREM TypeCorrect == Spec => []TypeOK
<1>1. Init => TypeInv
  BY InitTypes
<1>2. TypeInv /\ [Next]_vars => TypeInv'
  BY NextTypes
<1>3. TypeInv => TypeOK
  BY DEF TypeInv
<1> QED
  BY <1>1, <1>2, <1>3, PTL DEF Spec

-----------------------------------------------------------------------------
(* A row that nobody else works on is as it was read. *)

\* The call that ends has written at most to the row it had read, or a new one.
LEMMA WritesTouchOwnRow ==
    ASSUME TypeInv, NEW c \in Clients, Write(c),
           NEW i \in Ids, row[i] # "absent", ~(pc[c] = "read" /\ call[c].id = i)
    PROVE  row'[i] = row[i] /\ user'[i] = user[i]
<1>0. row \in [Ids -> {"absent", "live", "deleted"}] /\ user \in [Ids -> Columns]
  BY DEF TypeInv, TypeOK
<1>1. CASE CreateUser(c)
  BY <1>0, <1>1, CreatedColumns
<1>2. CASE UpdateUser(c) \/ UpdatePassword(c)
  <2>1. pc[c] = "read"
    BY <1>2 DEF UpdateUser, UpdatePassword
  <2>2. PICK u \in Columns : /\ call[c].id \in Ids
                             /\ row' = [row EXCEPT ![call[c].id] = "live"]
                             /\ user' = [user EXCEPT ![call[c].id] = u]
    BY <1>2, SavedColumns
  <2> QED
    BY <1>0, <2>1, <2>2
<1>3. CASE DeleteUser(c)
  BY <1>0, <1>3 DEF DeleteUser
<1>4. CASE Fail(c)
  BY <1>4 DEF Fail
<1> QED
  BY <1>1, <1>2, <1>3, <1>4 DEF Write

\* A call begins without a copy, the read makes a current one, and a write ends
\* the only call that has a copy of that row, if it was the only one ever since.
LEMMA StepKeepsCopies ==
    ASSUME TypeInv, CopyIsCurrent, CrossingsAreRecorded, Next
    PROVE  CopyIsCurrent'
<1>0. /\ pc \in [Clients -> {"idle", "called", "read"}]
      /\ copy \in [Clients -> Columns]
      /\ call \in [Clients -> Calls \cup {NoCall}]
  BY DEF TypeInv, TypeOK
<1>h. crossed \subseteq crossed'
  BY DEF Next
<1>1. ASSUME NEW c \in Clients, Request(c) \/ Command(c) PROVE CopyIsCurrent'
  <2>1. PICK k \in Calls : Invoke(c, k)
    BY <1>1, RequestInvokes, CommandInvokes
  <2> QED
    BY <1>0, <1>h, <2>1 DEF Invoke, CopyIsCurrent
<1>2. ASSUME NEW c \in Clients, GetUserByID(c) PROVE CopyIsCurrent'
  BY <1>0, <1>h, <1>2 DEF GetUserByID, Found, CopyIsCurrent
<1>3. ASSUME NEW c \in Clients, Write(c) PROVE CopyIsCurrent'
  <2>1. /\ pc' = [pc EXCEPT ![c] = "idle"] /\ call' = [call EXCEPT ![c] = NoCall]
        /\ copy' = [copy EXCEPT ![c] = First]
    BY <1>3, WritesReturn DEF Return
  <2> SUFFICES ASSUME NEW d \in Clients, pc'[d] = "read", call'[d].id \notin crossed'
               PROVE  row'[call'[d].id] = "live" /\ copy'[d] = user'[call'[d].id]
    BY DEF CopyIsCurrent
  <2>2. d # c /\ pc[d] = "read" /\ call'[d] = call[d] /\ copy'[d] = copy[d]
        /\ call[d].id \notin crossed
    BY <1>0, <1>h, <2>1
  <2>3. row[call[d].id] = "live" /\ copy[d] = user[call[d].id]
    BY <2>2 DEF CopyIsCurrent
  <2>4. call[d].id \in Ids
    BY <2>2, CallFields DEF TypeInv, ClientsAreCalled
  <2>5. ~(pc[c] = "read" /\ call[c].id = call[d].id)
    BY <2>2 DEF CrossingsAreRecorded
  <2> QED
    BY <1>3, <2>2, <2>3, <2>4, <2>5, WritesTouchOwnRow
<1> QED
  BY <1>1, <1>2, <1>3 DEF Next, Step, Write

\* A second call that reads a user is recorded with that step.
LEMMA StepRecordsCrossings ==
    ASSUME TypeInv', Next
    PROVE  CrossingsAreRecorded'
<1> SUFFICES ASSUME NEW c \in Clients, NEW d \in Clients,
                    pc'[c] = "read", pc'[d] = "read", call'[c].id = call'[d].id,
                    call'[c].id \notin crossed', c # d
             PROVE  FALSE
  BY DEF CrossingsAreRecorded
<1>1. call'[c] \in Calls /\ call'[c].op # "create"
  BY DEF TypeInv, ClientsAreCalled
<1>2. PICK i \in Ids : i = call'[c].id
  BY <1>1, CallFields
<1>3. Crossing(i)'
  BY <1>2 DEF Crossing
<1>4. i \in crossed'
  BY <1>3 DEF Next
<1> QED
  BY <1>2, <1>4

\* The invariant of the copies.
LEMMA CopyInvariance ==
    /\ Init => CopyInv
    /\ CopyInv /\ [Next]_vars => CopyInv'
<1>1. Init => CopyInv
  BY InitTypes DEF Init, CopyInv, CopyIsCurrent, CrossingsAreRecorded
<1>2. ASSUME CopyInv, UNCHANGED vars PROVE CopyInv'
  <2>1. TypeInv'
    BY <1>2, NextTypes DEF CopyInv
  <2> QED
    BY <1>2, <2>1 DEF vars, history, CopyInv, CopyIsCurrent, CrossingsAreRecorded
<1>3. ASSUME CopyInv, Next PROVE CopyInv'
  BY <1>3, NextTypes, StepKeepsCopies, StepRecordsCrossings DEF CopyInv
<1> QED
  BY <1>1, <1>2, <1>3

-----------------------------------------------------------------------------
(* Calls that have been kept apart. *)

\* What a request asks for spares an administrator: the acting one if it takes
\* something away, and then nothing else under way does; else whoever there was.
LEMMA InvokeSparesAdmin ==
    ASSUME CopyInv, SafeAdmin, ~Racing', NEW c \in Clients, Request(c) \/ Command(c)
    PROVE  SafeAdmin'
<1>0. /\ pc \in [Clients -> {"idle", "called", "read"}]
      /\ call \in [Clients -> Calls \cup {NoCall}]
  BY DEF CopyInv, TypeInv, TypeOK
<1>1. PICK k \in Calls :
        /\ Invoke(c, k)
        /\ \/ commands' = TRUE
           \/ /\ commands' = commands
              /\ \/ k.op = "password"
                 \/ \E a \in Ids : Authorised(a, Admin) /\ ~Harms(k, a)
  BY RequestInvokes, CommandInvokes
<1>2. /\ pc' = [pc EXCEPT ![c] = "called"]
      /\ call' = [call EXCEPT ![c] = k]
      /\ row' = row /\ user' = user
  BY <1>1 DEF Invoke
<1>3. \A a \in Ids : Authorised(a, Admin) => Authorised(a, Admin)'
  BY <1>2 DEF Authorised
<1>4. \A d \in Clients \ {c} : pc'[d] = pc[d] /\ call'[d] = call[d]
  BY <1>2
<1>5. pc'[c] = "called" /\ call'[c] = k
  BY <1>0, <1>2
<1>6. CASE commands' = TRUE
  BY <1>6 DEF SafeAdmin
<1>7. CASE commands' = commands /\ ~commands /\ Takes(k)
  <2>1. PICK a \in Ids : Authorised(a, Admin) /\ ~Harms(k, a)
    BY <1>1, <1>7 DEF Takes
  <2>2. ASSUME NEW d \in Clients, pc'[d] # "idle" PROVE ~Harms(call'[d], a)
    <3>1. CASE d = c
      BY <2>1, <3>1, <1>5
    <3>2. CASE d # c
      <4>1. ~Takes(call'[d])
        BY <2>2, <3>2, <1>5, <1>7 DEF Racing
      <4> QED
        BY <4>1 DEF Takes, Harms
    <3> QED
      BY <3>1, <3>2
  <2> QED
    BY <2>1, <2>2, <1>3 DEF SafeAdmin
<1>8. CASE commands' = commands /\ ~commands /\ ~Takes(k)
  <2>1. PICK a \in Ids : /\ Authorised(a, Admin)
                         /\ \A d \in Clients : pc[d] # "idle" => ~Harms(call[d], a)
    BY <1>8 DEF SafeAdmin
  <2>2. ~Harms(k, a)
    BY <1>8 DEF Takes, Harms
  <2>3. \A d \in Clients : pc'[d] # "idle" => ~Harms(call'[d], a)
    BY <2>1, <2>2, <1>4, <1>5
  <2> QED
    BY <2>1, <2>3, <1>3 DEF SafeAdmin
<1> QED
  BY <1>1, <1>6, <1>7, <1>8 DEF SafeAdmin

\* The administrator whom the call spares keeps the role.
LEMMA WritesSpareAdmin ==
    ASSUME CopyInv, crossed = {}, NEW c \in Clients, Write(c),
           NEW a \in Ids, Authorised(a, Admin), ~Harms(call[c], a)
    PROVE  Authorised(a, Admin)'
<1>0. row \in [Ids -> {"absent", "live", "deleted"}] /\ user \in [Ids -> Columns]
  BY DEF CopyInv, TypeInv, TypeOK
<1>1. row[a] = "live" /\ user[a].level >= Admin
  BY DEF Authorised
<1>2. CASE CreateUser(c)
  <2>1. PICK i \in Ids : /\ row[i] = "absent"
                         /\ row' = [row EXCEPT ![i] = "live"]
                         /\ user' = [user EXCEPT ![i] = call[c].user]
    BY <1>2, CreatedColumns DEF CopyInv
  <2> QED
    BY <1>0, <1>1, <2>1 DEF Authorised
<1>3. CASE UpdateUser(c) \/ UpdatePassword(c)
  <2>1. PICK u \in Columns :
             /\ call[c].id \in Ids
             /\ row' = [row EXCEPT ![call[c].id] = "live"]
             /\ user' = [user EXCEPT ![call[c].id] = u]
             /\ \/ call[c].op = "update" /\ u.level = call[c].level
                \/ call[c].op = "password" /\ u.level = copy[c].level
    BY <1>3, SavedColumns DEF CopyInv
  <2>2. CASE call[c].id # a
    BY <1>0, <1>1, <2>1, <2>2 DEF Authorised
  <2>3. CASE call[c].id = a
    <3>1. pc[c] = "read" /\ call[c] \in Calls
      BY <1>3 DEF UpdateUser, UpdatePassword, CopyInv, TypeInv, ClientsAreCalled
    <3>2. u.level >= Admin
      <4>1. CASE call[c].op = "update" /\ u.level = call[c].level
        <5>1. call[c].level \in 1 .. 3
          BY <4>1, <3>1, CallFields, UsersAssumption DEF ReadOnly, Admin
        <5> QED
          BY <4>1, <5>1, <2>3 DEF Harms, Admin
      <4>2. CASE u.level = copy[c].level
        BY <4>2, <3>1, <2>3, <1>1 DEF CopyInv, CopyIsCurrent
      <4> QED
        BY <4>1, <4>2, <2>1
    <3> QED
      BY <1>0, <2>1, <2>3, <3>2 DEF Authorised
  <2> QED
    BY <2>2, <2>3
<1>4. CASE DeleteUser(c)
  <2>1. /\ call[c].op = "delete" /\ user' = user
        /\ row' = [row EXCEPT ![call[c].id] = IF @ = "live" THEN "deleted" ELSE @]
    BY <1>4 DEF DeleteUser
  <2>2. call[c].id # a
    BY <2>1 DEF Harms
  <2> QED
    BY <1>0, <1>1, <2>1, <2>2 DEF Authorised
<1>5. CASE Fail(c)
  BY <1>1, <1>5 DEF Fail, Authorised
<1> QED
  BY <1>2, <1>3, <1>4, <1>5 DEF Write

\* The administrator whom everything under way spares stays one at every step.
LEMMA StepSparesAdmin ==
    ASSUME CopyInv, crossed = {}, SafeAdmin, ~Racing', Step
    PROVE  SafeAdmin'
<1>0. /\ pc \in [Clients -> {"idle", "called", "read"}]
      /\ call \in [Clients -> Calls \cup {NoCall}]
  BY DEF CopyInv, TypeInv, TypeOK
<1>1. ASSUME NEW c \in Clients, GetUserByID(c) PROVE SafeAdmin'
  <2>1. /\ pc[c] = "called" /\ pc' = [pc EXCEPT ![c] = "read"]
        /\ row' = row /\ user' = user /\ call' = call /\ commands' = commands
    BY <1>1 DEF GetUserByID
  <2>2. \A d \in Clients : pc'[d] # "idle" => pc[d] # "idle"
    BY <1>0, <2>1
  <2> QED
    BY <2>1, <2>2 DEF SafeAdmin, Authorised, Harms
<1>2. ASSUME NEW c \in Clients, Write(c) PROVE SafeAdmin'
  <2>1. /\ pc[c] # "idle" /\ pc' = [pc EXCEPT ![c] = "idle"]
        /\ call' = [call EXCEPT ![c] = NoCall] /\ commands' = commands
    BY <1>2, WritesReturn DEF Return
  <2>2. \A d \in Clients : pc'[d] # "idle" => pc[d] # "idle" /\ call'[d] = call[d]
    BY <1>0, <2>1
  <2>3. ASSUME NEW a \in Ids, Authorised(a, Admin), ~Harms(call[c], a)
        PROVE  Authorised(a, Admin)'
    BY <1>2, <2>3, WritesSpareAdmin
  <2> QED
    BY <2>1, <2>2, <2>3 DEF SafeAdmin
<1> QED
  BY <1>1, <1>2, InvokeSparesAdmin DEF Step, Write

\* AdminInv is an invariant: calls kept apart after a step were so before it.
LEMMA AdminInvariance == Spec => []AdminInv
<1>1. Init => AdminInv
  <2> SUFFICES ASSUME Init PROVE AdminInv
    OBVIOUS
  <2>1. 1 \in Ids /\ Authorised(1, Admin)
    BY UsersAssumption DEF Init, Ids, Authorised, Admin
  <2>2. SafeAdmin
    BY <2>1 DEF Init, SafeAdmin
  <2> QED
    BY <2>2, CopyInvariance DEF AdminInv
<1>2. AdminInv /\ [Next]_vars => AdminInv'
  <2>1. ASSUME AdminInv, UNCHANGED vars PROVE KeptApart' => SafeAdmin'
    BY <2>1 DEF vars, history, KeptApart, AdminInv, SafeAdmin, Authorised, Harms
  <2>2. ASSUME AdminInv, Next, KeptApart' PROVE SafeAdmin'
    <3>1. KeptApart /\ ~Racing' /\ Step
      BY <2>2 DEF Next, KeptApart
    <3> QED
      BY <2>2, <3>1, StepSparesAdmin DEF AdminInv, KeptApart
  <2> QED
    BY <2>1, <2>2, CopyInvariance DEF AdminInv
<1> QED
  BY <1>1, <1>2, PTL DEF Spec

\* Web requests never lock everyone out as long as no two that delete or demote
\* have overlapped, and no two on the same user: the check that one cannot delete
\* or demote oneself is then enough, because the acting administrator stays one.
THEOREM AnAdminRemains == Spec => []AdminRemains
<1>1. AdminInv => AdminRemains
  BY DEF AdminInv, KeptApart, SafeAdmin, AdminRemains
<1> QED
  BY <1>1, AdminInvariance, PTL

\* What a step of a client does to the rows and columns of existing users
\* on whom no calls have overlapped.
LEMMA StepOnUsers ==
    ASSUME CopyInv, [Next]_vars
    PROVE  /\ \A i \in Ids \ crossed : row[i] = "deleted" => row'[i] = "deleted"
           /\ \A i \in Ids \ crossed : row[i] = "live" =>
                /\ user'[i].name # user[i].name \/ user'[i].level # user[i].level =>
                    \E c \in Clients : /\ Ends(c, i, "update")
                                       /\ user'[i].name = call[c].name
                                       /\ user'[i].level = call[c].level
                /\ user'[i].password # user[i].password =>
                    \E c \in Clients : /\ Ends(c, i, "password")
                                       /\ user'[i].password = call[c].password
<1>0. row \in [Ids -> {"absent", "live", "deleted"}] /\ user \in [Ids -> Columns]
      /\ pc \in [Clients -> {"idle", "called", "read"}]
  BY DEF CopyInv, TypeInv, TypeOK
<1>1. CASE UNCHANGED <<row, user>>
  BY <1>1
<1>2. ASSUME NEW c \in Clients, CreateUser(c) PROVE \E i \in Ids :
        /\ row[i] = "absent"
        /\ row' = [row EXCEPT ![i] = "live"]
        /\ user' = [user EXCEPT ![i] = call[c].user]
  BY <1>2, CreatedColumns DEF CopyInv
<1>3. CASE \E c \in Clients : CreateUser(c)
  BY <1>0, <1>2, <1>3
<1>4. ASSUME NEW c \in Clients, DeleteUser(c)
      PROVE  /\ user' = user
             /\ \A i \in Ids : row[i] = "deleted" => row'[i] = "deleted"
  BY <1>0, <1>4 DEF DeleteUser
<1>5. CASE \E c \in Clients : DeleteUser(c)
  BY <1>4, <1>5
<1>6. CASE \E c \in Clients : UpdateUser(c) \/ UpdatePassword(c)
  <2>1. PICK c \in Clients : UpdateUser(c) \/ UpdatePassword(c)
    BY <1>6
  <2>2. PICK u \in Columns :
             /\ call[c].id \in Ids
             /\ row' = [row EXCEPT ![call[c].id] = "live"]
             /\ user' = [user EXCEPT ![call[c].id] = u]
             /\ \/ /\ call[c].op = "update"
                   /\ u.name = call[c].name
                   /\ u.level = call[c].level
                   /\ u.password = copy[c].password
                \/ /\ call[c].op = "password"
                   /\ u.name = copy[c].name
                   /\ u.level = copy[c].level
                   /\ u.password = call[c].password
    BY <2>1, SavedColumns DEF CopyInv
  <2>3. pc[c] = "read" /\ pc'[c] = "idle"
    BY <1>0, <2>1 DEF UpdateUser, UpdatePassword, Return
  <2>4. call[c].id \notin crossed =>
          row[call[c].id] = "live" /\ copy[c] = user[call[c].id]
    BY <2>3 DEF CopyInv, CopyIsCurrent
  <2> QED
    BY <1>0, <2>2, <2>3, <2>4 DEF Ends
<1>7. \/ UNCHANGED <<row, user>>
      \/ \E c \in Clients :
          CreateUser(c) \/ DeleteUser(c) \/ UpdateUser(c) \/ UpdatePassword(c)
  <2>1. ASSUME NEW c \in Clients, Request(c) \/ Command(c) PROVE UNCHANGED <<row, user>>
    BY <2>1, RequestInvokes, CommandInvokes DEF Invoke
  <2>2. ASSUME NEW c \in Clients, GetUserByID(c) \/ Fail(c) PROVE UNCHANGED <<row, user>>
    BY <2>2 DEF GetUserByID, Fail
  <2> QED
    BY <2>1, <2>2 DEF Next, Step, vars
<1> QED
  BY <1>1, <1>3, <1>5, <1>6, <1>7

\* CopyInv is an invariant.
LEMMA CopiesAreCurrent == Spec => []CopyInv
BY CopyInvariance, PTL DEF Spec

\* The upsert of gorm's Save never brings a deleted user back unless calls on the
\* user have overlapped: the row it saves was read live and still is.
THEOREM DeletionIsFinal ==
    Spec => [][\A i \in Ids \ crossed : row[i] = "deleted" => row'[i] = "deleted"]_vars
<1>1. CopyInv /\ [Next]_vars =>
        [\A i \in Ids \ crossed : row[i] = "deleted" => row'[i] = "deleted"]_vars
  BY StepOnUsers
<1> QED
  BY <1>1, CopiesAreCurrent, PTL DEF Spec

\* Saving every column changes the edited ones only: the other ones are those
\* of the row as it is, whatever happens to other users meanwhile.
THEOREM EditsAreKept == Spec => EditsStick
<1> DEFINE Kept == \A i \in Ids \ crossed : row[i] = "live" =>
        /\ user'[i].name # user[i].name \/ user'[i].level # user[i].level =>
            \E c \in Clients : /\ Ends(c, i, "update")
                               /\ user'[i].name = call[c].name
                               /\ user'[i].level = call[c].level
        /\ user'[i].password # user[i].password =>
            \E c \in Clients : /\ Ends(c, i, "password")
                               /\ user'[i].password = call[c].password
<1>1. CopyInv /\ [Next]_vars => [Kept]_vars
  BY StepOnUsers
<1>2. Spec => [][Kept]_vars
  BY <1>1, CopiesAreCurrent, PTL DEF Spec
<1> QED
  BY <1>2 DEF EditsStick

-----------------------------------------------------------------------------
(* Deletes, whatever overlaps with them. *)

\* No step leads back from a delete that has settled: reads do not find the
\* row, creation takes a new one, and no save on it is under way.
LEMMA GoneStaysGone ==
    ASSUME TypeInv, Next, NEW i \in Ids, Gone(i)
    PROVE  Gone(i)'
<1>0. /\ pc \in [Clients -> {"idle", "called", "read"}]
      /\ call \in [Clients -> Calls \cup {NoCall}]
      /\ row \in [Ids -> {"absent", "live", "deleted"}]
  BY DEF TypeInv, TypeOK
<1>1. ASSUME NEW c \in Clients, Request(c) \/ Command(c) PROVE Gone(i)'
  <2>1. PICK k \in Calls : Invoke(c, k)
    BY <1>1, RequestInvokes, CommandInvokes
  <2> QED
    BY <1>0, <2>1 DEF Invoke, Gone
<1>2. ASSUME NEW c \in Clients, GetUserByID(c) PROVE Gone(i)'
  BY <1>0, <1>2 DEF GetUserByID, Found, Gone
<1>3. ASSUME NEW c \in Clients, Write(c) PROVE Gone(i)'
  <2>1. /\ pc' = [pc EXCEPT ![c] = "idle"] /\ call' = [call EXCEPT ![c] = NoCall]
    BY <1>3, WritesReturn DEF Return
  <2>2. row'[i] = "deleted"
    <3>1. CASE pc[c] = "read" /\ call[c].id = i
      <4>1. call[c].op = "delete"
        BY <3>1 DEF Gone
      <4>2. DeleteUser(c) \/ Fail(c)
        BY <1>3, <3>1, <4>1 DEF Write, CreateUser, UpdateUser, UpdatePassword
      <4> QED
        BY <1>0, <4>2 DEF DeleteUser, Fail, Gone
    <3>2. CASE ~(pc[c] = "read" /\ call[c].id = i)
      BY <1>3, <3>2, WritesTouchOwnRow DEF Gone
    <3> QED
      BY <3>1, <3>2
  <2> QED
    BY <1>0, <2>1, <2>2 DEF Gone
<1> QED
  BY <1>1, <1>2, <1>3 DEF Next, Step, Write

\* With any number of requests and commands at once: the saves that were under
\* way when a user was deleted are all that can revive the user.
THEOREM DeletionsSettle == Spec => DeletionSettles
<1>1. TypeInv /\ [Next]_vars => [\A i \in Ids : Gone(i) => Gone(i)']_vars
  BY GoneStaysGone
<1> QED
  BY <1>1, InitTypes, NextTypes, PTL DEF Spec, DeletionSettles
=============================================================================
