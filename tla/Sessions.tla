------------------------------ MODULE Sessions ------------------------------
(***************************************************************************)
(* Sessions of the web server: pkg/auth/sessions with the login, logout    *)
(* and middleware of pkg/auth that use them, and the housekeeping task.    *)
(*                                                                         *)
(* A request is authenticated in two calls to the database (GetSession,    *)
(* then UpdateSessionLastSeen), and the user it acts for is the one that   *)
(* was read with the session.  Between the calls, other requests,          *)
(* the housekeeping and the administration of users may run.               *)
(*                                                                         *)
(* Ages are time differences to now.  They stop counting one unit after    *)
(* the largest value that is compared with.                                *)
(***************************************************************************)
EXTENDS Naturals

CONSTANTS
    Ids,                    \* session ids, random UUIDs: never used twice
    Users,
    Requests,               \* requests that may be in progress together
    None,
    SessionExpiry,          \* sessionExpiry
    SessionLastSeenExpiry,  \* sessionLastSeenExpiry
    TimeBuffer,             \* timeBuffer of DeleteExpiredSessions
    MaxLag                  \* longest time between GetSession and the update after it

ASSUME SessionsAssumption ==
    /\ SessionExpiry \in Nat
    /\ SessionLastSeenExpiry \in Nat
    /\ SessionLastSeenExpiry <= SessionExpiry
    /\ TimeBuffer \in Nat
    /\ MaxLag \in Nat
    /\ MaxLag <= TimeBuffer
    /\ None \notin Ids \cup Users

\* AccessLevel; 0 is the zero User that Preload leaves for a deleted user.
Levels == 0 .. 3

MaxAge == SessionExpiry + TimeBuffer + 1

VARIABLES
    row,            \* "absent", "live" or "deleted": the row of the session
    userOf,         \* column user_id
    sinceStart,     \* age of start_time
    sinceSeen,      \* age of last_seen_time
    level,          \* access level of the user's row, 0 without a live row
    pc,             \* where the request is
    session,        \* the session it was sent with
    user,           \* the user who logs in
    userLevel,      \* AccessLevel of the user in the request's context
    lag,            \* time since the request read its session
    loggedOut       \* history: sessions that were ended by a logout

table == <<row, userOf, sinceStart, sinceSeen>>
requests == <<pc, session, user, userLevel, lag>>
vars == <<table, level, requests, loggedOut>>

TypeOK ==
    /\ row \in [Ids -> {"absent", "live", "deleted"}]
    /\ userOf \in [Ids -> Users \cup {None}]
    /\ sinceStart \in [Ids -> 0 .. MaxAge]
    /\ sinceSeen \in [Ids -> 0 .. MaxAge]
    /\ level \in [Users -> Levels]
    /\ pc \in [Requests -> {"idle", "login", "authenticated", "authorising", "handling"}]
    /\ session \in [Requests -> Ids \cup {None}]
    /\ user \in [Requests -> Users \cup {None}]
    /\ userLevel \in [Requests -> Levels]
    /\ lag \in [Requests -> 0 .. MaxLag]
    /\ loggedOut \subseteq Ids

Init ==
    /\ row = [s \in Ids |-> "absent"]
    /\ userOf = [s \in Ids |-> None]
    /\ sinceStart = [s \in Ids |-> 0]
    /\ sinceSeen = [s \in Ids |-> 0]
    /\ level = [u \in Users |-> 3]
    /\ pc = [r \in Requests |-> "idle"]
    /\ session = [r \in Requests |-> None]
    /\ user = [r \in Requests |-> None]
    /\ userLevel = [r \in Requests |-> 0]
    /\ lag = [r \in Requests |-> 0]
    /\ loggedOut = {}

-----------------------------------------------------------------------------
(* Login and logout. *)

\* checkUsernameAndPassword, with the right password of a user who exists.
CheckPassword(r, u) ==
    /\ pc[r] = "idle"
    /\ level[u] > 0
    /\ pc' = [pc EXCEPT ![r] = "login"]
    /\ user' = [user EXCEPT ![r] = u]
    /\ UNCHANGED <<table, level, session, userLevel, lag, loggedOut>>

CreateSession(r, s) ==
    /\ pc[r] = "login"
    /\ row[s] = "absent"
    /\ row' = [row EXCEPT ![s] = "live"]
    /\ userOf' = [userOf EXCEPT ![s] = user[r]]
    /\ sinceStart' = [sinceStart EXCEPT ![s] = 0]
    /\ sinceSeen' = [sinceSeen EXCEPT ![s] = 0]
    /\ pc' = [pc EXCEPT ![r] = "idle"]
    /\ user' = [user EXCEPT ![r] = None]
    /\ UNCHANGED <<level, session, userLevel, lag, loggedOut>>

\* NewLogoutHandler: the route skips authentication, the row is soft-deleted.
DeleteSession(s) ==
    /\ row[s] = "live"
    /\ row' = [row EXCEPT ![s] = "deleted"]
    /\ loggedOut' = loggedOut \cup {s}
    /\ UNCHANGED <<userOf, sinceStart, sinceSeen, level, requests>>

-----------------------------------------------------------------------------
(* AuthenticationMiddleware and AccessControlMiddleware. *)

\* Mutant of Usable: the time since the login is not looked at.
UsableWhileSeen(s) == row[s] = "live" /\ sinceSeen[s] <= SessionLastSeenExpiry

\* What GetSessionByID accepts.
Usable(s) ==
    /\ row[s] = "live"
    /\ sinceStart[s] <= SessionExpiry
    /\ sinceSeen[s] <= SessionLastSeenExpiry

\* GetSession; a session it refuses ends the request with no effect.
GetSession(r, s) ==
    /\ pc[r] = "idle"
    /\ Usable(s)
    /\ pc' = [pc EXCEPT ![r] = "authenticated"]
    /\ session' = [session EXCEPT ![r] = s]
    /\ userLevel' = [userLevel EXCEPT ![r] = level[userOf[s]]]
    /\ UNCHANGED <<table, level, user, lag, loggedOut>>

\* Mutant of UpdateSessionLastSeen: the copy of the session is written back
\* with Save, which inserts it when no live row has its id.
SaveSession(r) ==
    /\ pc[r] = "authenticated"
    /\ row' = [row EXCEPT ![session[r]] = "live"]
    /\ sinceSeen' = [sinceSeen EXCEPT ![session[r]] = 0]
    /\ pc' = [pc EXCEPT ![r] = "authorising"]
    /\ lag' = [lag EXCEPT ![r] = 0]
    /\ UNCHANGED <<userOf, sinceStart, level, session, user, userLevel, loggedOut>>

\* An UPDATE of one column, of the live row with this id if there is one.
UpdateSessionLastSeen(r) ==
    /\ pc[r] = "authenticated"
    /\ sinceSeen' = IF row[session[r]] = "live"
                    THEN [sinceSeen EXCEPT ![session[r]] = 0]
                    ELSE sinceSeen
    /\ pc' = [pc EXCEPT ![r] = "authorising"]
    /\ lag' = [lag EXCEPT ![r] = 0]
    /\ UNCHANGED <<row, userOf, sinceStart, level, session, user, userLevel, loggedOut>>

\* It fails: logged, the request goes on.
UpdateFails(r) ==
    /\ pc[r] = "authenticated"
    /\ pc' = [pc EXCEPT ![r] = "authorising"]
    /\ lag' = [lag EXCEPT ![r] = 0]
    /\ UNCHANGED <<table, level, session, user, userLevel, loggedOut>>

\* The request leaves the server's hands.
Leave(r) ==
    /\ pc' = [pc EXCEPT ![r] = "idle"]
    /\ session' = [session EXCEPT ![r] = None]
    /\ userLevel' = [userLevel EXCEPT ![r] = 0]
    /\ UNCHANGED <<table, level, user, lag, loggedOut>>

\* Mutant of CheckAccessLevel: an unset level passes.
CheckIfSet(have, required) == have = 0 \/ have >= required

CheckAccessLevel(have, required) == have >= required

\* The route requires an access level, 1 at least.
Allow(r, required) ==
    /\ pc[r] = "authorising"
    /\ CheckAccessLevel(userLevel[r], required)
    /\ pc' = [pc EXCEPT ![r] = "handling"]
    /\ UNCHANGED <<table, level, session, user, userLevel, lag, loggedOut>>

Forbid(r, required) ==
    /\ pc[r] = "authorising"
    /\ ~CheckAccessLevel(userLevel[r], required)
    /\ Leave(r)

HandlerReturns(r) ==
    /\ pc[r] = "handling"
    /\ Leave(r)

-----------------------------------------------------------------------------
(* Housekeeping, administration of users, and time. *)

\* Mutant of Forgotten: no time buffer.
ForgottenAtOnce(s) ==
    \/ sinceStart[s] > SessionExpiry
    \/ sinceSeen[s] > SessionLastSeenExpiry

Forgotten(s) ==
    \/ sinceStart[s] > SessionExpiry + TimeBuffer
    \/ sinceSeen[s] > SessionLastSeenExpiry + TimeBuffer

\* The handler of the authHouseKeeping queue.
DeleteExpiredSessions ==
    /\ row' = [s \in Ids |-> IF row[s] = "live" /\ Forgotten(s) THEN "deleted" ELSE row[s]]
    /\ UNCHANGED <<userOf, sinceStart, sinceSeen, level, requests, loggedOut>>

\* A user's access level is edited, or the user is deleted (see module Users).
ChangeUser(u, l) ==
    /\ level' = [level EXCEPT ![u] = l]
    /\ UNCHANGED <<table, requests, loggedOut>>

Older(age) == [s \in Ids |-> IF row[s] # "live" \/ age[s] = MaxAge THEN age[s] ELSE age[s] + 1]

\* Time passes; an authentication takes no longer than MaxLag.
Tick ==
    /\ \A r \in Requests : pc[r] = "authenticated" => lag[r] < MaxLag
    /\ lag' = [r \in Requests |-> IF pc[r] = "authenticated" THEN lag[r] + 1 ELSE lag[r]]
    /\ sinceStart' = Older(sinceStart)
    /\ sinceSeen' = Older(sinceSeen)
    /\ UNCHANGED <<row, userOf, level, pc, session, user, userLevel, loggedOut>>

RequestStep(r) ==
    \/ \E s \in Ids : CreateSession(r, s)
    \/ UpdateSessionLastSeen(r) \/ UpdateFails(r)
    \/ \E required \in 1 .. 3 : Allow(r, required) \/ Forbid(r, required)
    \/ HandlerReturns(r)

Next ==
    \/ \E r \in Requests, u \in Users : CheckPassword(r, u)
    \/ \E r \in Requests, s \in Ids : GetSession(r, s)
    \/ \E r \in Requests : RequestStep(r)
    \/ \E s \in Ids : DeleteSession(s)
    \/ DeleteExpiredSessions
    \/ \E u \in Users, l \in Levels : ChangeUser(u, l)
    \/ Tick

Spec == Init /\ [][Next]_vars

\* Requests that were begun go on, and time passes.
FairSpec == Spec /\ WF_vars(Tick) /\ \A r \in Requests : WF_vars(RequestStep(r))
-----------------------------------------------------------------------------
\* A session that was ended, by a logout or by the housekeeping, never comes
\* back: not by the last_seen_time that a request still under way writes.
EndedStaysEnded == [][\A s \in Ids : row[s] = "deleted" => row'[s] = "deleted"]_vars

\* "ensure we don't delete sessions in active use": the housekeeping never
\* takes a session away that GetSession still accepts, or that it accepted for
\* a request that has not recorded this yet.
ActiveSessionsKept ==
    [][\A s \in Ids :
        /\ row[s] = "live" /\ row'[s] = "deleted" /\ s \notin loggedOut'
        => /\ ~Usable(s)
           /\ \A r \in Requests : ~(pc[r] = "authenticated" /\ session[r] = s)]_vars

\* A handler never runs for a user who had no row any more when the session was
\* read: the zero access level fails every check.
HandlersHaveUsers == \A r \in Requests : pc[r] = "handling" => userLevel[r] > 0

\* No session lives for ever: however often it is used, it becomes unusable
\* and stays so.
EverySessionEnds == \A s \in Ids : row[s] = "live" ~> [](~Usable(s))
=============================================================================
