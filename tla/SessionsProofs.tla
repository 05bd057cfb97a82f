--------------------------- MODULE SessionsProofs ---------------------------
(***************************************************************************)
(* Proofs about Sessions, for any number of sessions, users and requests,  *)
(* and any expiry times.  What the housekeeping may take away depends on   *)
(* requests that are between GetSession and UpdateSessionLastSeen: the     *)
(* invariant bounds the age of their sessions by how long ago they were    *)
(* read.  Then about Routes, for routes with any configurations.           *)
(***************************************************************************)
EXTENDS Sessions, Routes, TLAPS

\* A session has a user from the moment it has a row, a login from its start.
UsersAreKnown ==
    /\ \A s \in Ids : row[s] # "absent" => userOf[s] \in Users
    /\ \A r \in Requests : pc[r] = "login" => user[r] \in Users

\* A session that was read is not new, and, while it is live, it has expired at
\* most by the time that has passed since then.
ReadSessionsAreFresh ==
    \A r \in Requests : pc[r] = "authenticated" =>
        /\ session[r] \in Ids
        /\ row[session[r]] # "absent"
        /\ row[session[r]] = "live" =>
              /\ sinceStart[session[r]] <= SessionExpiry + lag[r]
              /\ sinceSeen[session[r]] <= SessionLastSeenExpiry + lag[r]

\* The lag counts while a request is between its two calls.
LagStartsAtZero == \A r \in Requests : pc[r] # "authenticated" => lag[r] = 0

IndInv ==
    /\ TypeOK
    /\ UsersAreKnown
    /\ ReadSessionsAreFresh
    /\ LagStartsAtZero
    /\ HandlersHaveUsers

-----------------------------------------------------------------------------
\* The largest age is a number above every limit.
LEMMA AgesAreNumbers ==
    /\ MaxAge \in Nat
    /\ SessionExpiry + TimeBuffer < MaxAge
    /\ SessionLastSeenExpiry + TimeBuffer < MaxAge
BY SessionsAssumption DEF MaxAge

\* The invariant holds before the first login.
LEMMA InitEstablishesInv == Init => IndInv
<1> SUFFICES ASSUME Init PROVE IndInv
  OBVIOUS
<1>1. TypeOK
  BY SessionsAssumption, AgesAreNumbers DEF Init, TypeOK, Levels
<1>2. UsersAreKnown /\ ReadSessionsAreFresh /\ LagStartsAtZero /\ HandlersHaveUsers
  BY DEF Init, UsersAreKnown, ReadSessionsAreFresh, LagStartsAtZero, HandlersHaveUsers
<1> QED
  BY <1>1, <1>2 DEF IndInv

\* A login in two steps.
LEMMA CheckPasswordPreservesInv ==
    ASSUME IndInv, NEW r \in Requests, NEW u \in Users, CheckPassword(r, u)
    PROVE  IndInv'
<1>1. /\ pc[r] = "idle"
      /\ pc' = [pc EXCEPT ![r] = "login"]
      /\ user' = [user EXCEPT ![r] = u]
      /\ UNCHANGED <<row, userOf, sinceStart, sinceSeen, level, session, userLevel, lag,
                     loggedOut>>
  BY DEF CheckPassword, table
<1>2. TypeOK'
  BY <1>1 DEF IndInv, TypeOK
<1>3. UsersAreKnown'
  BY <1>1 DEF IndInv, TypeOK, UsersAreKnown
<1>4. ReadSessionsAreFresh' /\ LagStartsAtZero' /\ HandlersHaveUsers'
  BY <1>1 DEF IndInv, TypeOK, ReadSessionsAreFresh, LagStartsAtZero, HandlersHaveUsers
<1> QED
  BY <1>2, <1>3, <1>4 DEF IndInv

\* A new session is nobody's yet: no request has read a row that was absent.
LEMMA CreateSessionPreservesInv ==
    ASSUME IndInv, NEW r \in Requests, NEW s \in Ids, CreateSession(r, s)
    PROVE  IndInv'
<1>1. /\ pc[r] = "login" /\ row[s] = "absent"
      /\ row' = [row EXCEPT ![s] = "live"]
      /\ userOf' = [userOf EXCEPT ![s] = user[r]]
      /\ sinceStart' = [sinceStart EXCEPT ![s] = 0]
      /\ sinceSeen' = [sinceSeen EXCEPT ![s] = 0]
      /\ pc' = [pc EXCEPT ![r] = "idle"]
      /\ user' = [user EXCEPT ![r] = None]
      /\ UNCHANGED <<level, session, userLevel, lag, loggedOut>>
  BY DEF CreateSession
<1>2. user[r] \in Users
  BY <1>1 DEF IndInv, UsersAreKnown
<1>3. TypeOK'
  BY <1>1, <1>2, AgesAreNumbers DEF IndInv, TypeOK
<1>4. UsersAreKnown'
  BY <1>1, <1>2 DEF IndInv, TypeOK, UsersAreKnown
<1>5. ReadSessionsAreFresh'
  <2> SUFFICES ASSUME NEW q \in Requests, pc'[q] = "authenticated"
               PROVE  /\ session[q] \in Ids
                      /\ row'[session[q]] # "absent"
                      /\ row'[session[q]] = "live" =>
                            /\ sinceStart'[session[q]] <= SessionExpiry + lag[q]
                            /\ sinceSeen'[session[q]] <= SessionLastSeenExpiry + lag[q]
    BY <1>1 DEF ReadSessionsAreFresh
  <2>1. pc[q] = "authenticated" /\ session[q] \in Ids /\ session[q] # s
    BY <1>1 DEF IndInv, TypeOK, ReadSessionsAreFresh
  <2>2. /\ row'[session[q]] = row[session[q]]
        /\ sinceStart'[session[q]] = sinceStart[session[q]]
        /\ sinceSeen'[session[q]] = sinceSeen[session[q]]
    BY <1>1, <2>1 DEF IndInv, TypeOK
  <2> QED
    BY <2>1, <2>2 DEF IndInv, ReadSessionsAreFresh
<1>6. LagStartsAtZero' /\ HandlersHaveUsers'
  BY <1>1 DEF IndInv, TypeOK, LagStartsAtZero, HandlersHaveUsers
<1> QED
  BY <1>3, <1>4, <1>5, <1>6 DEF IndInv

\* Sessions that are deleted, by a logout or by the housekeeping.
LEMMA DeletePreservesInv ==
    ASSUME IndInv,
           row' \in [Ids -> {"absent", "live", "deleted"}],
           \A s \in Ids : row'[s] = row[s] \/ (row[s] = "live" /\ row'[s] = "deleted"),
           loggedOut' \subseteq Ids,
           UNCHANGED <<userOf, sinceStart, sinceSeen, level, requests>>
    PROVE  IndInv'
<1>1. TypeOK'
  BY DEF IndInv, TypeOK, requests
<1>2. UsersAreKnown'
  BY DEF IndInv, UsersAreKnown, requests
<1>3. ReadSessionsAreFresh'
  BY DEF IndInv, ReadSessionsAreFresh, requests
<1>4. LagStartsAtZero' /\ HandlersHaveUsers'
  BY DEF IndInv, LagStartsAtZero, HandlersHaveUsers, requests
<1> QED
  BY <1>1, <1>2, <1>3, <1>4 DEF IndInv

\* A session is read that has not expired.
LEMMA GetSessionPreservesInv ==
    ASSUME IndInv, NEW r \in Requests, NEW s \in Ids, GetSession(r, s)
    PROVE  IndInv'
<1>1. /\ pc[r] = "idle" /\ Usable(s)
      /\ pc' = [pc EXCEPT ![r] = "authenticated"]
      /\ session' = [session EXCEPT ![r] = s]
      /\ userLevel' = [userLevel EXCEPT ![r] = level[userOf[s]]]
      /\ UNCHANGED <<row, userOf, sinceStart, sinceSeen, level, user, lag, loggedOut>>
  BY DEF GetSession, table
<1>2. userOf[s] \in Users
  BY <1>1 DEF IndInv, UsersAreKnown, Usable
<1>3. TypeOK'
  BY <1>1, <1>2 DEF IndInv, TypeOK
<1>4. UsersAreKnown'
  BY <1>1 DEF IndInv, TypeOK, UsersAreKnown
<1>5. ReadSessionsAreFresh'
  <2>1. /\ row[s] = "live"
        /\ sinceStart[s] <= SessionExpiry + lag[r]
        /\ sinceSeen[s] <= SessionLastSeenExpiry + lag[r]
    BY <1>1, SessionsAssumption DEF Usable, IndInv, TypeOK, LagStartsAtZero
  <2> QED
    BY <1>1, <2>1 DEF IndInv, TypeOK, ReadSessionsAreFresh
<1>6. LagStartsAtZero' /\ HandlersHaveUsers'
  BY <1>1 DEF IndInv, TypeOK, LagStartsAtZero, HandlersHaveUsers
<1> QED
  BY <1>3, <1>4, <1>5, <1>6 DEF IndInv

\* The update of last_seen_time makes a session younger, or does nothing.
LEMMA UpdatePreservesInv ==
    ASSUME IndInv, NEW r \in Requests, UpdateSessionLastSeen(r) \/ UpdateFails(r)
    PROVE  IndInv'
<1>1. /\ pc[r] = "authenticated"
      /\ pc' = [pc EXCEPT ![r] = "authorising"]
      /\ lag' = [lag EXCEPT ![r] = 0]
      /\ UNCHANGED <<row, userOf, sinceStart, level, session, user, userLevel, loggedOut>>
      /\ sinceSeen' = sinceSeen \/ sinceSeen' = [sinceSeen EXCEPT ![session[r]] = 0]
  BY DEF UpdateSessionLastSeen, UpdateFails, table
<1>2. /\ sinceSeen' \in [Ids -> 0 .. MaxAge]
      /\ \A s \in Ids : sinceSeen'[s] = sinceSeen[s] \/ sinceSeen'[s] = 0
  BY <1>1, AgesAreNumbers DEF IndInv, TypeOK
<1>3. TypeOK'
  BY <1>1, <1>2, SessionsAssumption DEF IndInv, TypeOK
<1>4. UsersAreKnown' /\ LagStartsAtZero' /\ HandlersHaveUsers'
  BY <1>1 DEF IndInv, TypeOK, UsersAreKnown, LagStartsAtZero, HandlersHaveUsers
<1>5. ReadSessionsAreFresh'
  <2> SUFFICES ASSUME NEW q \in Requests, pc'[q] = "authenticated"
               PROVE  /\ session[q] \in Ids
                      /\ row[session[q]] # "absent"
                      /\ row[session[q]] = "live" =>
                            /\ sinceStart[session[q]] <= SessionExpiry + lag'[q]
                            /\ sinceSeen'[session[q]] <= SessionLastSeenExpiry + lag'[q]
    BY <1>1 DEF ReadSessionsAreFresh
  <2>1. pc[q] = "authenticated" /\ lag'[q] = lag[q] /\ lag[q] \in Nat
    BY <1>1, SessionsAssumption DEF IndInv, TypeOK
  <2> QED
    BY <1>2, <2>1, SessionsAssumption DEF IndInv, ReadSessionsAreFresh
<1> QED
  BY <1>3, <1>4, <1>5 DEF IndInv

\* The access level is checked before a handler runs.
LEMMA AllowPreservesInv ==
    ASSUME IndInv, NEW r \in Requests, NEW required \in 1 .. 3, Allow(r, required)
    PROVE  IndInv'
<1>1. /\ pc[r] = "authorising"
      /\ userLevel[r] >= required
      /\ pc' = [pc EXCEPT ![r] = "handling"]
      /\ UNCHANGED <<row, userOf, sinceStart, sinceSeen, level, session, user, userLevel, lag,
                     loggedOut>>
  BY DEF Allow, CheckAccessLevel, table
<1>2. userLevel[r] > 0
  BY <1>1 DEF IndInv, TypeOK, Levels
<1>3. TypeOK'
  BY <1>1 DEF IndInv, TypeOK
<1>4. UsersAreKnown' /\ ReadSessionsAreFresh' /\ LagStartsAtZero'
  BY <1>1 DEF IndInv, TypeOK, UsersAreKnown, ReadSessionsAreFresh, LagStartsAtZero
<1>5. HandlersHaveUsers'
  BY <1>1, <1>2 DEF IndInv, TypeOK, HandlersHaveUsers
<1> QED
  BY <1>3, <1>4, <1>5 DEF IndInv

\* A request that leaves holds nothing.
LEMMA LeavePreservesInv ==
    ASSUME IndInv, NEW r \in Requests, pc[r] \in {"authorising", "handling"}, Leave(r)
    PROVE  IndInv'
<1>1. /\ pc' = [pc EXCEPT ![r] = "idle"]
      /\ session' = [session EXCEPT ![r] = None]
      /\ userLevel' = [userLevel EXCEPT ![r] = 0]
      /\ UNCHANGED <<row, userOf, sinceStart, sinceSeen, level, user, lag, loggedOut>>
  BY DEF Leave, table
<1>2. TypeOK'
  BY <1>1 DEF IndInv, TypeOK, Levels
<1>3. UsersAreKnown' /\ ReadSessionsAreFresh' /\ LagStartsAtZero' /\ HandlersHaveUsers'
  BY <1>1 DEF IndInv, TypeOK, UsersAreKnown, ReadSessionsAreFresh, LagStartsAtZero,
              HandlersHaveUsers
<1> QED
  BY <1>2, <1>3 DEF IndInv

\* As time passes sessions age no faster than the requests that have read them.
LEMMA TickPreservesInv ==
    ASSUME IndInv, Tick
    PROVE  IndInv'
<1>1. /\ \A r \in Requests : pc[r] = "authenticated" => lag[r] < MaxLag
      /\ lag' = [r \in Requests |-> IF pc[r] = "authenticated" THEN lag[r] + 1 ELSE lag[r]]
      /\ UNCHANGED <<row, userOf, level, pc, session, user, userLevel, loggedOut>>
  BY DEF Tick
<1>2. ASSUME NEW age \in [Ids -> 0 .. MaxAge]
      PROVE  /\ Older(age) \in [Ids -> 0 .. MaxAge]
             /\ \A s \in Ids : Older(age)[s] <= age[s] + 1
  BY AgesAreNumbers DEF Older
<1>3. /\ sinceStart' \in [Ids -> 0 .. MaxAge]
      /\ sinceSeen' \in [Ids -> 0 .. MaxAge]
      /\ \A s \in Ids : /\ sinceStart'[s] <= sinceStart[s] + 1
                        /\ sinceSeen'[s] <= sinceSeen[s] + 1
  BY <1>2 DEF Tick, IndInv, TypeOK
<1>4. lag' \in [Requests -> 0 .. MaxLag]
  BY <1>1, SessionsAssumption DEF IndInv, TypeOK
<1>5. TypeOK'
  BY <1>1, <1>3, <1>4 DEF IndInv, TypeOK
<1>6. UsersAreKnown' /\ LagStartsAtZero' /\ HandlersHaveUsers'
  BY <1>1 DEF IndInv, UsersAreKnown, LagStartsAtZero, HandlersHaveUsers
<1>7. ReadSessionsAreFresh'
  <2> SUFFICES ASSUME NEW r \in Requests, pc[r] = "authenticated"
               PROVE  /\ session[r] \in Ids
                      /\ row[session[r]] # "absent"
                      /\ row[session[r]] = "live" =>
                            /\ sinceStart'[session[r]] <= SessionExpiry + lag'[r]
                            /\ sinceSeen'[session[r]] <= SessionLastSeenExpiry + lag'[r]
    BY <1>1 DEF ReadSessionsAreFresh
  <2> DEFINE s == session[r]
  <2>1. /\ s \in Ids /\ row[s] # "absent"
        /\ row[s] = "live" => /\ sinceStart[s] <= SessionExpiry + lag[r]
                              /\ sinceSeen[s] <= SessionLastSeenExpiry + lag[r]
    BY DEF IndInv, ReadSessionsAreFresh
  <2>2. lag[r] \in Nat /\ lag'[r] = lag[r] + 1
    BY <1>1, SessionsAssumption DEF IndInv, TypeOK
  <2>3. sinceStart[s] \in Nat /\ sinceSeen[s] \in Nat /\ sinceStart'[s] \in Nat /\ sinceSeen'[s] \in Nat
    BY <1>3, <2>1, AgesAreNumbers DEF IndInv, TypeOK
  <2>4. sinceStart'[s] <= sinceStart[s] + 1 /\ sinceSeen'[s] <= sinceSeen[s] + 1
    BY <1>3, <2>1
  <2> HIDE DEF s
  <2>5. row[s] = "live" => /\ sinceStart'[s] <= SessionExpiry + lag'[r]
                           /\ sinceSeen'[s] <= SessionLastSeenExpiry + lag'[r]
    BY <2>1, <2>2, <2>3, <2>4, SessionsAssumption
  <2> QED
    BY <2>1, <2>5 DEF s
<1> QED
  BY <1>5, <1>6, <1>7 DEF IndInv

\* No step breaks the invariant.
LEMMA NextPreservesInv == IndInv /\ [Next]_vars => IndInv'
<1> SUFFICES ASSUME IndInv, [Next]_vars PROVE IndInv'
  OBVIOUS
<1>1. ASSUME NEW r \in Requests, RequestStep(r) PROVE IndInv'
  <2>1. ASSUME NEW required \in 1 .. 3, Forbid(r, required) PROVE IndInv'
    BY <2>1, LeavePreservesInv DEF Forbid
  <2>2. CASE HandlerReturns(r)
    BY <2>2, LeavePreservesInv DEF HandlerReturns
  <2> QED
    BY <1>1, <2>1, <2>2, CreateSessionPreservesInv, UpdatePreservesInv, AllowPreservesInv
       DEF RequestStep
<1>2. ASSUME NEW s \in Ids, DeleteSession(s) PROVE IndInv'
  <2>1. /\ row[s] = "live"
        /\ row' = [row EXCEPT ![s] = "deleted"]
        /\ loggedOut' = loggedOut \cup {s}
        /\ UNCHANGED <<userOf, sinceStart, sinceSeen, level, requests>>
    BY <1>2 DEF DeleteSession
  <2>2. /\ row' \in [Ids -> {"absent", "live", "deleted"}]
        /\ \A i \in Ids : row'[i] = row[i] \/ (row[i] = "live" /\ row'[i] = "deleted")
        /\ loggedOut' \subseteq Ids
    BY <2>1 DEF IndInv, TypeOK
  <2> QED
    BY <2>1, <2>2, DeletePreservesInv
<1>3. CASE DeleteExpiredSessions
  <2>1. /\ row' \in [Ids -> {"absent", "live", "deleted"}]
        /\ \A s \in Ids : row'[s] = row[s] \/ (row[s] = "live" /\ row'[s] = "deleted")
        /\ UNCHANGED <<userOf, sinceStart, sinceSeen, level, requests, loggedOut>>
    BY <1>3 DEF DeleteExpiredSessions, IndInv, TypeOK
  <2>2. loggedOut' \subseteq Ids
    BY <2>1 DEF IndInv, TypeOK
  <2> QED
    BY <2>1, <2>2, DeletePreservesInv
<1>4. ASSUME NEW u \in Users, NEW l \in Levels, ChangeUser(u, l) PROVE IndInv'
  BY <1>4 DEF ChangeUser, table, requests, IndInv, TypeOK, UsersAreKnown, ReadSessionsAreFresh,
              LagStartsAtZero, HandlersHaveUsers
<1>5. CASE UNCHANGED vars
  BY <1>5 DEF vars, table, requests, IndInv, TypeOK, UsersAreKnown, ReadSessionsAreFresh,
              LagStartsAtZero, HandlersHaveUsers
<1> QED
  BY <1>1, <1>2, <1>3, <1>4, <1>5, CheckPasswordPreservesInv, GetSessionPreservesInv,
     TickPreservesInv DEF Next

\* Every reachable state satisfies the invariant.
LEMMA Invariance == Spec => []IndInv
BY InitEstablishesInv, NextPreservesInv, PTL DEF Spec

-----------------------------------------------------------------------------
\* The state stays in its type.
THEOREM TypeCorrect == Spec => []TypeOK
<1>1. IndInv => TypeOK
  BY DEF IndInv
<1> QED
  BY <1>1, Invariance, PTL

\* No handler of a route with a required level runs for a user who had no row
\* when the session was read.
THEOREM HandlersAreForUsers == Spec => []HandlersHaveUsers
<1>1. IndInv => HandlersHaveUsers
  BY DEF IndInv
<1> QED
  BY <1>1, Invariance, PTL

\* What a step may do to the row of a session: a login takes an absent one, a
\* logout or the housekeeping ends a live one, nothing else touches it.
LEMMA RowsChangeForward ==
    ASSUME IndInv, [Next]_vars, NEW s \in Ids
    PROVE  \/ row'[s] = row[s]
           \/ row[s] = "absent" /\ row'[s] = "live"
           \/ row[s] = "live" /\ row'[s] = "deleted" /\ s \in loggedOut'
           \/ row[s] = "live" /\ row'[s] = "deleted" /\ Forgotten(s)
<1> USE DEF IndInv, TypeOK
<1>1. ASSUME NEW r \in Requests, RequestStep(r)
      PROVE  row'[s] = row[s] \/ (row[s] = "absent" /\ row'[s] = "live")
  BY <1>1 DEF RequestStep, CreateSession, UpdateSessionLastSeen, UpdateFails, Allow, Forbid,
              HandlerReturns, Leave, table
<1>2. ASSUME NEW i \in Ids, DeleteSession(i)
      PROVE  row'[s] = row[s] \/ (row[s] = "live" /\ row'[s] = "deleted" /\ s \in loggedOut')
  BY <1>2 DEF DeleteSession
<1>3. CASE DeleteExpiredSessions
  BY <1>3 DEF DeleteExpiredSessions
<1>4. CASE \/ \E r \in Requests, u \in Users : CheckPassword(r, u)
           \/ \E r \in Requests, i \in Ids : GetSession(r, i)
           \/ \E u \in Users, l \in Levels : ChangeUser(u, l)
           \/ Tick \/ UNCHANGED vars
  BY <1>4 DEF CheckPassword, GetSession, ChangeUser, Tick, vars, table
<1> QED
  BY <1>1, <1>2, <1>3, <1>4 DEF Next

\* An ended session never comes back, though requests that have read it before
\* still write to it.
THEOREM EndIsFinal == Spec => EndedStaysEnded
<1>1. ASSUME IndInv, [Next]_vars
      PROVE  [\A s \in Ids : row[s] = "deleted" => row'[s] = "deleted"]_vars
  BY <1>1, RowsChangeForward
<1> QED
  BY <1>1, Invariance, PTL DEF Spec, EndedStaysEnded

\* The time buffer is enough: a session that is usable, or that a request has
\* read at most MaxLag ago, is not old enough for the housekeeping.
LEMMA InUseIsNotForgotten ==
    ASSUME IndInv, NEW s \in Ids, row[s] = "live", Forgotten(s)
    PROVE  /\ ~Usable(s)
           /\ \A r \in Requests : ~(pc[r] = "authenticated" /\ session[r] = s)
<1>1. sinceStart[s] \in Nat /\ sinceSeen[s] \in Nat
  BY AgesAreNumbers DEF IndInv, TypeOK
<1>2. ~Usable(s)
  BY <1>1, SessionsAssumption DEF Usable, Forgotten
<1>3. ASSUME NEW r \in Requests, pc[r] = "authenticated", session[r] = s
      PROVE  FALSE
  <2>1. /\ sinceStart[s] <= SessionExpiry + lag[r]
        /\ sinceSeen[s] <= SessionLastSeenExpiry + lag[r]
    BY <1>3 DEF IndInv, ReadSessionsAreFresh
  <2>2. lag[r] \in Nat /\ lag[r] <= TimeBuffer
    BY SessionsAssumption DEF IndInv, TypeOK
  <2> QED
    BY <1>1, <2>1, <2>2, SessionsAssumption DEF Forgotten
<1> QED
  BY <1>2, <1>3

\* The housekeeping never takes a session in use, for any expiry times and any
\* buffer that is not shorter than the authentication of a request.
THEOREM HousekeepingSparesActive == Spec => ActiveSessionsKept
<1>1. ASSUME IndInv, [Next]_vars
      PROVE  [\A s \in Ids :
                /\ row[s] = "live" /\ row'[s] = "deleted" /\ s \notin loggedOut'
                => /\ ~Usable(s)
                   /\ \A r \in Requests : ~(pc[r] = "authenticated" /\ session[r] = s)]_vars
  <2> SUFFICES ASSUME NEW s \in Ids,
                      row[s] = "live", row'[s] = "deleted", s \notin loggedOut'
               PROVE  /\ ~Usable(s)
                      /\ \A r \in Requests : ~(pc[r] = "authenticated" /\ session[r] = s)
    OBVIOUS
  <2>1. Forgotten(s)
    BY <1>1, RowsChangeForward
  <2> QED
    BY <1>1, <2>1, InUseIsNotForgotten
<1> QED
  BY <1>1, Invariance, PTL DEF Spec, ActiveSessionsKept

-----------------------------------------------------------------------------
(* Routes: the middlewares that call GetSession, or do without. *)

\* What authentication leaves for the access control: nothing if it is skipped,
\* else the user whom the request was authenticated as.
Credential(mode) ==
    CASE mode = "skip" -> Nobody [] mode = "basic" -> request.basic [] OTHER -> request.session

\* How far a request has come says what has been established about it, and a
\* refused one lacked it.
RequestInv ==
    /\ RequestTypeOK
    /\ outcome = "open" /\ at = 1 => ctxUser = Nobody
    /\ at > 1 => /\ ctxUser = Credential(AuthMode)
                 /\ AuthMode # "skip" => ctxUser # Nobody
    /\ at > 2 => MayPass(ctxUser)
    /\ outcome = "handled" => at = 3
    /\ outcome \in {"unauthorized", "login"} =>
         at = 1 /\ AuthMode # "skip" /\ Credential(AuthMode) = Nobody
    /\ outcome = "forbidden" => at = 2 /\ ~MayPass(ctxUser)

\* The middlewares are authentication, then access control.
LEMMA TurnOf ==
    ASSUME NEW mw, Turn(mw)
    PROVE  /\ outcome = "open"
           /\ \/ at = 1 /\ mw = "authentication"
              \/ at = 2 /\ mw = "access"
BY DEF Turn, Middlewares

\* A request starts with nothing established.
LEMMA NewRequest ==
    ASSUME route \in RouteTable \cup OtherRoutes, request \in HTTPRequests,
           at = 1, ctxUser = Nobody, outcome = "open"
    PROVE  RequestInv
BY DEF RequestInv, RequestTypeOK

\* Authentication: a user in the context, or none because none is asked for.
LEMMA AuthenticationKeepsInv ==
    ASSUME RequestInv,
           SkipAuthentication \/ handleHTTPBasicAuth \/ UseSession
    PROVE  RequestInv'
<1> USE DEF CallNext, Refuse, Authenticate
<1>1. Turn("authentication")
  BY DEF SkipAuthentication, handleHTTPBasicAuth, UseSession
<1>2. at = 1 /\ outcome = "open" /\ ctxUser = Nobody /\ RequestTypeOK
  BY <1>1, TurnOf DEF RequestInv
<1>3. route' = route /\ request' = request
  BY DEF SkipAuthentication, handleHTTPBasicAuth, UseSession
<1>4. AuthMode' = AuthMode /\ Credential(AuthMode)' = Credential(AuthMode)
  BY <1>3 DEF AuthMode, Credential
<1>5. /\ request.session \in {Nobody} \cup 0 .. 3 /\ request.basic \in {Nobody} \cup 1 .. 3
      /\ route \in RouteTable \cup OtherRoutes /\ request \in HTTPRequests
  BY <1>2 DEF RequestTypeOK, HTTPRequests
<1>6. \/ /\ at' = 2 /\ outcome' = "open" /\ ctxUser' = Credential(AuthMode)
         /\ AuthMode # "skip" => ctxUser' # Nobody
      \/ /\ at' = 1 /\ outcome' \in {"unauthorized", "login"} /\ ctxUser' = Nobody
         /\ AuthMode # "skip" /\ Credential(AuthMode) = Nobody
  BY <1>2 DEF SkipAuthentication, handleHTTPBasicAuth, UseSession, Credential
<1>7. Credential(AuthMode) \in {Nobody} \cup 0 .. 3
  BY <1>5 DEF Credential
<1>8. RequestTypeOK'
  BY <1>3, <1>5, <1>6, <1>7 DEF RequestTypeOK
<1> QED
  BY <1>4, <1>6, <1>8 DEF RequestInv

\* Access control lets through, or forbids, by what authentication left.
LEMMA AccessControlKeepsInv ==
    ASSUME RequestInv, AccessControl
    PROVE  RequestInv'
<1>1. at = 2 /\ outcome = "open"
  BY TurnOf DEF AccessControl
<1>2. route' = route /\ request' = request /\ ctxUser' = ctxUser
  BY DEF AccessControl, CallNext, Refuse
<1>3. /\ AuthMode' = AuthMode /\ Credential(AuthMode)' = Credential(AuthMode)
      /\ MayPass(ctxUser)' <=> MayPass(ctxUser)
  BY <1>2 DEF AuthMode, Credential, MayPass, Required
<1>4. \/ at' = 3 /\ outcome' = "open" /\ MayPass(ctxUser)
      \/ at' = 2 /\ outcome' = "forbidden" /\ ~MayPass(ctxUser)
  BY <1>1 DEF AccessControl, CallNext, Refuse
<1>5. RequestTypeOK'
  BY <1>2, <1>4 DEF RequestInv, RequestTypeOK
<1> QED
  BY <1>1, <1>2, <1>3, <1>4, <1>5 DEF RequestInv

\* A request on its way satisfies RequestInv at every step.
LEMMA RequestInvariance == RequestSpec => []RequestInv
<1>1. RequestInit => RequestInv
  BY NewRequest DEF RequestInit
<1>2. RequestInv /\ [RequestNext]_(requestVars) => RequestInv'
  <2> SUFFICES ASSUME RequestInv, [RequestNext]_(requestVars) PROVE RequestInv'
    OBVIOUS
  <2>1. CASE UNCHANGED requestVars
    BY <2>1 DEF requestVars, RequestInv, RequestTypeOK, AuthMode, Credential, MayPass, Required
  <2>2. CASE Handle
    <3>1. /\ at = 3 /\ outcome' = "handled"
          /\ route' = route /\ request' = request /\ at' = at /\ ctxUser' = ctxUser
      BY <2>2 DEF Handle, Middlewares
    <3> QED
      BY <3>1 DEF RequestInv, RequestTypeOK, AuthMode, Credential, MayPass, Required
  <2>3. CASE Arrive
    BY <2>3 DEF Arrive, RequestInv, RequestTypeOK
  <2> QED
    BY <2>1, <2>2, <2>3, AuthenticationKeepsInv, AccessControlKeepsInv DEF RequestNext
<1> QED
  BY <1>1, <1>2, PTL DEF RequestSpec

-----------------------------------------------------------------------------
\* A route's configurations are a list of the known ones.
LEMMA RouteConfigs ==
    ASSUME RequestTypeOK
    PROVE  /\ \E k \in Nat : DOMAIN route[2] = 1 .. k
           /\ \A n \in DOMAIN route[2] : route[2][n] \in Configs
<1>1. CASE route \in RouteTable
  <2>1. PICK l \in -1 .. 3 :
          \/ route[2] = <<Require(l)>>
          \/ \E a \in {skipAuth, useBasicAuth} : route[2] = <<a, Require(l)>>
    BY <1>1 DEF RouteTable, AccessLevel
  <2>2. CASE route[2] = <<Require(l)>>
    <3>1. DOMAIN route[2] = 1 .. 1 /\ route[2][1] = Require(l)
      BY <2>2
    <3> QED
      BY <3>1 DEF Configs
  <2>3. ASSUME NEW a \in {skipAuth, useBasicAuth}, route[2] = <<a, Require(l)>>
        PROVE  /\ DOMAIN route[2] = 1 .. 2
               /\ \A n \in DOMAIN route[2] : route[2][n] \in Configs
    BY <2>3 DEF Configs
  <2> QED
    BY <2>1, <2>2, <2>3, <1>1
<1>2. CASE route \in OtherRoutes
  <2>1. PICK n \in 0 .. MaxConfigs : route[2] \in [1 .. n -> Configs]
    BY <1>2 DEF OtherRoutes
  <2> QED
    BY <2>1
<1> QED
  BY <1>1, <1>2 DEF RequestTypeOK

\* AddRoute finds a middleware the configuration listed for it.
LEMMA ListedIsFound ==
    ASSUME RequestTypeOK, Unambiguous, NEW c \in Listed
    PROVE  ConfigOf(c.of, route[2]) = c
<1>1. PICK n \in DOMAIN route[2] : route[2][n] = c
  BY DEF Listed
<1>2. PICK k \in Nat : DOMAIN route[2] = 1 .. k
  BY RouteConfigs
<1>3. \A m \in DOMAIN route[2] : route[2][m].of = c.of => m = n
  BY <1>1 DEF Unambiguous
<1>4. IsConfigOf(c.of, route[2], n)
  BY <1>1, <1>2, <1>3 DEF IsConfigOf
<1>5. \A m \in DOMAIN route[2] : IsConfigOf(c.of, route[2], m) => m = n
  BY <1>3 DEF IsConfigOf
<1> QED
  BY <1>1, <1>4, <1>5 DEF ConfigOf

\* What AddRoute finds is listed, or there is nothing to find.
LEMMA FoundIsListed ==
    ASSUME NEW mw
    PROVE  \/ ConfigOf(mw, route[2]) = NoConfig
           \/ ConfigOf(mw, route[2]) \in Listed /\ ConfigOf(mw, route[2]).of = mw
<1>1. CASE \E n \in DOMAIN route[2] : IsConfigOf(mw, route[2], n)
  <2>1. PICK n \in DOMAIN route[2] : IsConfigOf(mw, route[2], n) /\ ConfigOf(mw, route[2]) = route[2][n]
    BY <1>1 DEF ConfigOf
  <2> QED
    BY <2>1 DEF IsConfigOf, Listed
<1> QED
  BY <1>1 DEF ConfigOf

\* A level that is required is one the route lists.
LEMMA RequiredIsListed ==
    ASSUME RequestTypeOK
    PROVE  /\ Required \in -1 .. 3
           /\ Required # 0 => Require(Required) \in Listed
<1>1. CASE ConfigOf("access", route[2]) = NoConfig
  BY <1>1 DEF Required, NoConfig
<1>2. CASE /\ ConfigOf("access", route[2]) \in Listed
           /\ ConfigOf("access", route[2]).of = "access"
  <2>1. PICK l \in -1 .. 3 : ConfigOf("access", route[2]) = Require(l)
    BY <1>2, RouteConfigs DEF Listed, Configs, skipAuth, useBasicAuth
  <2>2. Required = l
    BY <2>1 DEF Required, Require
  <2> QED
    BY <1>2, <2>1, <2>2
<1> QED
  BY <1>1, <1>2, FoundIsListed

\* The kind of authentication and the level are those listed, in any order.
LEMMA ConfiguredAsListed ==
    ASSUME RequestTypeOK, Unambiguous
    PROVE  /\ AuthMode = "skip" <=> skipAuth \in Listed
           /\ Credential(AuthMode) = Requester
           /\ \A l \in RouteLevels : Require(l) \in Listed => Required = l
<1>1. skipAuth \in Listed => AuthMode = "skip"
  <2>1. skipAuth.of = "authentication" /\ skipAuth.mode = "skip"
    BY DEF skipAuth
  <2> QED
    BY <2>1, ListedIsFound DEF AuthMode
<1>2. useBasicAuth \in Listed => AuthMode = "basic"
  <2>1. useBasicAuth.of = "authentication" /\ useBasicAuth.mode = "basic"
    BY DEF useBasicAuth
  <2> QED
    BY <2>1, ListedIsFound DEF AuthMode
<1>3. skipAuth \notin Listed /\ useBasicAuth \notin Listed => AuthMode = "session"
  <2> SUFFICES ASSUME skipAuth \notin Listed, useBasicAuth \notin Listed
               PROVE  AuthMode = "session"
    OBVIOUS
  <2>1. \A c \in Listed : c.of # "authentication"
    BY RouteConfigs DEF Listed, Configs, Require
  <2>2. ConfigOf("authentication", route[2]) = NoConfig
    BY <2>1, FoundIsListed
  <2> QED
    BY <2>2 DEF AuthMode, NoConfig
<1>4. \A l \in RouteLevels : Require(l) \in Listed => Required = l
  <2>1. \A l \in RouteLevels : Require(l).of = "access" /\ Require(l).level = l
    BY DEF Require
  <2> QED
    BY <2>1, ListedIsFound DEF Required
<1>5. Credential(AuthMode) = Requester
  BY <1>1, <1>2, <1>3 DEF Credential, Requester
<1> QED
  BY <1>1, <1>2, <1>3, <1>4, <1>5

\* However a route is configured in AddRoute, with the configurations in any
\* order, its handler runs exactly for the requests they allow; one that is given
\* several for a middleware still runs it only for a user of a level it lists.
THEOREM NoRouteIsOpenByDefault == RequestSpec => []RoutesAreAsConfigured
<1>1. ASSUME RequestInv PROVE RoutesAreAsConfigured
  <2>1. RequestTypeOK
    BY <1>1 DEF RequestInv
  <2>2. \A u : MayPass(u) => /\ Required \in RouteLevels /\ Require(Required) \in Listed
                             /\ Grants(Required, u)
    BY <2>1, RequiredIsListed DEF MayPass, RouteLevels, Grants, AccessLevel
  <2>3. ASSUME outcome = "handled"
        PROVE  \E l \in RouteLevels, u \in {request.session, request.basic} :
                   Require(l) \in Listed /\ Grants(l, u)
    <3>1. MayPass(ctxUser) /\ ctxUser = Credential(AuthMode)
      BY <1>1, <2>1, <2>3 DEF RequestInv, RequestTypeOK
    <3>2. ctxUser \in {request.session, request.basic, Nobody}
      BY <3>1 DEF Credential
    <3>3. ctxUser = Nobody => Grants(Required, request.session)
      BY <2>2, <3>1 DEF Grants
    <3> QED
      BY <2>2, <3>1, <3>2, <3>3
  <2>4. ASSUME outcome # "open", Unambiguous
        PROVE  outcome = "handled" <=>
                   /\ skipAuth \in Listed \/ Requester # Nobody
                   /\ \E l \in RouteLevels : Require(l) \in Listed /\ Grants(l, Requester)
    <3>1. /\ AuthMode = "skip" <=> skipAuth \in Listed
          /\ Credential(AuthMode) = Requester
          /\ \A l \in RouteLevels : Require(l) \in Listed => Required = l
      BY <2>1, <2>4, ConfiguredAsListed
    <3>2. MayPass(Requester) <=>
            \E l \in RouteLevels : Require(l) \in Listed /\ Grants(l, Requester)
      <4>1. ASSUME NEW l \in RouteLevels, Require(l) \in Listed, Grants(l, Requester)
            PROVE  MayPass(Requester)
        BY <3>1, <4>1 DEF MayPass, RouteLevels, Grants, AccessLevel
      <4> QED
        BY <2>2, <4>1
    <3>3. CASE outcome = "handled"
      <4>1. /\ MayPass(ctxUser) /\ ctxUser = Credential(AuthMode)
            /\ AuthMode # "skip" => ctxUser # Nobody
        BY <1>1, <2>1, <3>3 DEF RequestInv, RequestTypeOK
      <4> QED
        BY <3>1, <3>2, <3>3, <4>1
    <3>4. CASE outcome = "forbidden"
      <4>1. ~MayPass(ctxUser) /\ ctxUser = Credential(AuthMode)
        BY <1>1, <3>4 DEF RequestInv
      <4> QED
        BY <3>1, <3>2, <3>4, <4>1
    <3>5. CASE outcome \in {"unauthorized", "login"}
      BY <1>1, <3>1, <3>5 DEF RequestInv
    <3> QED
      BY <2>1, <2>4, <3>3, <3>4, <3>5 DEF RequestTypeOK
  <2> QED
    BY <2>3, <2>4 DEF RoutesAreAsConfigured
<1> QED
  BY <1>1, RequestInvariance, PTL

\* The configurations of NewWebserver, as AddRoute finds them.
LEMMA ConfiguredAsDocumented ==
    ASSUME route \in RouteTable
    PROVE  /\ AuthMode = (IF route[1] \in Public THEN "skip"
                            ELSE IF route[1] \in Feeds THEN "basic" ELSE "session")
           /\ Required = (IF route[1] \in Public THEN -1 ELSE DocumentedLevel(route[1]))
<1> USE DEF skipAuth, useBasicAuth, Require
<1>1. ASSUME NEW l, route[2] = <<Require(l)>>
      PROVE  AuthMode = "session" /\ Required = l
  BY <1>1 DEF AuthMode, Required, ConfigOf, IsConfigOf, NoConfig
<1>2. ASSUME NEW l, NEW a \in {skipAuth, useBasicAuth}, route[2] = <<a, Require(l)>>
      PROVE  AuthMode = a.mode /\ Required = l
  BY <1>2 DEF AuthMode, Required, ConfigOf, IsConfigOf, NoConfig
<1> QED
  BY <1>1, <1>2 DEF RouteTable, Public, Feeds, DocumentedLevel, AccessLevel

\* Every answer the web server gives is the one the documentation promises the
\* user of the request: the levels of the route table are the documented ones,
\* and a request gets to its handler exactly if its user has that level.
THEOREM AccessMatchesDocumentation == RequestSpec => []AccessIsAsDocumented
<1>1. ASSUME RequestInv PROVE AccessIsAsDocumented
  <2> DEFINE handler == route[1]
             has == IF handler \in Feeds THEN request.basic ELSE request.session
  <2> SUFFICES ASSUME outcome # "open", route \in RouteTable
               PROVE  outcome = "handled" <=>
                        \/ handler \in Public
                        \/ has # Nobody /\ has >= DocumentedLevel(handler)
    BY DEF AccessIsAsDocumented
  <2>1. /\ AuthMode = (IF handler \in Public THEN "skip"
                         ELSE IF handler \in Feeds THEN "basic" ELSE "session")
        /\ Required = (IF handler \in Public THEN -1 ELSE DocumentedLevel(handler))
    BY ConfiguredAsDocumented
  <2>2. DocumentedLevel(handler) \in 1 .. 3
    BY DEF DocumentedLevel, AccessLevel
  <2>3. CASE handler \in Public
    <3>1. MayPass(ctxUser)
      BY <2>1, <2>3 DEF MayPass, AccessLevel
    <3> QED
      BY <1>1, <2>1, <2>3, <3>1 DEF RequestInv, RequestTypeOK
  <2>4. CASE handler \notin Public
    <3>1. Credential(AuthMode) = has
      BY <2>1, <2>4 DEF Credential
    <3>2. MayPass(has) <=> has # Nobody /\ has >= DocumentedLevel(handler)
      BY <2>1, <2>2, <2>4 DEF MayPass, AccessLevel
    <3> QED
      BY <1>1, <2>1, <2>4, <3>1, <3>2 DEF RequestInv, RequestTypeOK
  <2> QED
    BY <2>3, <2>4
<1> QED
  BY <1>1, RequestInvariance, PTL
=============================================================================
