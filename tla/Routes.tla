------------------------------- MODULE Routes -------------------------------
(***************************************************************************)
(* The route table of pkg/webserver and the way of a request through the   *)
(* middlewares AddRoute wraps around every handler                         *)
(* (AuthenticationMiddleware and AccessControlMiddleware of pkg/auth).     *)
(* Each middleware calls the next one, or answers the request itself.      *)
(* Sessions are the subject of the module Sessions: here a request comes   *)
(* with a valid one or without.                                            *)
(***************************************************************************)
EXTENDS Integers, Sequences

CONSTANTS
    Nobody,         \* nil: no user
    MaxConfigs      \* bound on the configurations a route is given

AccessLevel == [None |-> -1, ReadOnly |-> 1, ManagePodcasts |-> 2, Admin |-> 3]

ASSUME RoutesAssumption == Nobody \notin -1 .. 3 /\ MaxConfigs \in Nat

\* Configurations: AuthenticationMiddlewareConfig has a mode,
\* AccessControlMiddlewareConfig a RequiredAccessLevel.
skipAuth == [of |-> "authentication", mode |-> "skip", level |-> 0]
useBasicAuth == [of |-> "authentication", mode |-> "basic", level |-> 0]
Require(l) == [of |-> "access", mode |-> "session", level |-> l]
NoConfig == [of |-> "none", mode |-> "session", level |-> 0]

\* NewWebserver: the handlers and the configurations of their routes.  Routes
\* that differ in nothing else are one entry.
RouteTable ==
    {<<"asset", <<skipAuth, Require(AccessLevel.None)>>>>,
     <<"loginPage", <<skipAuth, Require(AccessLevel.None)>>>>,
     <<"login", <<skipAuth, Require(AccessLevel.None)>>>>,
     <<"logout", <<skipAuth, Require(AccessLevel.None)>>>>,
     <<"home", <<Require(AccessLevel.ReadOnly)>>>>,
     <<"ownPassword", <<Require(AccessLevel.ReadOnly)>>>>,
     <<"listUsers", <<Require(AccessLevel.Admin)>>>>,
     <<"createUser", <<Require(AccessLevel.Admin)>>>>,
     <<"editUser", <<Require(AccessLevel.Admin)>>>>,
     <<"updateUser", <<Require(AccessLevel.Admin)>>>>,
     <<"updatePassword", <<Require(AccessLevel.Admin)>>>>,
     <<"deleteUser", <<Require(AccessLevel.Admin)>>>>,
     <<"viewPodcast", <<Require(AccessLevel.ReadOnly)>>>>,
     <<"searchPodcasts", <<Require(AccessLevel.ManagePodcasts)>>>>,
     <<"addPodcast", <<Require(AccessLevel.ManagePodcasts)>>>>,
     <<"image", <<Require(AccessLevel.ReadOnly)>>>>,
     <<"viewEpisode", <<Require(AccessLevel.ReadOnly)>>>>,
     <<"download", <<Require(AccessLevel.ReadOnly)>>>>,
     <<"requeueDownload", <<Require(AccessLevel.ManagePodcasts)>>>>,
     <<"feed", <<useBasicAuth, Require(AccessLevel.ReadOnly)>>>>,
     <<"feedImage", <<useBasicAuth, Require(AccessLevel.ReadOnly)>>>>,
     <<"feedDownload", <<useBasicAuth, Require(AccessLevel.ReadOnly)>>>>}

\* Routes as a later version might add them, with any configurations.
Configs == {skipAuth, useBasicAuth} \cup {Require(l) : l \in -1 .. 3}
OtherRoutes == {"other"} \X UNION {[1 .. n -> Configs] : n \in 0 .. MaxConfigs}

\* A request: the access level of the user of its session (0 for the zero User
\* of a session whose user is deleted) and of the user its credentials are for,
\* and whether it was sent by HTMX.
HTTPRequests ==
    [session : {Nobody} \cup 0 .. 3, basic : {Nobody} \cup 1 .. 3, htmx : BOOLEAN]

VARIABLES
    route,      \* <<handler, configurations>>
    request,
    at,         \* the middleware whose turn it is
    ctxUser,    \* access level of the user in the request's context
    outcome     \* "open" until the request is answered

requestVars == <<route, request, at, ctxUser, outcome>>

RequestTypeOK ==
    /\ route \in RouteTable \cup OtherRoutes
    /\ request \in HTTPRequests
    /\ at \in 1 .. 3
    /\ ctxUser \in {Nobody} \cup 0 .. 3
    /\ outcome \in {"open", "handled", "forbidden", "unauthorized", "login"}

RequestInit ==
    /\ route \in RouteTable \cup OtherRoutes
    /\ request \in HTTPRequests
    /\ at = 1
    /\ ctxUser = Nobody
    /\ outcome = "open"

\* AddRoute: a middleware gets the first configuration that is its own.
IsConfigOf(mw, configs, n) ==
    configs[n].of = mw /\ \A m \in 1 .. (n - 1) : configs[m].of # mw
ConfigOf(mw, configs) ==
    IF \E n \in DOMAIN configs : IsConfigOf(mw, configs, n)
    THEN configs[CHOOSE n \in DOMAIN configs : IsConfigOf(mw, configs, n)]
    ELSE NoConfig

-----------------------------------------------------------------------------
\* Mutant of Middlewares: they are not reversed before they are wrapped.
MiddlewaresReversed == <<"access", "authentication">>

\* SetServerMiddlewares, in the order in which AddRoute has them executed.
Middlewares == <<"authentication", "access">>

Turn(mw) == outcome = "open" /\ at \in DOMAIN Middlewares /\ Middlewares[at] = mw

\* The middleware calls the next one, or returns without.
CallNext ==
    /\ at' = at + 1
    /\ UNCHANGED <<route, request, outcome>>

Refuse(how) ==
    /\ outcome' = how
    /\ UNCHANGED <<route, request, at, ctxUser>>

\* AuthenticationMiddleware, with handleHTTPBasicAuth and unauthResponse.
AuthMode == ConfigOf("authentication", route[2]).mode

SkipAuthentication ==
    /\ Turn("authentication")
    /\ AuthMode = "skip"
    /\ CallNext
    /\ UNCHANGED ctxUser

Authenticate(user) ==
    /\ user # Nobody
    /\ ctxUser' = user
    /\ CallNext

handleHTTPBasicAuth ==
    /\ Turn("authentication")
    /\ AuthMode = "basic"
    /\ \/ Authenticate(request.basic)
       \/ request.basic = Nobody /\ Refuse("unauthorized")

UseSession ==
    /\ Turn("authentication")
    /\ AuthMode = "session"
    /\ \/ Authenticate(request.session)
       \/ request.session = Nobody /\ Refuse(IF request.htmx THEN "unauthorized" ELSE "login")

\* AccessControlMiddleware: "all endpoints must define an access level".
Required == ConfigOf("access", route[2]).level

\* Mutant of MayPass: a route without a level is open to every user.
MayPassByDefault(user) ==
    \/ Required \in {0, AccessLevel.None}
    \/ user # Nobody /\ user >= Required

MayPass(user) ==
    /\ Required # 0
    /\ \/ Required = AccessLevel.None
       \/ user # Nobody /\ user >= Required

AccessControl ==
    /\ Turn("access")
    /\ \/ MayPass(ctxUser) /\ CallNext /\ UNCHANGED ctxUser
       \/ ~MayPass(ctxUser) /\ Refuse("forbidden")

\* The handler runs.
Handle ==
    /\ outcome = "open"
    /\ at = Len(Middlewares) + 1
    /\ outcome' = "handled"
    /\ UNCHANGED <<route, request, at, ctxUser>>

\* The next request; requests share nothing.
Arrive ==
    /\ outcome # "open"
    /\ route' \in RouteTable \cup OtherRoutes
    /\ request' \in HTTPRequests
    /\ at' = 1
    /\ ctxUser' = Nobody
    /\ outcome' = "open"

RequestNext ==
    \/ SkipAuthentication \/ handleHTTPBasicAuth \/ UseSession
    \/ AccessControl \/ Handle \/ Arrive

RequestSpec == RequestInit /\ [][RequestNext]_requestVars
-----------------------------------------------------------------------------
Feeds == {"feed", "feedImage", "feedDownload"}
Public == {"asset", "loginPage", "login", "logout"}

\* docs/usage/managing-users.md: the level a user needs.
DocumentedLevel(handler) ==
    CASE handler \in {"searchPodcasts", "addPodcast", "requeueDownload"} ->
           AccessLevel.ManagePodcasts
      [] handler \in {"listUsers", "createUser", "editUser", "updateUser",
                      "updatePassword", "deleteUser"} -> AccessLevel.Admin
      [] OTHER -> AccessLevel.ReadOnly

\* Users can do what the documentation says for their access level, and no more:
\* read-only users browse, listen and change their own password, others manage
\* podcasts, administrators manage users, and feeds are open to all users by
\* HTTP basic authentication (a session does not help there, nor does basic
\* authentication elsewhere).
AccessIsAsDocumented ==
    LET handler == route[1]
        level == IF handler \in Feeds THEN request.basic ELSE request.session
    IN  outcome # "open" /\ route \in RouteTable =>
            (outcome = "handled" <=>
                handler \in Public \/ (level # Nobody /\ level >= DocumentedLevel(handler)))

\* The configurations a route lists, and whether they are all for different
\* middlewares; their order is left out.
Listed == {route[2][n] : n \in DOMAIN route[2]}
Unambiguous == \A m, n \in DOMAIN route[2] : m # n => route[2][m].of # route[2][n].of

\* Whom the request comes from, for a route that lists these.
Requester ==
    IF skipAuth \in Listed THEN Nobody
    ELSE IF useBasicAuth \in Listed THEN request.basic ELSE request.session

\* The levels a route can ask for: 0 is none of them.
RouteLevels == {-1, 1, 2, 3}
Grants(level, user) == level = AccessLevel.None \/ (user # Nobody /\ user >= level)

\* A route does what its configurations say in whatever order they are listed: a
\* handler runs exactly when the requester is authenticated, unless that is
\* skipped, and has the level that is listed.  A route that lists no level is
\* closed to everybody, also when authentication is skipped.  When several are
\* listed, the handler runs for somebody who has one of them.
RoutesAreAsConfigured ==
    /\ outcome = "handled" =>
        \E level \in RouteLevels, user \in {request.session, request.basic} :
            Require(level) \in Listed /\ Grants(level, user)
    /\ outcome # "open" /\ Unambiguous =>
        (outcome = "handled" <=>
            /\ skipAuth \in Listed \/ Requester # Nobody
            /\ \E level \in RouteLevels : Require(level) \in Listed /\ Grants(level, Requester))
=============================================================================
