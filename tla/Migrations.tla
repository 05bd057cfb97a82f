----------------------------- MODULE Migrations -----------------------------
(***************************************************************************)
(* pkg/database: every process that opens the database, the server and     *)
(* each command, first brings its schema up to date (migrate, called by    *)
(* ConfigureDatabase).  The documentation has commands run beside a server *)
(* that may be starting for the first time ("docker exec ... users         *)
(* create"), so several processes may be in migrate at once.               *)
(*                                                                         *)
(* The list of applied migrations is read once, before the transactions    *)
(* that apply the missing ones; a transaction takes effect as a whole or   *)
(* not at all.  A process whose migration fails ends, and may be started   *)
(* again.                                                                  *)
(*                                                                         *)
(* Of the schema the model keeps whether the podcasts table has the column *)
(* for credentials, of the data the users with their access levels.        *)
(***************************************************************************)
EXTENDS Naturals, Sequences

CONSTANTS
    Processes,      \* the server and the commands
    Users,          \* users that may exist
    OldUsers,       \* those who exist in a database of an earlier release
    Releases,       \* releases that may have written the database last
    GivenLevels,    \* access levels handed out
    MaxCrashes      \* bound on processes killed

allMigrations == <<"001-init", "002-add-podcast-credentials">>
Names == {allMigrations[k] : k \in 1 .. Len(allMigrations)}

\* AccessLevelReadOnly .. AccessLevelAdmin; 0 is the column's value before 001.
Admin == 3
Levels == 1 .. Admin

ASSUME MigrationsAssumption ==
    /\ OldUsers \subseteq Users
    /\ Releases \subseteq {"none", "beforeLevels", "beforeCredentials", "current"}
    /\ GivenLevels \subseteq Levels
    /\ MaxCrashes \in Nat

VARIABLES
    bookkeeping,    \* whether the table applied_migrations exists
    applied,        \* its rows
    credentials,    \* whether the podcasts table has the column encrypted_data
    exists,         \* users with a row
    level,          \* their access_level
    assigned,       \* history: the level a user was given explicitly, or 0
    mpc,            \* where the process is in migrate
    known,          \* appliedMigrations, the list it has read
    index,          \* the migration it is at
    crashes         \* processes killed so far

database == <<bookkeeping, applied, credentials, exists, level>>
migrating == <<mpc, known, index>>
vars == <<database, assigned, migrating, crashes>>

TypeOK ==
    /\ bookkeeping \in BOOLEAN
    /\ applied \subseteq Names
    /\ credentials \in BOOLEAN
    /\ exists \subseteq Users
    /\ level \in [Users -> Levels \cup {0}]
    /\ assigned \in [Users -> Levels \cup {0}]
    /\ mpc \in [Processes -> {"down", "hasTable", "createTable", "list", "migrate", "open"}]
    /\ known \in [Processes -> SUBSET Names]
    /\ index \in [Processes -> 1 .. Len(allMigrations) + 1]
    /\ crashes \in 0 .. MaxCrashes

\* The database as release r left it: no file yet; from before access levels
\* and the table applied_migrations; from before podcast credentials; of now.
LeftBy(r) ==
    /\ bookkeeping = (r \in {"beforeCredentials", "current"})
    /\ applied = CASE r = "current" -> Names
                   [] r = "beforeCredentials" -> {allMigrations[1]}
                   [] OTHER -> {}
    /\ credentials = (r = "current")
    /\ exists = IF r = "none" THEN {} ELSE OldUsers
    /\ level \in [Users -> Levels \cup {0}]
    /\ \A u \in Users : level[u] # 0 <=> u \in exists /\ r # "beforeLevels"
    /\ assigned = level

Init ==
    /\ \E r \in Releases : LeftBy(r)
    /\ mpc = [p \in Processes |-> "down"]
    /\ known = [p \in Processes |-> {}]
    /\ index = [p \in Processes |-> 1]
    /\ crashes = 0

-----------------------------------------------------------------------------
GoTo(p, place) == mpc[p] # place /\ mpc' = [mpc EXCEPT ![p] = place]

\* ConfigureDatabase is called.
Open(p) ==
    /\ mpc[p] = "down"
    /\ GoTo(p, "hasTable")
    /\ UNCHANGED <<database, assigned, known, index, crashes>>

\* AutoMigrate(&appliedMigration{}), which is in no transaction, looks for the
\* table ...
HasTable(p) ==
    /\ mpc[p] = "hasTable"
    /\ GoTo(p, IF bookkeeping THEN "list" ELSE "createTable")
    /\ UNCHANGED <<database, assigned, known, index, crashes>>

\* ... and creates it, if it is still missing.
CreateTable(p) ==
    /\ mpc[p] = "createTable"
    /\ ~bookkeeping
    /\ bookkeeping' = TRUE
    /\ GoTo(p, "list")
    /\ UNCHANGED <<applied, credentials, exists, level, assigned, known, index, crashes>>

\* Mutant of listAppliedMigrations: an error is taken for an empty list.
ListNothing(p) ==
    /\ mpc[p] = "list"
    /\ GoTo(p, "migrate")
    /\ UNCHANGED <<database, assigned, known, index, crashes>>

\* The names of all rows.
listAppliedMigrations(p) ==
    /\ mpc[p] = "list"
    /\ GoTo(p, "migrate")
    /\ known' = [known EXCEPT ![p] = applied]
    /\ index' = [index EXCEPT ![p] = 1]
    /\ UNCHANGED <<database, assigned, crashes>>

AtMigration(p, m) ==
    /\ mpc[p] = "migrate"
    /\ index[p] \in 1 .. Len(allMigrations)
    /\ m = allMigrations[index[p]]

NextMigration(p) == index' = [index EXCEPT ![p] = @ + 1] /\ UNCHANGED <<mpc, known>>

\* Mutant of Skip: a migration is skipped when any has been applied.
SkipOlder(p, m) ==
    /\ AtMigration(p, m)
    /\ known[p] # {}
    /\ NextMigration(p)
    /\ UNCHANGED <<database, assigned, crashes>>

\* A migration of the list that was read is not applied again.
Skip(p, m) ==
    /\ AtMigration(p, m)
    /\ m \in known[p]
    /\ NextMigration(p)
    /\ UNCHANGED <<database, assigned, crashes>>

\* Mutant of Recorded: the row is inserted with ON CONFLICT DO NOTHING.
RecordedOrKept(m) == applied' = applied \cup {m}

\* tx.Create(&appliedMigration{...}): the name is the primary key.
Recorded(m) == m \notin applied /\ applied' = applied \cup {m}

\* Migration001Init: AutoMigrate of all tables as they are now, so with the
\* column for credentials, and every user who exists becomes an administrator.
Migrate001 ==
    /\ credentials' = TRUE
    /\ level' = [u \in Users |-> IF u \in exists THEN Admin ELSE level[u]]
    /\ UNCHANGED <<bookkeeping, exists>>

\* Migration002AddPodcastCredentials: nothing to do when the column is there.
\* Otherwise it adds the columns EncryptedData, KeyVersion and Salt in turn, and
\* gorm's AddColumn returns an error for a name that is not a field of Podcast,
\* which KeyVersion and Salt are not: see CanMigrate.
Migrate002 == UNCHANGED <<bookkeeping, credentials, exists, level>>

CanMigrate(m) == m = "002-add-podcast-credentials" => credentials

Migrate(m) == CanMigrate(m) /\ (IF m = "001-init" THEN Migrate001 ELSE Migrate002)

\* The transaction of one migration.
Apply(p, m) ==
    /\ AtMigration(p, m)
    /\ m \notin known[p]
    /\ Migrate(m)
    /\ Recorded(m)
    /\ NextMigration(p)
    /\ UNCHANGED <<assigned, crashes>>

\* The process ends, by itself or not, and its memory with it.
Ended(p) ==
    /\ GoTo(p, "down")
    /\ known' = [known EXCEPT ![p] = {}]
    /\ index' = [index EXCEPT ![p] = 1]
    /\ UNCHANGED <<database, assigned>>

\* It is rolled back, because Migrate or Create fails, or CREATE TABLE does:
\* the process ends (log.Fatalf).  One that loses the lock to a transaction that
\* has not committed yet fails as well; started again, it reads the same list.
MigrateFails(p) ==
    /\ \/ mpc[p] = "createTable" /\ bookkeeping
       \/ \E m \in Names \ known[p] :
             AtMigration(p, m) /\ (m \in applied \/ ~CanMigrate(m))
    /\ Ended(p)
    /\ UNCHANGED crashes

\* ConfigureDatabase returns the database.
Opened(p) ==
    /\ mpc[p] = "migrate"
    /\ index[p] > Len(allMigrations)
    /\ GoTo(p, "open")
    /\ known' = [known EXCEPT ![p] = {}]
    /\ index' = [index EXCEPT ![p] = 1]
    /\ UNCHANGED <<database, assigned, crashes>>

\* What a process may do then: give a user an access level (see module Users).
AssignLevel(p, u, l) ==
    /\ mpc[p] = "open"
    /\ exists' = exists \cup {u}
    /\ level' = [level EXCEPT ![u] = l]
    /\ assigned' = [assigned EXCEPT ![u] = l]
    /\ UNCHANGED <<bookkeeping, applied, credentials, migrating, crashes>>

\* A command ends; the server goes on (see module Server).
CommandEnds(p) ==
    /\ p # "server"
    /\ mpc[p] = "open"
    /\ Ended(p)
    /\ UNCHANGED crashes

Killed(p) ==
    /\ crashes < MaxCrashes
    /\ Ended(p)
    /\ crashes' = crashes + 1

Step(p) ==
    \/ HasTable(p) \/ CreateTable(p) \/ listAppliedMigrations(p)
    \/ \E m \in Names : Skip(p, m) \/ Apply(p, m)
    \/ MigrateFails(p) \/ Opened(p)

Next ==
    \E p \in Processes :
        \/ Open(p) \/ Step(p)
        \/ \E u \in Users, l \in GivenLevels : AssignLevel(p, u, l)
        \/ CommandEnds(p) \/ Killed(p)

Spec == Init /\ [][Next]_vars

\* A process keeps running; the server is started again when it has ended (docs/
\* getting-started/installation.md: "restart: unless-stopped"), and a command
\* that failed is tried again.
Fairness == \A p \in Processes : WF_vars(Open(p)) /\ WF_vars(Step(p))

FairSpec == Spec /\ Fairness
-----------------------------------------------------------------------------
\* A process that has opened the database finds the schema it was built for:
\* every migration is applied and the column is there.
SchemaIsCurrent ==
    \A p \in Processes : mpc[p] = "open" => applied = Names /\ credentials

\* "if users exist at this point, they should be made Admins ... Any users
\* created after this migration being run will be explicitly assigned an access
\* level": once 001 is recorded, the users from before it are administrators and
\* all others have the level they were given, also when a second process that
\* read the list of migrations earlier tries to apply 001 after them.
LevelsAsAssigned ==
    "001-init" \in applied =>
        \A u \in exists : level[u] = IF assigned[u] = 0 THEN Admin ELSE assigned[u]

\* "CastKeeper automatically updates the database schema when the application
\* starts": a process that opens the database gets it in the end, though others
\* migrate at the same time and it may have to be started again.
DatabaseOpens == \A p \in Processes : mpc[p] = "hasTable" ~> mpc[p] = "open"
=============================================================================
