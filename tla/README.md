# CastKeeper: TLA+ specifications and proofs

CastKeeper archives podcasts: it subscribes to feeds, downloads every episode to
local disk or S3, and serves its own feeds of what it has. It is one Go process
(`cmd/serve`) with a SQLite database, plus command-line tools that open the same
database. This directory models its core: the task queue, the scheduler, the
feed worker, the download worker with its storage drivers, the administration
of users and sessions, schema migrations, the data key, the life of the server
process, the parsing of feed items and the way of a request to its handler.

Run a model with `tlc -config MCQueue.cfg MCQueue`, check a proof with
`tlapm QueueProofs.tla`. `PROJECT.json` lists the runs, the mutants that show
each property can fail, the source lines of every definition, the hazards and
the findings.

## 1. The system

| Component | State it keeps | Operations | Talks to |
|---|---|---|---|
| Queue (`pkg/framework/queue.go`) | table `queue_tasks` | push, pop, complete, return; one `QueueWorker` loop per queue name | everything that pushes; the handlers |
| Scheduler (`pkg/framework/scheduler.go`) | table `scheduled_task_states`; ticker | `setupState`, `processTask` | pushes to the feed and housekeeping queues |
| Feed worker (`pkg/feedworker`) | tables `podcasts` (`last_checked_at`), `episodes` | check every podcast, create new episodes | `ParseFeed`; pushes to the download queue |
| Download worker (`pkg/downloadworker`) | `episodes.status`, objects in storage | download one episode | object storage, the publisher's server |
| Object storage (`pkg/objectstorage`) | files or S3 objects | `SaveRemoteFile`, `ServeFile` | disk, S3 |
| Podcasts (`pkg/podcasts`) | rows of podcasts and episodes | add, list, status, generate a feed | publisher's feeds |
| Users (`pkg/auth/users`, handlers, `cmd/*user`, `cmd/changepassword`) | table `users` | create, edit, password, delete | web handlers and commands, concurrently |
| Sessions (`pkg/auth`, `pkg/auth/sessions`) | table `sessions` | login, authenticate, authorise, logout, housekeeping | users |
| Encryption (`pkg/database/encryption`) | `dek.json` | create or load the data key, encrypt, decrypt | podcast credentials |
| Migrations (`pkg/database`) | table `applied_migrations` | apply at start | every process that opens the database |
| Web server, pages, iTunes search, configuration, logging | none of their own | | |

What makes it hard: workers and web requests interleave on shared rows; tasks
are delivered more than once; handlers hold copies of rows while they work for
minutes; the process may end at any step (one failing goroutine ends the whole
process, `cmd/serve/serve.go` 66-115); a publisher changes or removes what it
serves; gorm's `Save` writes all columns and revives deleted rows; commands open
a database the server is still migrating; the key file is written in steps.

What makes each component correct: the queue loses no work, bounds and spaces
its retries and never reopens a finished task; the scheduler is neither early
nor late; the feed worker passes no episode over; the download worker archives
every episode, lists only whole files and leaves archived files alone; an edit
of a user stays, a delete is final, an administrator remains; an ended session
does not come back; a migration takes effect once and overwrites no access
level; a stored credential stays readable; a failing part of the server ends all
of them in order; a request reaches a handler only at the level its route needs.

## 2. Modules

| Module | Models | Extends / instances |
|---|---|---|
| `TaskLedger` | what users of the queue rely on (abstract) | |
| `Queue` | `queue.go` | implements `TaskLedger` |
| `Download` | download handler, both `SaveRemoteFile`, requeue | instance of `Queue` |
| `FeedWorker` | feed handler, `processPodcast`, adding podcasts | |
| `Scheduler` | `scheduler.go` | |
| `Users` | `user.go`, its web handlers and commands | |
| `Sessions` | `session.go`, login, logout, middlewares | |
| `Migrations` | `migrations.go`, both migrations | |
| `DataKey` | `encryption/config.go`, adding podcasts with credentials | |
| `Server` | `serve.go`, the `Start` loops, `Shutdown` | extends `DataKey` |
| `FeedItems` | `feed.go`, `Episode.BeforeSave`, MIME types (operators) | |
| `FeedParsing` | an item on its way through `episodesFromFeed` and `BeforeSave` | extends `FeedItems` |
| `Routes` | route table, `AddRoute`, a request on its way through both middlewares | |
| `QueueProofs`, `SchedulerProofs`, `UsersProofs`, `MigrationsProofs` | theorems about the module of that name | extend it and TLAPS |
| `DownloadProofs` | theorems about `Download`, and that it implements `Queue` | extends `Download`, instance of `QueueProofs` |
| `SessionsProofs` | theorems about `Sessions` and `Routes` | extends both and TLAPS |
| `FeedWorkerProofs` | theorems about `FeedWorker` and `FeedParsing` | extends both and TLAPS |
| `ServerProofs` | theorems about `Server` and `DataKey` | extends `Server` |
| `MC*` | small instances for TLC; `MCFeedWorker` joins `FeedWorker` and `FeedItems`, `MCInputs` joins `Routes` and `FeedParsing` | extend their modules |

An action is named after the function it models; where a function makes several
calls to the database or the network, each call is an action, because other
processes run in between. A call in a transaction is one action. Every call may
also fail without effect; where the code then does something other than trying
again, that is an action of its own (`SettleFails`, `LookupFails`, `CreateFails`,
...). Operators called a *mutant* in a comment are plausible bugs of the
definition that follows them; no specification uses them.

### Queue

The columns of `queue_tasks` are functions of the row's id; ids are in order of
creation, so "oldest" is "smallest". `hiddenFor` is `visible_after - now`, which
keeps time finite. `pc[q]` is the place in the loop of `QueueWorker.Start` of the
one worker of queue `q` (`serve.go` starts one per queue), `qt[q]` its copy of
the row. `Save` is gorm's: update the live row, else upsert, which clears
`deleted_at`; it is external and is why `CopyIsCurrent` matters. A restart
forgets `pc` and `qt`. `deliveries`, `succeeded` and `sinceReceive` are history.

### Download

The queue's variables and actions come from `Q == INSTANCE Queue`; a run of the
handler is the path `lookup -> open -> fetch -> markSuccess | markFailed`, with an
exit for every error return. The local driver truncates the target in `open`
(`Root.Create`), S3 replaces an object in one step at the end of the upload;
`driver` is chosen at the start and stays. `bytes` is the file whose size the
episode's row holds; S3's is the response's `ContentLength`, which may be -1
("unknown").
`remote` is what the publisher serves, which may change once. A requeue is
possible in every status, as in the handler (only the page hides the link).

### FeedWorker

A run goes through the podcasts in any order (the query has none), fetches, then
handles the items oldest first. `owner[g]` stands for the episode row with GUID
`g` and its download task, which one transaction writes. GUIDs are derived from
the feed: of an item by `episodeGUID`, of a podcast by `feedGUID`, again at each
fetch; the publisher may change what the latter is derived from
(`ChangeFeedGUID`). Foreign keys are not enforced by the SQLite driver's default,
so the row is inserted whatever its `podcast_guid`. Which items are skipped
(`Parseable`) and which are refused by the database (`Valid`) is computed in
`MCFeedWorker` from their contents with the operators of `FeedItems`.

### Scheduler

Time runs while the scheduler works, up to `MaxLag` per round, so that the moment
of `LastRunTime` and the phase of the ticker drift apart. The ticker holds one
tick. `gap` is the time since a task was last pushed (or failed to be, or the
process started), `sincePush` survives restarts.

### Users, Sessions

`Users`: a client is a request or a command; it is authorised, then calls
`pkg/auth/users`, which reads (`GetUserByID`) and writes (`Save`, `Delete`) in
separate calls. All of them overlap, as the code lets them. What an administrator
may expect depends on how far calls happen to keep apart, and two history
variables record it: `crossed`, the users on whom two calls have been between read
and write at once (`Crossing`), and `raced`, whether two calls that delete or
demote someone have been under way at once (`Racing`). They restrict no step.

`Sessions`: a request reads its session with the user, updates
`last_seen_time`, and is checked for its access level.

### Migrations

`mpc[p]` is where process `p` is in `migrate`. Looking for the table
`applied_migrations`, creating it and reading it (`known`) are calls outside any
transaction; the transaction of a migration is the one action `Apply`, guarded
by the primary key of the table. A process that meets an error ends and is
started again. `Init` is a database as each release left it: none, one from
before access levels, one from before podcast credentials, a current one.
Migration 002 returns an error whenever its column is missing, because it names
two fields `Podcast` does not have (`CanMigrate`). `assigned` is history.

### DataKey, Server

`DataKey` is `ConfigureEncryptedValueService` call by call: `Stat`, `Root.Create`
(the file is empty), `handle.Write`, `f.Sync`, or `keyset.Read`. `synced` says
whether the file would survive a power failure; `hasty` is history, set when a
key is loaded from a file that a killed process wrote and did not sync. The
secret may change while the server is down. `Server` adds the errgroup: each
part is its loop, with the places where it looks at the context; the first error
(`failure`) cancels the others, `Wait` ends the process. `late` counts what a
worker pops after that, `active` the requests being served.

### FeedItems, FeedParsing, Routes

`FeedItems` is operators. A text is its length, a duration the sequence of its
parts with form, width and value, so that what `time.Parse` and `strconv.Atoi`
accept is kept. `FeedParsing` takes one item after the other through them: read,
skipped or made an episode (`episodesFromFeed`), saved or refused
(`BeforeSave`). The outcome is compared with `Seconds` (what a duration means) and
with the causes `ItemsBlockForCause` lists.

`Routes` takes one request after the other through the middlewares, in the order
`AddRoute` executes them; each looks up its configuration, and calls the next or
answers. Beside the routes of `NewWebserver` there are `OtherRoutes`, with any
configurations in any order, because `AddRoute` accepts them. Access is compared
with `DocumentedLevel` (`docs/usage/managing-users.md`).

## 3. Runs

| Run | Shows | Bounds and why they are enough |
|---|---|---|
| `queue` | `TypeOK`, `CopyIsCurrent`, `DeletedOnlyAfterSuccess`, `DeliveriesBounded`, `RetriesAreSpaced`, `ImplementsLedger`, `EveryTaskSettles` | 2 queues, 2 tasks, so that both workers hold a task at once or an older task competes with a newer one; maxReceives 1 (two deliveries), timeout 5 above the backoffs 2 and 4: a redelivery happens after either |
| `download` | `TypeOK`, `UnfinishedHasTask`, `GivenUpOnlyAfterFaults`, `SettledSizeIsRight`, `CopiesChangeOnlyByRedelivery`, `EveryEpisodeIsArchived` for both drivers; `FeedServesWholeFiles` for S3 | 2 episodes, 2 tasks (two episodes, or one and a requeue), maxReceives 2, at most 2 faults (failures or restarts) at any step, 113 000 states. A third task (two episodes and a requeue) was checked by hand: 1.1 million states, no error |
| `feed` | `TypeOK`, `CheckedMeansComplete`, `NoGaps`, `UnobstructedItemsArrive` | 2 feeds, 6 items: an unreadable one, a repeated GUID, a refused one, a feed whose GUID changes; 1 restart |
| `scheduler` | `NeverTooEarly`, `RunsOnTime`, `RunsForever` | intervals 3 and 7, poll 3, lag 2, 2 restarts; the bound of `RunsOnTime` is tight: with one unit less TLC finds a violation |
| `sessions` | `HandlersHaveUsers`, `EndedStaysEnded`, `ActiveSessionsKept`, `EverySessionEnds` | 1 session and 2 requests that share it, expiries 3 and 1, buffer 1, lag 1: sessions touch each other nowhere, so one is enough |
| `users` | `DeletionSettles` always; `EditsStick` for users not in `crossed`; `AdminRemains` while `crossed` is empty and not `raced` | 2 clients, 2 users: two administrators, or one and another user; 1.7 million states up to the symmetry of the clients. A third user is beyond TLC, the theorems hold for any number |
| `migrations` | `SchemaIsCurrent`, `LevelsAsAssigned`, `DatabaseOpens` | the server and a command, a user from before 001 and one from after, three kinds of database, 2 kills; 5 800 states |
| `serve` | `CredentialsSurvive`, `KeyIsFound`, `AtMostOneLatePop`, `RequestsDrained`, `PartsEndTogether` | 2 of the 3 workers (they do not differ here), 1 request at a time, 2 secrets and none, 2 keys (so that a key could be replaced), 1 podcast, 2 crashes, so that a kill may be followed by a power failure; 184 000 states |
| `inputs` | `AccessIsAsDocumented`, `RoutesAreAsConfigured`; `DurationsAreExact`, `ItemsBlockForCause` | requests: every route with every level, session, basic and htmx; every list of up to two configurations, so that one repeats or precedes the other. Items: values around each limit in the code (24 hours, 60, two digits, 500, 1000, 10000, the largest int). The two share nothing, so a behaviour is about one or the other; 25 000 states |

Runs that TLC refutes, each a disagreement of the code with its documentation
(details in `PROJECT.json`, "findings"):

- `download_local_loss`: an archived copy does not stay as it is
  (`ArchivedCopySurvives`). A redelivery of its task truncates the archived file
  before the request is sent. With `Drivers = {"awss3"}` TLC refutes the same
  property by a redelivery that replaces the original by the publisher's edited
  file. What does hold, with either driver, is `CopiesChangeOnlyByRedelivery`:
  nothing but another download of the same episode touches the copy.
- `users_delete_race`: an overlapping `Save` revives a deleted user.
- `upgrade`: on a database from before podcast credentials migration 002 fails at
  every start, and no process opens it.

The models show more that has no run of its own:

- an episode whose lookups fail more than maxReceives times is given up while
  `pending`, a status for which the page has no retry link (`Download`,
  `LookupFails`; `GivenUpOnlyAfterFaults` says that nothing less does this);
- a feed whose GUID changes files its next episode under a podcast that does not
  exist and is stopped there; so is a feed that shares an item GUID with another,
  or has an item with a negative duration (`FeedWorker`, `ItemsBlockForCause`);
- when calls on one user overlap, the same `Save` takes back what another call has
  edited (without the exception of `crossed`, TLC refutes `EditsStick`); when only
  calls on different users do, two administrators who demote each other leave
  none (without that of `raced`, TLC refutes `AdminRemains`);
- the row of a task that was given up stays in `queue_tasks` for ever, and every
  pop filters it (`Queue`, no action removes it);
- a server killed between `Write` and `Sync` of the key file uses the key at its
  next start without syncing it, and a power failure may then take the key with
  credentials in use (`CredentialsSurvive` excepts this history, `hasty`); one
  killed between `Create` and `Write` leaves a file at which every later start
  fails (`KeyIsFound` is about starts that find no file, or one made with the
  configured secret: those get their key unless they are killed);
- a web server that fails does not wait for the requests being served
  (`RequestsDrained` excepts it, and kills and power failures).

`docs/usage/managing-users.md` (line 18) says that users who manage podcasts can
"add, edit, and remove podcasts". There are routes to search for and add podcasts
and to requeue downloads, none to edit or remove a podcast; `DocumentedLevel` gives
the level of the routes there are.

Only `users` uses symmetry, of its clients, and it checks safety only. No run turns
deadlock checking off.

### Fairness

`Queue`, `Download`: weak fairness of each worker's loop (handlers return: the
HTTP clients have timeouts) and of time. No fairness on success: in
`EveryTaskSettles` handlers and writes may fail every time.
`EveryEpisodeIsArchived` bounds the number of faults by maxReceives instead.
`Scheduler`: the goroutine and time go on, and a transaction that is tried again
and again succeeds at some time (strong fairness of `PushTask`). `FeedWorker`:
runs are started again and again (the scheduler pushes every minute), a feed in
`Reliable` and a transaction that can succeed do so at some time. `Sessions`:
started requests go on, time passes. `Migrations`: each process goes on, and is
started again after it ended (`docs/getting-started/installation.md`: "restart:
unless-stopped"). `Server`: likewise, with weak fairness of every part's loop and
of answers to requests, and strong fairness of `SchedulerStops`, because a Go
`select` with two ready cases picks at random. Nothing forces a part to fail or
the process to be killed.

## 4. Proofs

`QueueProofs`, for every number of queues, tasks and every timeout:

- the inductive invariant is type correctness together with `CopyIsCurrent` and
  what ties history to the table: `deliveries = receiveCount`; a deleted or
  "completing" task has succeeded; a row that was delivered stays hidden for at
  least what is missing of its delay, unless its backoff has passed. Neither
  `DeletedOnlyAfterSuccess` nor the spacing is inductive alone: the first needs
  to know that a worker in "completing" got nil, both need that a worker's copy
  is the current row and that no two workers hold one row (which follows from
  `queue_name` being the worker's).
- `TypeCorrect`, `CopiesAreCurrent`, `NoTaskIsLost`, `RetriesAreBounded`,
  `RetrySpacing`, and `QueueImplementsLedger` (each step of `Queue` is a step of
  `TaskLedger` or leaves its variables alone).

`SchedulerProofs`, for every list of tasks, intervals, poll frequency and lag
below the poll frequency: `TypeCorrect`, `SchedulerIsOnTime` and
`SchedulerIsNeverEarly`. The invariant bounds the gap of a task in each phase:
not yet due, the gap is at most its age; due but dealt with in this round, it is
below the interval plus the time since the ticker fired; not yet dealt with,
below interval + poll frequency + lag. It needs that, while there is work,
the lag is the time since the last tick, and that `LastRunTime` and the actual
last push agree.

`DownloadProofs`, for any episodes, tasks, deliveries and faults and both
drivers: `TypeCorrect`, `WorkIsNotDropped`, `FeedIsServable`, `SizesAreRight`,
`CopiesAreLeftAlone`, `DeliveriesArePaidFor`, and the refinements
`DownloadImplementsQueue` and `DownloadImplementsLedger`.

- Every step of `Download` is a step of `Queue` or leaves the queue's variables
  alone, so the invariant of `QueueProofs` is cited, not proved again
  (`QP == INSTANCE QueueProofs`; its assumptions follow from
  `DownloadQueueAssumption`).
- On top of it `ArchiveInv` says that the handler is under way exactly while the
  loop waits for it; every task is for an episode with a row; the object is whole
  when the status is about to be written; and, the crux, `CompletionIsEarned`: a
  worker about to delete its task leaves its episode whole, with the right size,
  and in the feed *or with another live task*. The alternative is needed because
  a requeue may reset the status between the handler's return and
  `completeQueueTask`.
- `CopiesAreLeftAlone` (`CopiesChangeOnlyByRedelivery`) needs `DeliveryInv`: an
  episode in the feed was put there by a delivered task of its own, so a handler
  that works on an episode in the feed (`ArchivedBefore`) is at a second delivery
  of that task, or at a second task. That a requeue takes the episode out of the
  feed, and that rows not yet inserted have no episode, makes it inductive.
- `DeliveriesArePaidFor` is the safety half of `EveryEpisodeIsArchived`: until more
  than maxReceives faults have happened, no task is given up, so (with
  `WorkIsNotDropped`) an episode that is not archived has a delivery to come. Its
  invariant `FaultsPay`: a task was received no more often than there were faults,
  plus one while the worker holds it and nothing has gone wrong (`Owed`). It
  is about bounded faults (`BoundedFaults`), since only those are counted.

`FeedWorkerProofs`, for any podcasts and items and any GUIDs and ranks:
`TypeCorrect`, `ChecksAreComplete`, `EpisodesHaveNoGaps`. What was fetched is the
readable part of the feed up to some item (`FetchIsPrefix`), what the loop has
passed is in the table under the podcast (`DoneAreOwned`), and the list of
existing episodes stays right (`ExistingAreOwned`) because no row changes its
owner. `NoGaps` also needs that a row's GUID was published and that feeds grow in
order: otherwise a late item could appear below one that is archived. From the
same module, about `FeedParsing` and for items of any lengths and durations of any
parts: `DurationsAreExactOrUnknown` and `ItemsBlockOnlyForCause`. The invariant
(`ParsingInv`) is that the episode at hand is the one `EpisodeOf` makes of the item
at hand, which was `Parsed`.

`SessionsProofs`, for any sessions, users, requests and expiry times:
`TypeCorrect`, `HandlersAreForUsers`, `EndIsFinal`, `HousekeepingSparesActive`.
The last needs `ReadSessionsAreFresh`: a session a request has read, and not yet
written to, has expired by no more than the time since the read, which
`MaxLag <= TimeBuffer` (`timeBuffer`, an hour, in `DeleteExpiredSessions`)
keeps below the limit of the housekeeping. From the same
module, about `Routes` and for any number of configurations of a route:
`NoRouteIsOpenByDefault` and `AccessMatchesDocumentation`. `RequestInv` says what
holds at each middleware's turn: whom the request is authenticated for follows
from the route's mode, and a request past access control may pass it. For the
first theorem the configuration `AddRoute` finds for a middleware is shown to be
the listed one, wherever in the list it is (`ListedIsFound`, `FoundIsListed`).

`UsersProofs`, for any clients, users and interleavings of their calls:

- `TypeCorrect` and `DeletionsSettle`: a user is brought back only by a call that
  had read the row before the delete; after those the deletion is final;
- `DeletionIsFinal` and `EditsAreKept`, for every user not in `crossed`: calls on
  other users do no harm. The invariant `CopyInv` says that what was read of such
  a user is the row (`CopyIsCurrent`). For that to be inductive it also says that at
  most one call has read it (`CrossingsAreRecorded`);
- `AnAdminRemains`. The invariant `AdminInv` adds that while calls are kept apart
  some administrator is harmed by nothing under way (`SafeAdmin`): the acting one
  of the call that takes something away, because no one may delete or demote
  himself. "Some administrator" alone is not inductive, a call that was let
  through before may still take the role.

Each exception is needed: see `users_delete_race` and section 3.

`MigrationsProofs`, for any processes and users: `TypeCorrect`,
`OpenedIsCurrent`, `LevelsAreKept`. A process's list of applied migrations may be
out of date, but is never ahead of the table, everything before its index is
applied (`ListsAreBehind`), and nobody has a level before 001 is applied.

`ServerProofs`, for any workers, requests, podcasts, secrets and crashes:
`TypeCorrect`, `CredentialsAreSafe`, `WorkersStop`, `ShutdownDrains`,
`NoPartEndsAlone`. The invariant has two independent halves. `KeyInv`: which file
each step of `createDEK` has left, and that a key in use, or needed by a stored
credential, is synced. `GroupInv`: a worker that popped too late is handling,
about to look at the context, or gone; a part ends only once the context is
cancelled (`NoSilentEnd`, the safety half of `PartsEndTogether`); the web server
returns from `Shutdown` only after the last answer (`ReturnedIsDrained`). That
`Wait` ends the process only when every part has ended gives `ShutdownDrains`.

Assumptions are the named `ASSUME`s of the modules: types of the constants,
distinct names, `MaxLag < PollFrequency` (scheduler), `MaxLag <= TimeBuffer`
(sessions), backoffs are natural numbers (queue, downloads). TLC evaluates them in
every run. Each inductive invariant was checked by TLC on the instance of the
component's run before it was proved.

Only model-checked: the liveness properties (the prover has no fairness), that
is `EveryTaskSettles`, `EveryEpisodeIsArchived`, `UnobstructedItemsArrive`,
`RunsForever`, `EverySessionEnds`, `DatabaseOpens`, `KeyIsFound` and
`PartsEndTogether`. Every other property of a passing run is a theorem.

## 5. Not modelled, and abstractions

- Rendering, logging, configuration, response headers, error pages, matching of
  URL patterns, the iTunes search: no state that changes. The configuration
  enters as constants (`driver`, `config`).
- Podcast images, and handlers that only read.
- Ciphers and password hashes are library code: a key opens what it encrypted.
  Strength rules of passwords are a set of passwords.
- Contents of fields beyond what `FeedItems` tells apart.
- Clock jumps, SQLite's comparison of timestamps as text, and power loss that
  undoes committed transactions.
- Two servers started at once on one empty data directory (the documentation
  runs one), and the sync of the directory that holds `dek.json`.
- A publisher adds items in order of publication and does not withdraw them.

## 6. Plan

Done: `Queue` with `TaskLedger`, `Download`, `FeedWorker`, `Scheduler`, `Sessions`,
`Users`, `Migrations`, `DataKey`, `Server`, `FeedItems`, `FeedParsing`, `Routes`. Every
invariant and every action property of a passing run is a theorem.

Next: `Archive`, the scheduler, the queue and the feed worker composed, so that the
fairness `FeedWorker` assumes of its runs is derived from the scheduler and the
queue.
