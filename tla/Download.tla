------------------------------ MODULE Download ------------------------------
(***************************************************************************)
(* How an episode gets from its row in the episodes table to a file in     *)
(* object storage: the download queue (an instance of Queue), the handler  *)
(* of pkg/downloadworker, SaveRemoteFile of the local and of the S3        *)
(* driver, and the two transactions that create download tasks: the feed   *)
(* worker's, for a new episode, and the web server's, for a requeue.       *)
(*                                                                         *)
(* The handler runs in steps, and between any two of them the web server   *)
(* may requeue, the feed worker may add episodes, and the process may die. *)
(* A call to the database, the disk, the remote server or S3 may fail.     *)
(***************************************************************************)
EXTENDS Naturals

CONSTANTS
    Episodes,           \* GUIDs of episodes
    Drivers,            \* ObjectStorage.Driver: "local" or "awss3"
    BoundedFaults,      \* whether the number of faults is bounded ...
    MaxFaults,          \* ... by this many
    DownloadQueue,      \* DownloadWorkerQueueName
    None, MaxTasks, MaxReceives, VisibilityTimeout, BackoffInterval

ASSUME DownloadAssumption ==
    /\ Drivers \subseteq {"local", "awss3"}
    /\ BoundedFaults \in BOOLEAN
    /\ MaxFaults \in Nat

\* Of the queue: what module Queue assumes, for this one queue.
ASSUME DownloadQueueAssumption ==
    /\ MaxTasks \in Nat
    /\ MaxReceives \in Nat
    /\ VisibilityTimeout \in Nat
    /\ None # DownloadQueue
    /\ None \notin Episodes
    /\ \A n \in 0 .. (MaxReceives + 1) : BackoffInterval * 2 ^ n \in Nat

VARIABLES
    pushed, row, queueName, data, receiveCount, hiddenFor, pc, qt,
    deliveries, succeeded, sinceReceive,
    driver,     \* the driver that is configured
    status,     \* column status of the episode, "absent" without a row
    bytes,      \* column bytes: the file version whose size it is
    object,     \* the episode's object in storage
    remote,     \* external: what the publisher serves for the episode
    step,       \* where the download handler is
    faults      \* faults that have happened, when they are bounded

queueVars == <<pushed, row, queueName, data, receiveCount, hiddenFor, pc, qt,
               deliveries, succeeded, sinceReceive>>
vars == <<queueVars, driver, status, bytes, object, remote, step, faults>>

Q == INSTANCE Queue WITH Queues <- {DownloadQueue}, Data <- Episodes

Versions == {"original", "edited"}

TypeOK ==
    /\ Q!TypeOK
    /\ driver \in Drivers
    /\ bytes \in [Episodes -> Versions \cup {"none", "unknown"}]
    /\ status \in [Episodes -> {"absent", "pending", "success", "failed"}]
    /\ object \in [Episodes -> Versions \cup {"none", "partial"}]
    /\ remote \in [Episodes -> Versions]
    /\ step \in {"idle", "lookup", "open", "fetch", "markSuccess", "markFailed"}
    /\ faults \in 0 .. MaxFaults

Init ==
    /\ Q!Init
    /\ driver \in Drivers
    /\ status = [e \in Episodes |-> "absent"]
    /\ bytes = [e \in Episodes |-> "none"]
    /\ object = [e \in Episodes |-> "none"]
    /\ remote = [e \in Episodes |-> "original"]
    /\ step = "idle"
    /\ faults = 0

\* One more thing goes wrong.
Fault ==
    IF BoundedFaults THEN faults < MaxFaults /\ faults' = faults + 1
                     ELSE UNCHANGED faults

-----------------------------------------------------------------------------
(* Where download tasks come from. *)

\* processPodcast: the transaction that creates an episode and its task.
CreateEpisode(e) ==
    /\ status[e] = "absent"
    /\ Q!PushQueueTask(DownloadQueue, e)
    /\ status' = [status EXCEPT ![e] = "pending"]
    /\ UNCHANGED <<object, remote, step, faults, driver, bytes>>

\* Mutant of RequeueDownload: only the status is written.
RequeueStatusOnly(e) ==
    /\ status[e] # "absent"
    /\ status' = [status EXCEPT ![e] = "pending"]
    /\ UNCHANGED <<queueVars, object, remote, step, faults, driver, bytes>>

\* NewRequeueDownloadHandler: any episode that exists, whatever its status.
RequeueDownload(e) ==
    /\ status[e] # "absent"
    /\ Q!PushQueueTask(DownloadQueue, e)
    /\ status' = [status EXCEPT ![e] = "pending"]
    /\ UNCHANGED <<object, remote, step, faults, driver, bytes>>

-----------------------------------------------------------------------------
(* The handler of the download queue, for the episode of the popped task. *)

Current == data[qt[DownloadQueue].id]

\* QueueWorker.Start pops a task and calls the handler.
StartHandler ==
    /\ Q!PopQueueTask(DownloadQueue)
    /\ step' = "lookup"
    /\ UNCHANGED <<status, object, remote, faults, driver, bytes>>

\* GetEpisode, GetPodcast, GetCredentials and MIMETypeExtension.
Lookup ==
    /\ step = "lookup"
    /\ step' = "open"
    /\ UNCHANGED <<queueVars, status, object, remote, faults, driver, bytes>>

\* Mutant of LookupFails: the handler returns nil.
LookupErrorSwallowed ==
    /\ step = "lookup"
    /\ Q!HandlerReturns(DownloadQueue, TRUE)
    /\ step' = "idle"
    /\ Fault
    /\ UNCHANGED <<status, object, remote, driver, bytes>>

\* One of them fails: the handler returns and leaves the status alone.
LookupFails ==
    /\ step = "lookup"
    /\ Q!HandlerReturns(DownloadQueue, FALSE)
    /\ step' = "idle"
    /\ Fault
    /\ UNCHANGED <<status, object, remote, driver, bytes>>

\* Local driver: mkdir and Root.Create, which truncates the file, before the
\* request is sent.  The S3 driver has nothing to do before its request.
OpenObject ==
    /\ step = "open"
    /\ object' = IF driver = "local" THEN [object EXCEPT ![Current] = "partial"]
                                     ELSE object
    /\ step' = "fetch"
    /\ UNCHANGED <<queueVars, status, remote, faults, driver, bytes>>

\* ValidateExtURL, mkdir or Create fails.
OpenFails ==
    /\ step = "open"
    /\ step' = "markFailed"
    /\ Fault
    /\ UNCHANGED <<queueVars, status, object, remote, driver, bytes>>

\* Mutant of Fetch: the file is named after the podcast, so all its episodes
\* have the same one.
FetchToSharedFile ==
    /\ step = "fetch"
    /\ object' = [e \in Episodes |-> IF object[e] = "none" /\ e # Current
                                        THEN "none" ELSE remote[Current]]
    /\ step' = "markSuccess"
    /\ UNCHANGED <<queueVars, status, remote, faults, driver, bytes>>

\* The whole body arrives: copied to the file, or uploaded as one object.
Fetch ==
    /\ step = "fetch"
    /\ object' = [object EXCEPT ![Current] = remote[Current]]
    /\ step' = "markSuccess"
    /\ UNCHANGED <<queueVars, status, remote, faults, driver, bytes>>

\* Mutant of FetchFails: an error of the transfer is not looked at.
TransferErrorIgnored ==
    /\ step = "fetch"
    /\ step' = "markSuccess"
    /\ Fault
    /\ UNCHANGED <<queueVars, status, object, remote, driver, bytes>>

\* The request, its status code, the transfer or the upload fails: what the
\* local driver has written stays, S3 keeps the object it had.
FetchFails ==
    /\ step = "fetch"
    /\ step' = "markFailed"
    /\ Fault
    /\ UNCHANGED <<queueVars, status, object, remote, driver, bytes>>

\* Mutant of MarkSuccess: the size is not written.
MarkSuccessStatusOnly ==
    /\ step = "markSuccess"
    /\ status' = [status EXCEPT ![Current] = "success"]
    /\ Q!HandlerReturns(DownloadQueue, TRUE)
    /\ step' = "idle"
    /\ UNCHANGED <<object, remote, faults, driver, bytes>>

\* What SaveRemoteFile returns: the local driver what it has copied, the S3
\* driver resp.ContentLength, which is -1 for a response without the header.
Sizes == {object[Current]} \cup (IF driver = "awss3" THEN {"unknown"} ELSE {})

\* Mutant of MarkSuccess: the handler returns an error all the same.
MarkSuccessReturnsError ==
    /\ step = "markSuccess"
    /\ status' = [status EXCEPT ![Current] = "success"]
    /\ \E n \in Sizes : bytes' = [bytes EXCEPT ![Current] = n]
    /\ Q!HandlerReturns(DownloadQueue, FALSE)
    /\ step' = "idle"
    /\ UNCHANGED <<object, remote, faults, driver>>

\* UpdateEpisodeStatus(success, &n), and the handler returns nil.
MarkSuccess ==
    /\ step = "markSuccess"
    /\ status' = [status EXCEPT ![Current] = "success"]
    /\ \E n \in Sizes : bytes' = [bytes EXCEPT ![Current] = n]
    /\ Q!HandlerReturns(DownloadQueue, TRUE)
    /\ step' = "idle"
    /\ UNCHANGED <<object, remote, faults, driver>>

\* Mutant of MarkFailed: the handler returns nil.
MarkFailedReturnsNil ==
    /\ step = "markFailed"
    /\ status' = [status EXCEPT ![Current] = "failed"]
    /\ Q!HandlerReturns(DownloadQueue, TRUE)
    /\ step' = "idle"
    /\ UNCHANGED <<object, remote, faults, driver, bytes>>

\* UpdateEpisodeStatus(failed), and the handler returns the error.
MarkFailed ==
    /\ step = "markFailed"
    /\ status' = [status EXCEPT ![Current] = "failed"]
    /\ Q!HandlerReturns(DownloadQueue, FALSE)
    /\ step' = "idle"
    /\ UNCHANGED <<object, remote, faults, driver, bytes>>

\* UpdateEpisodeStatus fails: the handler returns that error.
MarkFails ==
    /\ step \in {"markSuccess", "markFailed"}
    /\ Q!HandlerReturns(DownloadQueue, FALSE)
    /\ step' = "idle"
    /\ Fault
    /\ UNCHANGED <<status, object, remote, driver, bytes>>

\* QueueWorker.Start completes or returns the task.
Settle ==
    /\ Q!completeQueueTask(DownloadQueue) \/ Q!returnQueueTask(DownloadQueue)
    /\ UNCHANGED <<status, object, remote, step, faults, driver, bytes>>

SettleFails ==
    /\ Q!SettleFails(DownloadQueue)
    /\ Fault
    /\ UNCHANGED <<status, object, remote, step, driver, bytes>>

-----------------------------------------------------------------------------
\* The process dies and is started again.
Restart ==
    /\ Q!Restart
    /\ step' = "idle"
    /\ Fault
    /\ UNCHANGED <<status, object, remote, driver, bytes>>

Tick == Q!Tick /\ UNCHANGED <<status, object, remote, step, faults, driver, bytes>>

\* External: the publisher replaces the file it serves.
PublisherEdits(e) ==
    /\ remote' = [remote EXCEPT ![e] = "edited"]
    /\ UNCHANGED <<queueVars, status, object, step, faults, driver, bytes>>

Handler ==
    \/ Lookup \/ LookupFails
    \/ OpenObject \/ OpenFails
    \/ Fetch \/ FetchFails
    \/ MarkSuccess \/ MarkFailed \/ MarkFails

Worker == StartHandler \/ Handler \/ Settle \/ SettleFails

Next ==
    \/ \E e \in Episodes : CreateEpisode(e) \/ RequeueDownload(e) \/ PublisherEdits(e)
    \/ Worker
    \/ Restart
    \/ Tick

Spec == Init /\ [][Next]_vars

\* The worker loop keeps running (its HTTP client has a timeout), time passes.
Fairness == WF_vars(Worker) /\ WF_vars(Tick)

FairSpec == Spec /\ Fairness
-----------------------------------------------------------------------------
(* What the archive guarantees. *)

Whole(e) == object[e] \in Versions

\* GenerateFeed lists exactly the episodes whose status is success.
InFeed(e) == status[e] = "success"

TasksOf(e) == {t \in 1 .. MaxTasks : row[t] = "live" /\ data[t] = e}

\* Work is never dropped: as long as an episode is not both marked success and
\* stored in full, a task for it is still in the queue's table.  Holds for
\* both drivers, through crashes, failed writes and concurrent requeues.
UnfinishedHasTask ==
    \A e \in Episodes : status[e] # "absent" /\ ~(InFeed(e) /\ Whole(e)) => TasksOf(e) # {}

\* Every episode CastKeeper's own feed lists can be served in full: with the S3
\* driver ServeFile never meets a missing or a truncated object for it.
FeedServesWholeFiles ==
    driver = "awss3" => \A e \in Episodes : InFeed(e) => Whole(e)

\* The feed gives the size of the file it serves, once all tasks for the episode
\* are done: also when a task was delivered again after the publisher replaced
\* the file, and the size and the file were written in different steps.  (With
\* the S3 driver the size may be unknown.)
SettledSizeIsRight ==
    \A e \in Episodes :
        InFeed(e) /\ TasksOf(e) = {} =>
            bytes[e] = object[e] \/ (driver = "awss3" /\ bytes[e] = "unknown")

\* No pop selects the task any more, and the worker does not hold it either.
GivenUp(t) ==
    Q!Exhausted(t) /\ ~(pc[DownloadQueue] # "polling" /\ qt[DownloadQueue].id = t)

\* A task is given up only after more than maxReceives faults: requeues, edits
\* of the publisher, waiting and other tasks never use up its deliveries, and
\* no fault is charged twice.  With UnfinishedHasTask: until so many faults
\* have happened, an episode that is not archived still has a try to come.
GivenUpOnlyAfterFaults ==
    BoundedFaults => \A t \in 1 .. MaxTasks : GivenUp(t) => faults > MaxReceives

Archived(e) == InFeed(e) /\ Whole(e)

\* README.md: "Store copies of podcasts, safe from being taken offline or being
\* modified".  A copy that has been archived stays as it is, the version included.
ArchivedCopySurvives == [][\A e \in Episodes : Archived(e) => object'[e] = object[e]]_vars

\* The episode was downloaded again: by a second task, or a second delivery.
Redelivered(e) ==
    \/ \E t, u \in 1 .. MaxTasks : t # u /\ data[t] = e /\ data[u] = e
    \/ \E t \in 1 .. MaxTasks : data[t] = e /\ deliveries[t] > 1

\* What it takes to change a copy that has been archived: only another download
\* of the same episode, which a requeue or a redelivered task causes, touches
\* it.  No edit of the publisher does by itself, no other episode's download
\* and no crash.  With the S3 driver it is then replaced by another whole file:
\* an upload replaces the object at its end, or not at all.
CopiesChangeOnlyByRedelivery ==
    [][\A e \in Episodes : Archived(e) /\ object'[e] # object[e] =>
            Redelivered(e) /\ (driver = "awss3" => Whole(e)')]_vars

\* With no more than maxReceives faults of any kind, every episode is archived
\* in the end and stays so.
EveryEpisodeIsArchived ==
    \A e \in Episodes : status[e] # "absent" ~> [](InFeed(e) /\ Whole(e))
=============================================================================
