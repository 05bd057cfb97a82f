--------------------------- MODULE DownloadProofs ---------------------------
(***************************************************************************)
(* Proofs about Download for any number of episodes, tasks, deliveries and *)
(* faults and for both drivers.  Download implements Queue, so the         *)
(* invariant that QueueProofs proves is taken from there (QP); on top of   *)
(* it, ArchiveInv relates the rows of the queue, the handler's step, the   *)
(* episodes table and the objects in storage.                              *)
(***************************************************************************)
EXTENDS Download, TLAPS

QP == INSTANCE QueueProofs WITH Queues <- {DownloadQueue}, Data <- Episodes

\* Where the worker's loop is, and the task it holds.
At == pc[DownloadQueue]
Held == qt[DownloadQueue].id

\* Download's own part of TypeOK.
ArchiveTypeOK ==
    /\ driver \in Drivers
    /\ bytes \in [Episodes -> Versions \cup {"none", "unknown"}]
    /\ status \in [Episodes -> {"absent", "pending", "success", "failed"}]
    /\ object \in [Episodes -> Versions \cup {"none", "partial"}]
    /\ remote \in [Episodes -> Versions]
    /\ step \in {"idle", "lookup", "open", "fetch", "markSuccess", "markFailed"}
    /\ faults \in 0 .. MaxFaults

\* The handler is under way exactly while the worker's loop waits for it.
HandlerPhase == step # "idle" <=> At = "handling"

\* Every task, done or not, is for an episode that has a row.
TasksHaveEpisodes ==
    \A t \in 1 .. MaxTasks : row[t] # "absent" =>
        data[t] \in Episodes /\ status[data[t]] # "absent"

\* The file is stored in full before the status is written.
SavedBeforeSuccess == step = "markSuccess" => Whole(Current)

\* The size that is recorded for the episode is that of its object, or unknown.
SizeIsRight(e) == bytes[e] = object[e] \/ (driver = "awss3" /\ bytes[e] = "unknown")

\* A worker about to complete its task leaves its episode stored and with the
\* right size, and in the feed unless a requeue has come in between: then the
\* requeue's own task is there.
CompletionIsEarned ==
    At = "completing" =>
        /\ Whole(Current)
        /\ SizeIsRight(Current)
        /\ InFeed(Current) \/ \E t \in TasksOf(Current) : t # Held

ArchiveInv ==
    /\ ArchiveTypeOK
    /\ HandlerPhase
    /\ TasksHaveEpisodes
    /\ SavedBeforeSuccess
    /\ CompletionIsEarned
    /\ UnfinishedHasTask
    /\ FeedServesWholeFiles
    /\ SettledSizeIsRight

Inv == QP!IndInv /\ ArchiveInv

-----------------------------------------------------------------------------
(* The queue, as Download uses it. *)

\* The assumptions of module Queue hold of the download queue.
LEMMA QueueAssumptions == QP!QueueAssumption /\ QP!BackoffAssumption
BY DownloadQueueAssumption DEF QP!QueueAssumption, QP!BackoffAssumption, QP!Backoff

\* What the invariant of QueueProofs says of the variables Download reads.
LEMMA QueueFacts ==
    ASSUME QP!IndInv
    PROVE  /\ pushed \in 0 .. MaxTasks
           /\ row \in [1 .. MaxTasks -> {"absent", "live", "deleted"}]
           /\ data \in [1 .. MaxTasks -> Episodes \cup {None}]
           /\ pc \in [{DownloadQueue} -> {"polling", "handling", "completing", "returning"}]
           /\ \A t \in 1 .. MaxTasks : row[t] = "absent" <=> t > pushed
           /\ At # "polling" => Held \in 1 .. MaxTasks /\ row[Held] = "live"
BY DEF QP!IndInv, QP!TypeOK, QP!RowsUpToPushed, QP!HoldsTask, QP!CopyIsCurrent,
       QP!Tasks, At, Held

\* A push inserts a row with a new id; the worker is not disturbed.
LEMMA PushEffect ==
    ASSUME QP!IndInv, NEW e \in Episodes, Q!PushQueueTask(DownloadQueue, e)
    PROVE  /\ \E t \in 1 .. MaxTasks : /\ row[t] = "absent"
                                       /\ row' = [row EXCEPT ![t] = "live"]
                                       /\ data' = [data EXCEPT ![t] = e]
           /\ At' = At /\ Held' = Held
<1>1. /\ pushed < MaxTasks
      /\ row' = [row EXCEPT ![pushed + 1] = "live"]
      /\ data' = [data EXCEPT ![pushed + 1] = e]
      /\ pc' = pc /\ qt' = qt
  BY DEF Q!PushQueueTask, Q!workers
<1>2. pushed + 1 \in 1 .. MaxTasks /\ row[pushed + 1] = "absent"
  BY <1>1, QueueFacts, DownloadQueueAssumption
<1> QED
  BY <1>1, <1>2 DEF At, Held

\* A pop takes a live row and leaves it live.
LEMMA PopEffect ==
    ASSUME QP!IndInv, Q!PopQueueTask(DownloadQueue)
    PROVE  /\ At = "polling" /\ At' = "handling"
           /\ Held' \in 1 .. MaxTasks /\ row[Held'] = "live"
           /\ row' = row /\ data' = data
<1>1. PICK t \in Q!Oldest(Q!Receivable(DownloadQueue)) :
        /\ row' = [row EXCEPT ![t] = "live"]
        /\ data' = data
        /\ qt' = [qt EXCEPT ![DownloadQueue] = [id |-> t, receiveCount |-> receiveCount[t] + 1]]
  BY DEF Q!PopQueueTask, Q!Save
<1>2. t \in 1 .. MaxTasks /\ row[t] = "live"
  BY DEF Q!Oldest, Q!Receivable, Q!Tasks
<1>3. row' = row
  BY <1>1, <1>2, QueueFacts
<1>4. pc[DownloadQueue] = "polling" /\ pc' = [pc EXCEPT ![DownloadQueue] = "handling"]
  BY DEF Q!PopQueueTask
<1>5. At = "polling" /\ At' = "handling"
  BY <1>4, QueueFacts DEF At
<1>6. Held' = t
  <2>1. DOMAIN qt = {DownloadQueue}
    BY DEF QP!IndInv, QP!TypeOK
  <2> QED
    BY <1>1, <2>1 DEF Held
<1> QED
  BY <1>1, <1>2, <1>3, <1>5, <1>6

\* A returning handler moves the worker to the settling step of its outcome.
LEMMA HandlerReturnsEffect ==
    ASSUME QP!IndInv, NEW ok \in BOOLEAN, Q!HandlerReturns(DownloadQueue, ok)
    PROVE  /\ At = "handling" /\ At' = (IF ok THEN "completing" ELSE "returning")
           /\ Held' = Held /\ row' = row /\ data' = data
BY QueueFacts DEF Q!HandlerReturns, Q!table, At, Held

\* Completing a task deletes its row and sends the worker back to polling.
LEMMA CompleteEffect ==
    ASSUME QP!IndInv, Q!completeQueueTask(DownloadQueue)
    PROVE  /\ At = "completing" /\ At' = "polling"
           /\ row' = [row EXCEPT ![Held] = "deleted"]
           /\ data' = data
BY QueueFacts DEF Q!completeQueueTask, Q!NextIteration, At, Held

\* returnQueueTask saves a row that is live anyway.
LEMMA ReturnEffect ==
    ASSUME QP!IndInv,
           Q!returnQueueTask(DownloadQueue) \/ Q!SettleFails(DownloadQueue)
    PROVE  /\ At \in {"completing", "returning"} /\ At' = "polling"
           /\ row' = row /\ data' = data
<1>1. CASE Q!returnQueueTask(DownloadQueue)
  <2>1. /\ At = "returning"
        /\ row' = [row EXCEPT ![Held] = "live"] /\ data' = data
        /\ pc' = [pc EXCEPT ![DownloadQueue] = "polling"]
    BY <1>1 DEF Q!returnQueueTask, Q!NextIteration, Q!Save, At, Held
  <2> QED
    BY <2>1, QueueFacts DEF At
<1>2. CASE Q!SettleFails(DownloadQueue)
  BY <1>2, QueueFacts DEF Q!SettleFails, Q!NextIteration, Q!table, At
<1> QED
  BY <1>1, <1>2

\* A restart loses the worker's place and leaves the rows.
LEMMA RestartEffect ==
    ASSUME Q!Restart
    PROVE  At' = "polling" /\ row' = row /\ data' = data
BY DEF Q!Restart, Q!table, At

\* Time passes without touching worker or rows.
LEMMA TickEffect ==
    ASSUME Q!Tick
    PROVE  At' = At /\ Held' = Held /\ row' = row /\ data' = data
BY DEF Q!Tick, Q!workers, At, Held

-----------------------------------------------------------------------------
(* Download implements Queue. *)

\* Every step of Download is one of the queue, or leaves its variables alone.
LEMMA StepIsQueueStep == [Next]_vars => [Q!Next]_(Q!vars)
<1> SUFFICES ASSUME [Next]_vars PROVE Q!Next \/ UNCHANGED Q!vars
  OBVIOUS
<1>1. ASSUME UNCHANGED queueVars PROVE UNCHANGED Q!vars
  BY <1>1 DEF queueVars, Q!vars, Q!table, Q!workers, Q!history
<1>2. ASSUME NEW e \in Episodes, CreateEpisode(e) \/ RequeueDownload(e) PROVE Q!Next
  BY <1>2 DEF CreateEpisode, RequeueDownload, Q!Next
<1>3. ASSUME NEW e \in Episodes, PublisherEdits(e) PROVE UNCHANGED Q!vars
  BY <1>1, <1>3 DEF PublisherEdits
<1>4. ASSUME StartHandler \/ Settle \/ SettleFails \/ Restart \/ Tick PROVE Q!Next
  BY <1>4 DEF StartHandler, Settle, SettleFails, Restart, Tick, Q!Next, Q!WorkerStep
<1>5. ASSUME LookupFails \/ MarkSuccess \/ MarkFailed \/ MarkFails PROVE Q!Next
  BY <1>5 DEF LookupFails, MarkSuccess, MarkFailed, MarkFails, Q!Next, Q!WorkerStep
<1>6. ASSUME Lookup \/ OpenObject \/ OpenFails \/ Fetch \/ FetchFails
      PROVE  UNCHANGED Q!vars
  BY <1>1, <1>6 DEF Lookup, OpenObject, OpenFails, Fetch, FetchFails
<1>7. CASE UNCHANGED vars
  BY <1>1, <1>7 DEF vars, queueVars
<1> QED
  BY <1>2, <1>3, <1>4, <1>5, <1>6, <1>7 DEF Next, Worker, Handler

\* The download queue behaves as Queue does, whatever the handler and the two
\* transactions that create tasks do.
THEOREM DownloadImplementsQueue == Spec => Q!Spec
<1>1. Init => Q!Init
  BY DEF Init
<1> QED
  BY <1>1, StepIsQueueStep, PTL DEF Spec, Q!Spec

\* Q and QP are the same instance of Queue.
LEMMA SameInit == Q!Init => QP!Init
BY DEF Q!Init, QP!Init, Q!Tasks, QP!Tasks, Q!NoTask, QP!NoTask

\* A step of the queue Download uses is a step of the queue proved about.
LEMMA SameNext == [Q!Next]_(Q!vars) => [QP!Next]_(QP!vars)
<1> USE DEF Q!Tasks, QP!Tasks, Q!NoTask, QP!NoTask, Q!table, QP!table, Q!workers, QP!workers,
            Q!history, QP!history
<1>1. ASSUME NEW e \in Episodes, Q!PushQueueTask(DownloadQueue, e)
      PROVE  QP!PushQueueTask(DownloadQueue, e)
  BY <1>1 DEF Q!PushQueueTask, QP!PushQueueTask
<1>2. ASSUME Q!PopQueueTask(DownloadQueue) PROVE QP!PopQueueTask(DownloadQueue)
  BY <1>2 DEF Q!PopQueueTask, QP!PopQueueTask, Q!Oldest, QP!Oldest, Q!Receivable,
              QP!Receivable, Q!Save, QP!Save
<1>3. ASSUME NEW ok \in BOOLEAN, Q!HandlerReturns(DownloadQueue, ok)
      PROVE  QP!HandlerReturns(DownloadQueue, ok)
  BY <1>3 DEF Q!HandlerReturns, QP!HandlerReturns
<1>4. ASSUME Q!completeQueueTask(DownloadQueue) PROVE QP!completeQueueTask(DownloadQueue)
  BY <1>4 DEF Q!completeQueueTask, QP!completeQueueTask, Q!NextIteration, QP!NextIteration
<1>5. ASSUME Q!returnQueueTask(DownloadQueue) PROVE QP!returnQueueTask(DownloadQueue)
  BY <1>5 DEF Q!returnQueueTask, QP!returnQueueTask, Q!NextIteration, QP!NextIteration,
              Q!Save, QP!Save, Q!Backoff, QP!Backoff
<1>6. ASSUME Q!SettleFails(DownloadQueue) PROVE QP!SettleFails(DownloadQueue)
  BY <1>6 DEF Q!SettleFails, QP!SettleFails, Q!NextIteration, QP!NextIteration
<1>7. (Q!Restart => QP!Restart) /\ (Q!Tick => QP!Tick)
  BY DEF Q!Restart, QP!Restart, Q!Tick, QP!Tick
<1>8. UNCHANGED Q!vars => UNCHANGED QP!vars
  BY DEF Q!vars, QP!vars
<1> QED
  BY <1>1, <1>2, <1>3, <1>4, <1>5, <1>6, <1>7, <1>8
     DEF Q!Next, QP!Next, Q!WorkerStep, QP!WorkerStep

\* What is proved of Queue therefore holds of the download queue.
LEMMA QueueInvariance ==
    /\ Init => QP!IndInv
    /\ QP!IndInv /\ [Next]_vars => QP!IndInv'
<1>1. Init => QP!Init
  BY SameInit DEF Init
<1>2. [Next]_vars => [QP!Next]_(QP!vars)
  BY StepIsQueueStep, SameNext
<1>3. QP!Init => QP!IndInv
  BY QueueAssumptions, QP!InitEstablishesInv
<1>4. QP!IndInv /\ [QP!Next]_(QP!vars) => QP!IndInv'
  BY QueueAssumptions, QP!NextPreservesInv
<1> QED
  BY <1>1, <1>2, <1>3, <1>4

-----------------------------------------------------------------------------
(* The archive. *)

\* The fault counter stays within its bound.
LEMMA FaultTypes == ASSUME faults \in 0 .. MaxFaults, Fault PROVE faults' \in 0 .. MaxFaults
BY DownloadAssumption DEF Fault

\* The episode of the task the worker holds.
LEMMA CurrentEpisode ==
    ASSUME Inv, At # "polling"
    PROVE  /\ Held \in 1 .. MaxTasks /\ row[Held] = "live" /\ data[Held] = Current
           /\ Current \in Episodes /\ status[Current] # "absent"
           /\ Held \in TasksOf(Current)
BY QueueFacts DEF Inv, ArchiveInv, TasksHaveEpisodes, Current, TasksOf, Held

\* A new library satisfies the archive's part of the invariant.
LEMMA InitArchive == Init => ArchiveInv
<1> SUFFICES ASSUME Init PROVE ArchiveInv
  OBVIOUS
<1>1. At = "polling" /\ row = [t \in 1 .. MaxTasks |-> "absent"]
  BY DEF Init, Q!Init, Q!Tasks, At
<1>2. ArchiveTypeOK
  BY DownloadAssumption DEF Init, ArchiveTypeOK, Versions
<1> QED
  BY <1>1, <1>2 DEF Init, ArchiveInv, HandlerPhase, TasksHaveEpisodes, SavedBeforeSuccess,
       CompletionIsEarned, UnfinishedHasTask, FeedServesWholeFiles, SettledSizeIsRight, InFeed

\* A new task, for an episode that is new or requeued: its status is pending,
\* and the task is another one than the worker's.
LEMMA PushKeepsArchive ==
    ASSUME Inv, NEW e \in Episodes, CreateEpisode(e) \/ RequeueDownload(e)
    PROVE  ArchiveInv'
<1> USE DEF Whole, InFeed, SizeIsRight, TasksOf
<1>1. /\ Q!PushQueueTask(DownloadQueue, e)
      /\ status' = [status EXCEPT ![e] = "pending"]
      /\ object' = object /\ remote' = remote /\ step' = step /\ faults' = faults
      /\ driver' = driver /\ bytes' = bytes
  BY DEF CreateEpisode, RequeueDownload
<1>2. PICK t \in 1 .. MaxTasks : /\ row[t] = "absent"
                                 /\ row' = [row EXCEPT ![t] = "live"]
                                 /\ data' = [data EXCEPT ![t] = e]
  BY <1>1, PushEffect DEF Inv
<1>3. At' = At /\ Held' = Held
  BY <1>1, PushEffect DEF Inv
<1>4. /\ row \in [1 .. MaxTasks -> {"absent", "live", "deleted"}]
      /\ data \in [1 .. MaxTasks -> Episodes \cup {None}]
  BY QueueFacts DEF Inv
<1>5. ArchiveTypeOK /\ status \in [Episodes -> {"absent", "pending", "success", "failed"}]
  BY DEF Inv, ArchiveInv, ArchiveTypeOK
<1>6. ArchiveTypeOK'
  BY <1>1, <1>5 DEF ArchiveTypeOK
<1>7. HandlerPhase'
  BY <1>1, <1>3 DEF Inv, ArchiveInv, HandlerPhase
<1>8. TasksHaveEpisodes'
  BY <1>1, <1>2, <1>4, <1>5 DEF Inv, ArchiveInv, TasksHaveEpisodes
<1>9. At # "polling" => /\ Held # t /\ Current' = Current
                        /\ Held \in 1 .. MaxTasks
  BY <1>2, <1>3, <1>4, CurrentEpisode DEF Current, Held
<1>10. /\ \A u \in 1 .. MaxTasks : row[u] = "live" => row'[u] = "live" /\ data'[u] = data[u]
       /\ \A f \in Episodes : f # e => status'[f] = status[f]
       /\ row'[t] = "live" /\ data'[t] = e /\ status'[e] = "pending"
  BY <1>1, <1>2, <1>4, <1>5
<1>11. \A f \in Episodes : /\ Whole(f)' <=> Whole(f)
                           /\ SizeIsRight(f)' <=> SizeIsRight(f)
                           /\ InFeed(f)' => InFeed(f)
                           /\ f # e /\ InFeed(f) => InFeed(f)'
  BY <1>1, <1>10
<1>12. SavedBeforeSuccess'
  BY <1>1, <1>7, <1>3, <1>9, <1>11, CurrentEpisode
     DEF Inv, ArchiveInv, SavedBeforeSuccess, HandlerPhase
<1>13. CompletionIsEarned'
  <2> SUFFICES ASSUME At = "completing"
               PROVE  /\ Whole(Current)' /\ SizeIsRight(Current)'
                      /\ InFeed(Current)' \/ \E u \in TasksOf(Current)' : u # Held'
    BY <1>3 DEF CompletionIsEarned
  <2>1. /\ Whole(Current) /\ SizeIsRight(Current)
        /\ InFeed(Current) \/ \E u \in TasksOf(Current) : u # Held
    BY DEF Inv, ArchiveInv, CompletionIsEarned
  <2>2. Current \in Episodes /\ Current' = Current /\ Held' = Held /\ Held # t
    BY <1>3, <1>9, CurrentEpisode
  <2>3. Whole(Current)' /\ SizeIsRight(Current)'
    BY <1>1, <2>1, <2>2
  <2>4. CASE Current = e
    BY <1>10, <2>2, <2>3, <2>4
  <2>5. CASE Current # e
    BY <1>10, <2>1, <2>2, <2>3, <2>5
  <2> QED
    BY <2>4, <2>5
<1>14. UnfinishedHasTask'
  <2> SUFFICES ASSUME NEW f \in Episodes,
                      status'[f] # "absent", ~(status'[f] = "success" /\ object'[f] \in Versions)
               PROVE  \E u \in 1 .. MaxTasks : row'[u] = "live" /\ data'[u] = f
    BY DEF UnfinishedHasTask
  <2>1. CASE f = e
    BY <1>10, <2>1
  <2>2. CASE f # e
    <3>1. \E u \in 1 .. MaxTasks : row[u] = "live" /\ data[u] = f
      BY <1>1, <1>10, <2>2 DEF Inv, ArchiveInv, UnfinishedHasTask
    <3> QED
      BY <1>10, <3>1
  <2> QED
    BY <2>1, <2>2
<1>15. FeedServesWholeFiles'
  BY <1>1, <1>11 DEF Inv, ArchiveInv, FeedServesWholeFiles
<1>16. SettledSizeIsRight'
  BY <1>1, <1>10, <1>11 DEF Inv, ArchiveInv, SettledSizeIsRight, SizeIsRight
<1> QED
  BY <1>6, <1>7, <1>8, <1>12, <1>13, <1>14, <1>15, <1>16 DEF ArchiveInv

\* A step that writes neither the tables nor storage.
LEMMA QuietKeepsArchive ==
    ASSUME Inv, row' = row, data' = data, UNCHANGED <<driver, status, bytes, object>>,
           ArchiveTypeOK', HandlerPhase', SavedBeforeSuccess', CompletionIsEarned'
    PROVE  ArchiveInv'
<1> USE DEF Inv, ArchiveInv
<1>1. TasksHaveEpisodes'
  BY DEF TasksHaveEpisodes
<1>2. UnfinishedHasTask' /\ FeedServesWholeFiles' /\ SettledSizeIsRight'
  BY DEF UnfinishedHasTask, FeedServesWholeFiles, SettledSizeIsRight, InFeed, Whole, TasksOf
<1> QED
  BY <1>1, <1>2

\* A step of the handler writes only to the episode it works on, whose task is
\* in the table, and marks nothing as a success that S3 does not have in full.
LEMMA HandlerKeepsArchive ==
    ASSUME Inv, At # "polling", row' = row, data' = data, driver' = driver,
           \A f \in Episodes \ {Current} : /\ status'[f] = status[f]
                                           /\ bytes'[f] = bytes[f]
                                           /\ object'[f] = object[f],
           status'[Current] # "absent",
           driver = "awss3" /\ status'[Current] = "success" => object'[Current] \in Versions,
           ArchiveTypeOK', HandlerPhase', SavedBeforeSuccess', CompletionIsEarned'
    PROVE  ArchiveInv'
<1> USE DEF InFeed, Whole, TasksOf
<1>1. /\ Held \in 1 .. MaxTasks /\ row[Held] = "live" /\ data[Held] = Current
      /\ Current \in Episodes
  BY CurrentEpisode
<1>2. TasksHaveEpisodes'
  BY <1>1 DEF Inv, ArchiveInv, TasksHaveEpisodes
<1>3. UnfinishedHasTask'
  <2> SUFFICES ASSUME NEW f \in Episodes,
                      status'[f] # "absent", ~(status'[f] = "success" /\ object'[f] \in Versions)
               PROVE  \E u \in 1 .. MaxTasks : row[u] = "live" /\ data[u] = f
    BY DEF UnfinishedHasTask
  <2>1. CASE f = Current
    BY <1>1, <2>1
  <2>2. CASE f # Current
    BY <2>2 DEF Inv, ArchiveInv, UnfinishedHasTask
  <2> QED
    BY <2>1, <2>2
<1>4. FeedServesWholeFiles'
  BY DEF Inv, ArchiveInv, FeedServesWholeFiles
<1>5. SettledSizeIsRight'
  BY <1>1 DEF Inv, ArchiveInv, SettledSizeIsRight
<1> QED
  BY <1>2, <1>3, <1>4, <1>5 DEF ArchiveInv

\* The handler begins.
LEMMA StartKeepsArchive == ASSUME Inv, StartHandler PROVE ArchiveInv'
<1>1. /\ Q!PopQueueTask(DownloadQueue) /\ step' = "lookup"
      /\ UNCHANGED <<status, object, remote, faults, driver, bytes>>
  BY DEF StartHandler
<1>2. At' = "handling" /\ row' = row /\ data' = data
  BY <1>1, PopEffect DEF Inv
<1>3. ArchiveTypeOK'
  BY <1>1 DEF Inv, ArchiveInv, ArchiveTypeOK
<1>4. HandlerPhase' /\ SavedBeforeSuccess' /\ CompletionIsEarned'
  BY <1>1, <1>2 DEF HandlerPhase, SavedBeforeSuccess, CompletionIsEarned
<1> QED
  BY <1>1, <1>2, <1>3, <1>4, QuietKeepsArchive

\* The steps of the handler up to the write of the status.
LEMMA TransferKeepsArchive ==
    ASSUME Inv, Lookup \/ OpenObject \/ OpenFails \/ Fetch \/ FetchFails
    PROVE  ArchiveInv'
<1>1. /\ step \in {"lookup", "open", "fetch"}
      /\ UNCHANGED <<queueVars, status, remote, driver, bytes>>
  BY DEF Lookup, OpenObject, OpenFails, Fetch, FetchFails
<1>2. row' = row /\ data' = data /\ At' = At /\ Current' = Current
  BY <1>1 DEF queueVars, At, Current
<1>3. At = "handling"
  BY <1>1 DEF Inv, ArchiveInv, HandlerPhase
<1>4. Current \in Episodes /\ status[Current] # "absent"
  BY <1>3, CurrentEpisode
<1>5. ArchiveTypeOK
  BY DEF Inv, ArchiveInv
<1>6. faults' \in 0 .. MaxFaults
  BY <1>5, FaultTypes DEF Lookup, OpenObject, OpenFails, Fetch, FetchFails, ArchiveTypeOK
<1>7. /\ step' \in {"open", "fetch", "markSuccess", "markFailed"}
      /\ object' \in [Episodes -> Versions \cup {"none", "partial"}]
      /\ \A f \in Episodes \ {Current} : object'[f] = object[f]
      /\ step' = "markSuccess" => object'[Current] \in Versions
      /\ driver = "awss3" /\ object[Current] \in Versions => object'[Current] \in Versions
  BY <1>4, <1>5 DEF Lookup, OpenObject, OpenFails, Fetch, FetchFails, ArchiveTypeOK
<1>8. ArchiveTypeOK'
  BY <1>1, <1>5, <1>6, <1>7 DEF ArchiveTypeOK
<1>9. HandlerPhase' /\ SavedBeforeSuccess' /\ CompletionIsEarned'
  BY <1>2, <1>3, <1>7 DEF HandlerPhase, SavedBeforeSuccess, CompletionIsEarned, Whole
<1>10. driver = "awss3" /\ status'[Current] = "success" => object'[Current] \in Versions
  BY <1>1, <1>4, <1>7 DEF Inv, ArchiveInv, FeedServesWholeFiles, InFeed, Whole
<1> QED
  BY <1>1, <1>2, <1>3, <1>4, <1>7, <1>8, <1>9, <1>10, HandlerKeepsArchive

\* The handler returns nil after it has stored the file, its size and the
\* status, in this order.
LEMMA SuccessKeepsArchive == ASSUME Inv, MarkSuccess PROVE ArchiveInv'
<1>1. PICK n \in Sizes : bytes' = [bytes EXCEPT ![Current] = n]
  BY DEF MarkSuccess
<1>2. /\ step = "markSuccess" /\ step' = "idle"
      /\ status' = [status EXCEPT ![Current] = "success"]
      /\ object' = object /\ remote' = remote /\ faults' = faults /\ driver' = driver
  BY DEF MarkSuccess
<1>3. /\ At = "handling" /\ At' = "completing" /\ Held' = Held
      /\ row' = row /\ data' = data
  BY HandlerReturnsEffect DEF MarkSuccess, Inv
<1>4. Current \in Episodes /\ Current' = Current
  BY <1>3, CurrentEpisode DEF Current, Held
<1>5. ArchiveTypeOK /\ object[Current] \in Versions
  BY <1>2 DEF Inv, ArchiveInv, SavedBeforeSuccess, Whole
<1>6. n \in Versions \cup {"unknown"} /\ (n = object[Current] \/ (driver = "awss3" /\ n = "unknown"))
  BY <1>5 DEF Sizes
<1>7. ArchiveTypeOK'
  BY <1>1, <1>2, <1>5, <1>6 DEF ArchiveTypeOK
<1>8. /\ status'[Current] = "success" /\ bytes'[Current] = n
      /\ \A f \in Episodes \ {Current} : status'[f] = status[f] /\ bytes'[f] = bytes[f]
  BY <1>1, <1>2, <1>4, <1>5 DEF ArchiveTypeOK
<1>9. HandlerPhase' /\ SavedBeforeSuccess'
  BY <1>2, <1>3 DEF HandlerPhase, SavedBeforeSuccess
<1>10. CompletionIsEarned'
  BY <1>2, <1>4, <1>5, <1>6, <1>8 DEF CompletionIsEarned, Whole, SizeIsRight, InFeed
<1> QED
  BY <1>2, <1>3, <1>5, <1>7, <1>8, <1>9, <1>10, HandlerKeepsArchive

\* The handler returns an error: the task goes back.
LEMMA ErrorKeepsArchive ==
    ASSUME Inv, LookupFails \/ MarkFailed \/ MarkFails
    PROVE  ArchiveInv'
<1>1. /\ step' = "idle" /\ Q!HandlerReturns(DownloadQueue, FALSE)
      /\ status' \in {status, [status EXCEPT ![Current] = "failed"]}
      /\ object' = object /\ remote' = remote /\ driver' = driver /\ bytes' = bytes
  BY DEF LookupFails, MarkFailed, MarkFails
<1>2. At = "handling" /\ At' = "returning" /\ row' = row /\ data' = data
  BY <1>1, HandlerReturnsEffect DEF Inv
<1>3. Current \in Episodes /\ status[Current] # "absent"
  BY <1>2, CurrentEpisode
<1>4. ArchiveTypeOK
  BY DEF Inv, ArchiveInv
<1>5. faults' \in 0 .. MaxFaults
  BY <1>4, FaultTypes DEF LookupFails, MarkFailed, MarkFails, ArchiveTypeOK
<1>6. ArchiveTypeOK'
  BY <1>1, <1>4, <1>5 DEF ArchiveTypeOK
<1>7. /\ status'[Current] \in {status[Current], "failed"}
      /\ \A f \in Episodes \ {Current} : status'[f] = status[f]
  BY <1>1, <1>3, <1>4 DEF ArchiveTypeOK
<1>8. HandlerPhase' /\ SavedBeforeSuccess' /\ CompletionIsEarned'
  BY <1>1, <1>2 DEF HandlerPhase, SavedBeforeSuccess, CompletionIsEarned
<1>9. driver = "awss3" /\ status'[Current] = "success" => object'[Current] \in Versions
  BY <1>1, <1>3, <1>7 DEF Inv, ArchiveInv, FeedServesWholeFiles, InFeed, Whole
<1> QED
  BY <1>1, <1>2, <1>3, <1>6, <1>7, <1>8, <1>9, HandlerKeepsArchive

\* The task is deleted: its episode is archived, or has another one.
LEMMA CompleteKeepsArchive ==
    ASSUME Inv, Q!completeQueueTask(DownloadQueue),
           UNCHANGED <<status, object, remote, step, faults, driver, bytes>>
    PROVE  ArchiveInv'
<1> USE DEF InFeed, Whole, TasksOf
<1>1. /\ At = "completing" /\ At' = "polling"
      /\ row' = [row EXCEPT ![Held] = "deleted"] /\ data' = data
  BY CompleteEffect DEF Inv
<1>2. /\ Held \in 1 .. MaxTasks /\ row[Held] = "live" /\ data[Held] = Current
      /\ Current \in Episodes
  BY <1>1, CurrentEpisode
<1>3. row \in [1 .. MaxTasks -> {"absent", "live", "deleted"}]
  BY QueueFacts DEF Inv
<1>4. /\ object[Current] \in Versions /\ SizeIsRight(Current)
      /\ \/ status[Current] = "success"
         \/ \E t \in 1 .. MaxTasks : row[t] = "live" /\ data[t] = Current /\ t # Held
  BY <1>1 DEF Inv, ArchiveInv, CompletionIsEarned
<1>5. /\ \A t \in 1 .. MaxTasks : t # Held => row'[t] = row[t]
      /\ row'[Held] = "deleted"
  BY <1>1, <1>2, <1>3
<1>6. ArchiveTypeOK' /\ step' = "idle"
  BY <1>1 DEF Inv, ArchiveInv, ArchiveTypeOK, HandlerPhase
<1>7. HandlerPhase' /\ SavedBeforeSuccess' /\ CompletionIsEarned'
  BY <1>1, <1>6 DEF HandlerPhase, SavedBeforeSuccess, CompletionIsEarned
<1>8. TasksHaveEpisodes'
  BY <1>1, <1>2, <1>5 DEF Inv, ArchiveInv, TasksHaveEpisodes
<1>9. UnfinishedHasTask'
  <2> SUFFICES ASSUME NEW f \in Episodes,
                      status[f] # "absent", ~(status[f] = "success" /\ object[f] \in Versions)
               PROVE  \E u \in 1 .. MaxTasks : row'[u] = "live" /\ data[u] = f
    BY <1>1 DEF UnfinishedHasTask
  <2>1. PICK u \in 1 .. MaxTasks : row[u] = "live" /\ data[u] = f
    BY DEF Inv, ArchiveInv, UnfinishedHasTask
  <2>2. CASE f = Current
    BY <1>4, <1>5, <2>2
  <2>3. CASE f # Current
    BY <1>2, <1>5, <2>1, <2>3
  <2> QED
    BY <2>2, <2>3
<1>10. FeedServesWholeFiles'
  BY DEF Inv, ArchiveInv, FeedServesWholeFiles
<1>11. SettledSizeIsRight'
  <2> SUFFICES ASSUME NEW f \in Episodes, status[f] = "success",
                      \A u \in 1 .. MaxTasks : ~(row'[u] = "live" /\ data[u] = f)
               PROVE  SizeIsRight(f)
    BY <1>1 DEF SettledSizeIsRight, SizeIsRight
  <2>1. CASE f = Current
    BY <1>4, <2>1
  <2>2. CASE f # Current
    <3>1. \A u \in 1 .. MaxTasks : ~(row[u] = "live" /\ data[u] = f)
      BY <1>2, <1>5, <2>2
    <3> QED
      BY <3>1 DEF Inv, ArchiveInv, SettledSizeIsRight, SizeIsRight
  <2> QED
    BY <2>1, <2>2
<1> QED
  BY <1>6, <1>7, <1>8, <1>9, <1>10, <1>11 DEF ArchiveInv

\* The task stays as it is: returned, or the worker gives up on it or dies.
LEMMA GiveBackKeepsArchive ==
    ASSUME Inv, At' = "polling", row' = row, data' = data, step' = "idle",
           faults' = faults \/ Fault,
           UNCHANGED <<status, object, remote, driver, bytes>>
    PROVE  ArchiveInv'
<1>1. faults' \in 0 .. MaxFaults
  BY FaultTypes DEF Inv, ArchiveInv, ArchiveTypeOK
<1>2. ArchiveTypeOK'
  BY <1>1 DEF Inv, ArchiveInv, ArchiveTypeOK
<1>3. HandlerPhase' /\ SavedBeforeSuccess' /\ CompletionIsEarned'
  BY DEF HandlerPhase, SavedBeforeSuccess, CompletionIsEarned
<1> QED
  BY <1>2, <1>3, QuietKeepsArchive

\* Time passes, or the publisher edits: the tables and the worker stay.
LEMMA WorldKeepsArchive ==
    ASSUME Inv, At' = At, Held' = Held, row' = row, data' = data,
           UNCHANGED <<status, object, step, faults, driver, bytes>>,
           remote' \in [Episodes -> Versions]
    PROVE  ArchiveInv'
<1>1. ArchiveTypeOK'
  BY DEF Inv, ArchiveInv, ArchiveTypeOK
<1>2. HandlerPhase'
  BY DEF Inv, ArchiveInv, HandlerPhase
<1>3. Current' = Current
  BY DEF Current, Held
<1>4. SavedBeforeSuccess' /\ CompletionIsEarned'
  BY <1>3 DEF Inv, ArchiveInv, SavedBeforeSuccess, CompletionIsEarned, Whole, SizeIsRight,
              InFeed, TasksOf
<1> QED
  BY <1>1, <1>2, <1>4, QuietKeepsArchive

\* Every step of Download keeps the archive's part of the invariant.
LEMMA NextKeepsArchive == ASSUME Inv, [Next]_vars PROVE ArchiveInv'
<1>1. ASSUME NEW e \in Episodes, PublisherEdits(e) PROVE ArchiveInv'
  <2>1. UNCHANGED <<queueVars, status, object, step, faults, driver, bytes>>
        /\ remote' = [remote EXCEPT ![e] = "edited"]
    BY <1>1 DEF PublisherEdits
  <2>2. At' = At /\ Held' = Held /\ row' = row /\ data' = data
    BY <2>1 DEF queueVars, At, Held
  <2>3. remote' \in [Episodes -> Versions]
    BY <2>1 DEF Inv, ArchiveInv, ArchiveTypeOK, Versions
  <2> QED
    BY <2>1, <2>2, <2>3, WorldKeepsArchive
<1>2. CASE Tick
  <2>1. UNCHANGED <<status, object, step, faults, driver, bytes, remote>>
    BY <1>2 DEF Tick
  <2>2. remote' \in [Episodes -> Versions]
    BY <2>1 DEF Inv, ArchiveInv, ArchiveTypeOK
  <2> QED
    BY <1>2, <2>1, <2>2, TickEffect, WorldKeepsArchive DEF Tick
<1>3. CASE UNCHANGED vars
  <2>1. UNCHANGED <<status, object, step, faults, driver, bytes, remote, row, data, pc, qt>>
    BY <1>3 DEF vars, queueVars
  <2>2. remote' \in [Episodes -> Versions] /\ At' = At /\ Held' = Held
    BY <2>1 DEF Inv, ArchiveInv, ArchiveTypeOK, At, Held
  <2> QED
    BY <2>1, <2>2, WorldKeepsArchive
<1>4. CASE Restart
  BY <1>4, RestartEffect, GiveBackKeepsArchive DEF Restart
<1>5. CASE Settle
  <2>1. CASE Q!completeQueueTask(DownloadQueue)
    BY <1>5, <2>1, CompleteKeepsArchive DEF Settle
  <2>2. CASE Q!returnQueueTask(DownloadQueue)
    <3>1. At \in {"completing", "returning"} /\ At' = "polling" /\ row' = row /\ data' = data
      BY <2>2, ReturnEffect DEF Inv
    <3>2. step = "idle"
      BY <3>1 DEF Inv, ArchiveInv, HandlerPhase
    <3> QED
      BY <1>5, <3>1, <3>2, GiveBackKeepsArchive DEF Settle
  <2> QED
    BY <1>5, <2>1, <2>2 DEF Settle
<1>6. CASE SettleFails
  <2>1. At \in {"completing", "returning"} /\ At' = "polling" /\ row' = row /\ data' = data
    BY <1>6, ReturnEffect DEF SettleFails, Inv
  <2>2. step = "idle"
    BY <2>1 DEF Inv, ArchiveInv, HandlerPhase
  <2> QED
    BY <1>6, <2>1, <2>2, GiveBackKeepsArchive DEF SettleFails
<1> QED
  BY <1>1, <1>2, <1>3, <1>4, <1>5, <1>6, PushKeepsArchive, StartKeepsArchive,
     TransferKeepsArchive, SuccessKeepsArchive, ErrorKeepsArchive
     DEF Next, Worker, Handler

\* Inv is an invariant of Download.
LEMMA Invariance == Spec => []Inv
<1>1. Init => Inv
  BY InitArchive, QueueInvariance DEF Inv
<1>2. Inv /\ [Next]_vars => Inv'
  BY NextKeepsArchive, QueueInvariance DEF Inv
<1> QED
  BY <1>1, <1>2, PTL DEF Spec

-----------------------------------------------------------------------------
\* Every variable of the queue, of the handler, of the episodes table and of
\* storage keeps its type.
THEOREM TypeCorrect == Spec => []TypeOK
<1>1. Inv => TypeOK
  <2> SUFFICES ASSUME Inv PROVE TypeOK
    OBVIOUS
  <2>1. QP!TypeOK /\ ArchiveTypeOK
    BY DEF Inv, QP!IndInv, ArchiveInv
  <2>2. Q!TypeOK
    BY <2>1 DEF Q!TypeOK, QP!TypeOK, Q!Tasks, QP!Tasks, Q!Copies, QP!Copies,
                Q!NoTask, QP!NoTask
  <2> QED
    BY <2>1, <2>2 DEF TypeOK, ArchiveTypeOK
<1> QED
  BY <1>1, Invariance, PTL

\* No crash, failing call or requeue at the wrong moment makes the download
\* worker forget an episode that is not archived: completeQueueTask deletes
\* the last task of an episode only when its file and its status are there.
THEOREM WorkIsNotDropped == Spec => []UnfinishedHasTask
<1>1. Inv => UnfinishedHasTask
  BY DEF Inv, ArchiveInv
<1> QED
  BY <1>1, Invariance, PTL

\* With the S3 driver the feed lists nothing that cannot be served in full.
THEOREM FeedIsServable == Spec => []FeedServesWholeFiles
<1>1. Inv => FeedServesWholeFiles
  BY DEF Inv, ArchiveInv
<1> QED
  BY <1>1, Invariance, PTL

\* Once an episode has no task left, the size UpdateEpisodeStatus wrote is
\* that of the object SaveRemoteFile stored last.
THEOREM SizesAreRight == Spec => []SettledSizeIsRight
<1>1. Inv => SettledSizeIsRight
  BY DEF Inv, ArchiveInv
<1> QED
  BY <1>1, Invariance, PTL

-----------------------------------------------------------------------------
(* An archived copy is only changed by another download of its episode. *)

\* A row that does not exist has no episode.
AbsentRowsAreEmpty == \A t \in 1 .. MaxTasks : row[t] = "absent" => data[t] = None

\* The task the worker holds was delivered.
HeldWasDelivered == At # "polling" => deliveries[Held] > 0

\* An episode in the feed was put there by a delivery of one of its tasks.
SuccessWasDelivered ==
    \A e \in Episodes : InFeed(e) =>
        \E u \in 1 .. MaxTasks : data[u] = e /\ deliveries[u] > 0

\* A handler that works on an episode in the feed is not the first to.
ArchivedBefore == step # "idle" /\ InFeed(Current) => Redelivered(Current)

DeliveryInv ==
    /\ AbsentRowsAreEmpty
    /\ HeldWasDelivered
    /\ SuccessWasDelivered
    /\ ArchivedBefore

\* A step that neither inserts nor delivers a task nor puts an episode into the
\* feed, and lets the worker go on with its task or drop it.
LEMMA QuietKeepsDeliveries ==
    ASSUME Inv, DeliveryInv, data' = data, deliveries' = deliveries, status' = status,
           \A t \in 1 .. MaxTasks : row'[t] = "absent" => row[t] = "absent",
           At' # "polling" => At # "polling" /\ Held' = Held,
           step' # "idle" => step # "idle" /\ Held' = Held
    PROVE  DeliveryInv'
<1> USE DEF DeliveryInv
<1>1. AbsentRowsAreEmpty'
  BY DEF AbsentRowsAreEmpty
<1>2. HeldWasDelivered'
  BY DEF HeldWasDelivered
<1>3. SuccessWasDelivered'
  BY DEF SuccessWasDelivered, InFeed
<1>4. ArchivedBefore'
  <2>1. step' # "idle" => Current' = Current
    BY DEF Current, Held
  <2> QED
    BY <2>1 DEF ArchivedBefore, InFeed, Redelivered
<1> QED
  BY <1>1, <1>2, <1>3, <1>4

\* A new task leaves its episode out of the feed, and no task loses its episode.
LEMMA PushKeepsDeliveries ==
    ASSUME Inv, DeliveryInv, NEW e \in Episodes, CreateEpisode(e) \/ RequeueDownload(e)
    PROVE  DeliveryInv'
<1> USE DEF DeliveryInv
<1>1. /\ Q!PushQueueTask(DownloadQueue, e)
      /\ status' = [status EXCEPT ![e] = "pending"] /\ step' = step
  BY DEF CreateEpisode, RequeueDownload
<1>2. PICK t \in 1 .. MaxTasks : /\ row[t] = "absent"
                                 /\ row' = [row EXCEPT ![t] = "live"]
                                 /\ data' = [data EXCEPT ![t] = e]
  BY <1>1, PushEffect DEF Inv
<1>3. At' = At /\ Held' = Held /\ deliveries' = deliveries
  BY <1>1, PushEffect DEF Inv, Q!PushQueueTask, Q!history
<1>4. /\ row \in [1 .. MaxTasks -> {"absent", "live", "deleted"}]
      /\ data \in [1 .. MaxTasks -> Episodes \cup {None}]
      /\ status \in [Episodes -> {"absent", "pending", "success", "failed"}]
  BY QueueFacts DEF Inv, ArchiveInv, ArchiveTypeOK
<1>5. \A u \in 1 .. MaxTasks : data[u] \in Episodes => data'[u] = data[u]
  BY <1>2, <1>4, DownloadQueueAssumption DEF AbsentRowsAreEmpty
<1>6. \A f \in Episodes : InFeed(f)' => InFeed(f)
  BY <1>1, <1>4 DEF InFeed
<1>7. AbsentRowsAreEmpty'
  BY <1>2, <1>4 DEF AbsentRowsAreEmpty
<1>8. HeldWasDelivered'
  BY <1>3 DEF HeldWasDelivered
<1>9. SuccessWasDelivered'
  BY <1>3, <1>5, <1>6 DEF SuccessWasDelivered
<1>10. ArchivedBefore'
  <2> SUFFICES ASSUME step # "idle", InFeed(Current)' PROVE Redelivered(Current)'
    BY <1>1 DEF ArchivedBefore
  <2>1. At = "handling"
    BY DEF Inv, ArchiveInv, HandlerPhase
  <2>2. Current \in Episodes /\ data[Held] = Current /\ Held \in 1 .. MaxTasks
    BY <2>1, CurrentEpisode
  <2>3. Current' = Current
    BY <1>3, <1>5, <2>2 DEF Current, Held
  <2>4. Redelivered(Current)
    BY <1>6, <2>2, <2>3 DEF ArchivedBefore, InFeed
  <2> QED
    BY <1>3, <1>5, <2>2, <2>3, <2>4 DEF Redelivered
<1> QED
  BY <1>7, <1>8, <1>9, <1>10

\* A delivery for an episode in the feed is the second one of its task, or that
\* of a second task.
LEMMA StartKeepsDeliveries ==
    ASSUME Inv, DeliveryInv, StartHandler
    PROVE  DeliveryInv'
<1> USE DEF DeliveryInv
<1>1. Q!PopQueueTask(DownloadQueue) /\ status' = status
  BY DEF StartHandler
<1>2. /\ Held' \in 1 .. MaxTasks /\ row' = row /\ data' = data
  BY <1>1, PopEffect DEF Inv
<1>3. PICK u \in Q!Oldest(Q!Receivable(DownloadQueue)) :
        /\ deliveries' = [deliveries EXCEPT ![u] = deliveries[u] + 1]
        /\ qt' = [qt EXCEPT ![DownloadQueue] = [id |-> u, receiveCount |-> receiveCount[u] + 1]]
  BY <1>1 DEF Q!PopQueueTask
<1>4. Held' = u
  <2>1. DOMAIN qt = {DownloadQueue}
    BY DEF Inv, QP!IndInv, QP!TypeOK
  <2> QED
    BY <1>3, <2>1 DEF Held
<1>5. deliveries \in [1 .. MaxTasks -> Nat]
  BY DEF Inv, QP!IndInv, QP!TypeOK, QP!Tasks
<1>6. /\ deliveries'[u] = deliveries[u] + 1 /\ deliveries[u] \in Nat
      /\ \A t \in 1 .. MaxTasks : t # u => deliveries'[t] = deliveries[t]
  BY <1>2, <1>3, <1>4, <1>5
<1>7. \A t \in 1 .. MaxTasks : deliveries[t] > 0 => deliveries'[t] > 0
  BY <1>6
<1>8. HeldWasDelivered'
  BY <1>4, <1>6 DEF HeldWasDelivered
<1>9. AbsentRowsAreEmpty' /\ SuccessWasDelivered'
  BY <1>1, <1>2, <1>7 DEF AbsentRowsAreEmpty, SuccessWasDelivered, InFeed
<1>10. ArchivedBefore'
  <2> SUFFICES ASSUME InFeed(Current)' PROVE Redelivered(Current)'
    BY DEF ArchivedBefore
  <2>1. Current' = data[u]
    BY <1>2, <1>4 DEF Current, Held
  <2>2. data[u] \in Episodes
    BY <1>2, <1>4, PopEffect, <1>1 DEF Inv, ArchiveInv, TasksHaveEpisodes
  <2>3. PICK v \in 1 .. MaxTasks : data[v] = data[u] /\ deliveries[v] > 0
    BY <1>1, <2>1, <2>2 DEF SuccessWasDelivered, InFeed
  <2>4. CASE v = u
    BY <1>2, <1>4, <1>6, <2>1, <2>3, <2>4 DEF Redelivered
  <2>5. CASE v # u
    BY <1>2, <1>4, <2>1, <2>3, <2>5 DEF Redelivered
  <2> QED
    BY <2>4, <2>5
<1> QED
  BY <1>8, <1>9, <1>10

\* Only the handler of a delivered task puts its episode into the feed.
LEMMA MarkKeepsDeliveries ==
    ASSUME Inv, DeliveryInv, MarkSuccess \/ MarkFailed
    PROVE  DeliveryInv'
<1> USE DEF DeliveryInv
<1>1. PICK ok \in BOOLEAN : Q!HandlerReturns(DownloadQueue, ok)
  BY DEF MarkSuccess, MarkFailed
<1>2. At = "handling" /\ Held' = Held /\ row' = row /\ data' = data
  BY <1>1, HandlerReturnsEffect DEF Inv
<1>3. deliveries' = deliveries /\ step' = "idle"
  BY <1>1 DEF Q!HandlerReturns, MarkSuccess, MarkFailed
<1>4. Held \in 1 .. MaxTasks /\ data[Held] = Current /\ deliveries[Held] > 0
  BY <1>2, CurrentEpisode DEF HeldWasDelivered
<1>5. \A e \in Episodes : e # Current => status'[e] = status[e]
  BY DEF MarkSuccess, MarkFailed, Inv, ArchiveInv, ArchiveTypeOK
<1>6. SuccessWasDelivered'
  BY <1>2, <1>3, <1>4, <1>5 DEF SuccessWasDelivered, InFeed
<1>7. AbsentRowsAreEmpty' /\ HeldWasDelivered' /\ ArchivedBefore'
  BY <1>2, <1>3, <1>4 DEF AbsentRowsAreEmpty, HeldWasDelivered, ArchivedBefore
<1> QED
  BY <1>6, <1>7

\* No step of Download breaks DeliveryInv.
LEMMA NextKeepsDeliveries == ASSUME Inv, DeliveryInv, [Next]_vars PROVE DeliveryInv'
<1>1. CASE \/ Lookup \/ OpenObject \/ OpenFails \/ Fetch \/ FetchFails
           \/ \E e \in Episodes : PublisherEdits(e)
           \/ UNCHANGED vars
  <2>1. /\ UNCHANGED queueVars /\ status' = status
        /\ step' # "idle" => step # "idle"
    BY <1>1 DEF Lookup, OpenObject, OpenFails, Fetch, FetchFails, PublisherEdits, vars
  <2>2. data' = data /\ deliveries' = deliveries /\ row' = row /\ At' = At /\ Held' = Held
    BY <2>1 DEF queueVars, At, Held
  <2> QED
    BY <2>1, <2>2, QuietKeepsDeliveries
<1>2. CASE LookupFails \/ MarkFails
  <2>1. Q!HandlerReturns(DownloadQueue, FALSE) /\ status' = status /\ step' = "idle"
    BY <1>2 DEF LookupFails, MarkFails
  <2>2. At = "handling" /\ Held' = Held /\ row' = row /\ data' = data /\ deliveries' = deliveries
    BY <2>1, HandlerReturnsEffect DEF Inv, Q!HandlerReturns
  <2> QED
    BY <2>1, <2>2, QuietKeepsDeliveries
<1>3. CASE Settle \/ SettleFails
  <2>1. status' = status /\ step' = step /\ deliveries' = deliveries
    BY <1>3 DEF Settle, SettleFails, Q!completeQueueTask, Q!returnQueueTask, Q!SettleFails,
                Q!NextIteration, Q!history
  <2>2. /\ At \in {"completing", "returning"} /\ At' = "polling" /\ data' = data
        /\ row' = [row EXCEPT ![Held] = "deleted"] \/ row' = row
    BY <1>3, CompleteEffect, ReturnEffect DEF Settle, SettleFails, Inv
  <2>3. step = "idle"
    BY <2>2 DEF Inv, ArchiveInv, HandlerPhase
  <2>4. \A t \in 1 .. MaxTasks : row'[t] = "absent" => row[t] = "absent"
    BY <2>2, QueueFacts DEF Inv
  <2> QED
    BY <2>1, <2>2, <2>3, <2>4, QuietKeepsDeliveries
<1>4. CASE Restart
  <2>1. status' = status /\ step' = "idle" /\ deliveries' = deliveries
    BY <1>4 DEF Restart, Q!Restart, Q!history
  <2> QED
    BY <1>4, <2>1, RestartEffect, QuietKeepsDeliveries DEF Restart
<1>5. CASE Tick
  <2>1. status' = status /\ step' = step /\ deliveries' = deliveries
    BY <1>5 DEF Tick, Q!Tick
  <2> QED
    BY <1>5, <2>1, TickEffect, QuietKeepsDeliveries DEF Tick
<1> QED
  BY <1>1, <1>2, <1>3, <1>4, <1>5, PushKeepsDeliveries, StartKeepsDeliveries,
     MarkKeepsDeliveries DEF Next, Worker, Handler

\* With either driver a copy in the feed is changed only by the handler of a task
\* for the same episode that was delivered after the copy was made: a requeue's
\* or a redelivered one.  With the S3 driver it is then replaced by a whole file.
THEOREM CopiesAreLeftAlone == Spec => CopiesChangeOnlyByRedelivery
<1>1. Init => DeliveryInv
  BY DEF Init, Q!Init, Q!Tasks, DeliveryInv, AbsentRowsAreEmpty, HeldWasDelivered,
         SuccessWasDelivered, ArchivedBefore, At, InFeed
<1>2. Inv /\ DeliveryInv /\ [Next]_vars =>
        [\A e \in Episodes : Archived(e) /\ object'[e] # object[e] =>
            Redelivered(e) /\ (driver = "awss3" => Whole(e)')]_vars
  <2> SUFFICES ASSUME Inv, DeliveryInv, Next, NEW e \in Episodes,
                      Archived(e), object'[e] # object[e]
               PROVE  Redelivered(e) /\ (driver = "awss3" => object'[e] \in Versions)
    BY DEF Whole
  <2>1. Fetch \/ OpenObject
    BY DEF Next, Worker, Handler, CreateEpisode, RequeueDownload, PublisherEdits,
           StartHandler, Lookup, LookupFails, OpenFails, FetchFails,
           MarkSuccess, MarkFailed, MarkFails, Settle, SettleFails, Restart, Tick
  <2>2. /\ step # "idle"
        /\ \/ object' = [object EXCEPT ![Current] = remote[Current]]
           \/ driver = "local" /\ object' = [object EXCEPT ![Current] = "partial"]
    BY <2>1 DEF Fetch, OpenObject
  <2>3. object \in [Episodes -> Versions \cup {"none", "partial"}]
        /\ remote \in [Episodes -> Versions]
    BY DEF Inv, ArchiveInv, ArchiveTypeOK
  <2>4. e = Current
    BY <2>2, <2>3
  <2>5. Redelivered(e)
    BY <2>2, <2>4 DEF DeliveryInv, ArchivedBefore, Archived
  <2> QED
    BY <2>2, <2>3, <2>4, <2>5
<1> QED
  BY <1>1, <1>2, NextKeepsDeliveries, Invariance, PTL DEF Spec, CopiesChangeOnlyByRedelivery

-----------------------------------------------------------------------------
(* Every delivery of a task is paid for by a fault, or ends in completion. *)

\* The worker is on its way to complete task t: no fault so far.
Owed(t) ==
    /\ At # "polling" /\ Held = t
    /\ step \in {"lookup", "open", "fetch", "markSuccess"} \/ At = "completing"

\* A task was delivered no more often than faults have happened, not counting a
\* delivery that is still going well.
FaultsPay ==
    BoundedFaults => \A t \in 1 .. MaxTasks : row[t] # "deleted" =>
        receiveCount[t] <= faults + (IF Owed(t) THEN 1 ELSE 0)

\* The numbers FaultsPay compares.
LEMMA PayTypes ==
    ASSUME Inv
    PROVE  /\ faults \in Nat
           /\ receiveCount \in [1 .. MaxTasks -> 0 .. (MaxReceives + 1)]
           /\ \A t \in 1 .. MaxTasks : receiveCount[t] \in Nat
<1>1. faults \in Nat
  BY DownloadAssumption DEF Inv, ArchiveInv, ArchiveTypeOK
<1>2. receiveCount \in [1 .. MaxTasks -> 0 .. (MaxReceives + 1)]
  BY DEF Inv, QP!IndInv, QP!TypeOK, QP!Tasks
<1> QED
  BY <1>1, <1>2, DownloadQueueAssumption

\* A step that delivers nothing and pays with a fault for what it interrupts.
LEMMA FaultKeepsPay ==
    ASSUME Inv, FaultsPay, row' = row, receiveCount' = receiveCount, Fault
    PROVE  FaultsPay'
<1> SUFFICES ASSUME BoundedFaults, NEW t \in 1 .. MaxTasks, row[t] # "deleted"
             PROVE  receiveCount[t] <= faults' + (IF Owed(t)' THEN 1 ELSE 0)
  BY DEF FaultsPay
<1>1. faults' = faults + 1 /\ faults \in Nat /\ receiveCount[t] \in Nat
  BY PayTypes DEF Fault
<1>2. receiveCount[t] <= faults + 1
  BY <1>1 DEF FaultsPay
<1> QED
  BY <1>1, <1>2

\* A step that delivers nothing and takes no task off the way to completion,
\* unless it deletes it.
LEMMA QuietKeepsPay ==
    ASSUME Inv, FaultsPay, receiveCount' = receiveCount, faults' = faults,
           \A t \in 1 .. MaxTasks : row'[t] # "deleted" =>
                row[t] # "deleted" /\ (Owed(t) => Owed(t)')
    PROVE  FaultsPay'
<1> SUFFICES ASSUME BoundedFaults, NEW t \in 1 .. MaxTasks, row'[t] # "deleted"
             PROVE  receiveCount[t] <= faults + (IF Owed(t)' THEN 1 ELSE 0)
  BY DEF FaultsPay
<1>1. receiveCount[t] <= faults + (IF Owed(t) THEN 1 ELSE 0)
  BY DEF FaultsPay
<1>2. faults \in Nat /\ receiveCount[t] \in Nat
  BY PayTypes
<1> QED
  BY <1>1, <1>2

\* A pop counts one delivery, and the handler starts without a fault.
LEMMA StartKeepsPay == ASSUME Inv, FaultsPay, StartHandler PROVE FaultsPay'
<1>1. Q!PopQueueTask(DownloadQueue) /\ step' = "lookup" /\ faults' = faults
  BY DEF StartHandler
<1>2. At = "polling" /\ At' = "handling" /\ row' = row
  BY <1>1, PopEffect DEF Inv
<1>3. PICK u \in Q!Oldest(Q!Receivable(DownloadQueue)) :
        /\ receiveCount' = [receiveCount EXCEPT ![u] = receiveCount[u] + 1]
        /\ qt' = [qt EXCEPT ![DownloadQueue] = [id |-> u, receiveCount |-> receiveCount[u] + 1]]
  BY <1>1 DEF Q!PopQueueTask, Q!Save
<1>4. Held' = u
  <2>1. DOMAIN qt = {DownloadQueue}
    BY DEF Inv, QP!IndInv, QP!TypeOK
  <2> QED
    BY <1>3, <2>1 DEF Held
<1> SUFFICES ASSUME BoundedFaults, NEW t \in 1 .. MaxTasks, row[t] # "deleted"
             PROVE  receiveCount'[t] <= faults + (IF Owed(t)' THEN 1 ELSE 0)
  BY <1>1, <1>2 DEF FaultsPay
<1>5. receiveCount[t] <= faults /\ faults \in Nat /\ receiveCount[t] \in Nat
  BY <1>2, PayTypes DEF FaultsPay, Owed
<1>6. CASE t = u
  <2>1. receiveCount'[t] = receiveCount[t] + 1
    BY <1>3, <1>6, PayTypes
  <2>2. Owed(t)'
    BY <1>1, <1>2, <1>4, <1>6 DEF Owed
  <2> QED
    BY <1>5, <2>1, <2>2
<1>7. CASE t # u
  <2>1. receiveCount'[t] = receiveCount[t]
    BY <1>3, <1>7, PayTypes
  <2> QED
    BY <1>5, <2>1
<1> QED
  BY <1>6, <1>7

\* The handler goes on without a fault, or records one that has been paid for.
LEMMA HandlerKeepsPay ==
    ASSUME Inv, FaultsPay, Lookup \/ OpenObject \/ Fetch \/ MarkSuccess \/ MarkFailed
    PROVE  FaultsPay'
<1>1. CASE Lookup \/ OpenObject \/ Fetch
  <2>1. /\ UNCHANGED queueVars /\ faults' = faults
        /\ step' \in {"open", "fetch", "markSuccess"}
    BY <1>1 DEF Lookup, OpenObject, Fetch
  <2>2. /\ row' = row /\ receiveCount' = receiveCount
        /\ At' = At /\ Held' = Held
    BY <2>1 DEF queueVars, At, Held
  <2>3. \A t \in 1 .. MaxTasks : Owed(t) => Owed(t)'
    BY <2>1, <2>2 DEF Owed
  <2> QED
    BY <2>1, <2>2, <2>3, QuietKeepsPay
<1>2. CASE MarkSuccess \/ MarkFailed
  <2>1. PICK ok \in BOOLEAN : /\ Q!HandlerReturns(DownloadQueue, ok)
                              /\ ok \/ step = "markFailed"
    BY <1>2 DEF MarkSuccess, MarkFailed
  <2>2. At = "handling" /\ Held' = Held /\ row' = row /\ (ok => At' = "completing")
    BY <2>1, HandlerReturnsEffect DEF Inv
  <2>3. receiveCount' = receiveCount /\ faults' = faults
    BY <1>2, <2>1 DEF Q!HandlerReturns, Q!table, MarkSuccess, MarkFailed
  <2>4. \A t \in 1 .. MaxTasks : Owed(t) => Owed(t)'
    BY <2>1, <2>2 DEF Owed
  <2> QED
    BY <2>2, <2>3, <2>4, QuietKeepsPay
<1> QED
  BY <1>1, <1>2

\* Whatever goes wrong is one fault.
LEMMA FailuresKeepPay ==
    ASSUME Inv, FaultsPay,
           LookupFails \/ OpenFails \/ FetchFails \/ MarkFails \/ SettleFails \/ Restart
    PROVE  FaultsPay'
<1>1. Fault
  BY DEF LookupFails, OpenFails, FetchFails, MarkFails, SettleFails, Restart
<1>2. row' = row /\ receiveCount' = receiveCount
  BY DEF LookupFails, OpenFails, FetchFails, MarkFails, SettleFails, Restart, queueVars,
         Q!HandlerReturns, Q!SettleFails, Q!Restart, Q!table
<1> QED
  BY <1>1, <1>2, FaultKeepsPay

\* A task that is completed needs no payment, one that is returned has paid.
LEMMA SettleKeepsPay == ASSUME Inv, FaultsPay, Settle PROVE FaultsPay'
<1>1. step = "idle" /\ faults' = faults
  BY QueueFacts, CompleteEffect, ReturnEffect DEF Settle, Inv, ArchiveInv, HandlerPhase
<1>2. CASE Q!completeQueueTask(DownloadQueue)
  <2>1. At = "completing" /\ row' = [row EXCEPT ![Held] = "deleted"]
    BY <1>2, CompleteEffect DEF Inv
  <2>2. receiveCount' = receiveCount
    BY <1>2 DEF Q!completeQueueTask
  <2>3. \A t \in 1 .. MaxTasks : row'[t] # "deleted" => row[t] # "deleted" /\ ~Owed(t)
    BY <2>1, QueueFacts DEF Inv, Owed
  <2> QED
    BY <1>1, <2>2, <2>3, QuietKeepsPay
<1>3. CASE Q!returnQueueTask(DownloadQueue)
  <2>1. /\ At = "returning"
        /\ receiveCount' = [receiveCount EXCEPT ![Held] = qt[DownloadQueue].receiveCount]
    BY <1>3 DEF Q!returnQueueTask, Q!Save, At, Held
  <2>2. row' = row
    BY <1>3, ReturnEffect DEF Inv
  <2>3. qt[DownloadQueue].receiveCount = receiveCount[Held]
    BY <2>1 DEF Inv, QP!IndInv, QP!CopyIsCurrent, At, Held
  <2>4. receiveCount' = receiveCount
    BY <2>1, <2>3, PayTypes
  <2>5. \A t \in 1 .. MaxTasks : ~Owed(t)
    BY <1>1, <2>1 DEF Owed
  <2> QED
    BY <1>1, <2>2, <2>4, <2>5, QuietKeepsPay
<1> QED
  BY <1>2, <1>3 DEF Settle

\* New tasks, new files and time: nothing is delivered.
LEMMA WorldKeepsPay ==
    ASSUME Inv, FaultsPay,
           \/ \E e \in Episodes : CreateEpisode(e) \/ RequeueDownload(e) \/ PublisherEdits(e)
           \/ Tick
           \/ UNCHANGED vars
    PROVE  FaultsPay'
<1>1. receiveCount' = receiveCount /\ faults' = faults /\ step' = step /\ pc' = pc /\ qt' = qt
  BY DEF CreateEpisode, RequeueDownload, PublisherEdits, Tick, vars, queueVars,
         Q!PushQueueTask, Q!Tick, Q!workers
<1>2. \A t \in 1 .. MaxTasks : row[t] = "deleted" => row'[t] = "deleted"
  <2>1. CASE \E e \in Episodes : CreateEpisode(e) \/ RequeueDownload(e)
    <3>1. PICK u \in 1 .. MaxTasks : row[u] = "absent" /\ row' = [row EXCEPT ![u] = "live"]
      BY <2>1, PushEffect DEF CreateEpisode, RequeueDownload, Inv
    <3> QED
      BY <3>1, QueueFacts DEF Inv
  <2>2. CASE \/ \E e \in Episodes : PublisherEdits(e)
             \/ Tick \/ UNCHANGED vars
    BY <2>2 DEF PublisherEdits, Tick, vars, queueVars, Q!Tick
  <2> QED
    BY <2>1, <2>2
<1>3. \A t \in 1 .. MaxTasks : Owed(t) => Owed(t)'
  BY <1>1 DEF Owed, At, Held
<1> QED
  BY <1>1, <1>2, <1>3, QuietKeepsPay

\* The download worker gives an episode's task up only when more calls than
\* maxReceives have failed: neither requeues nor other episodes nor the
\* downloads that go well use up deliveries.
THEOREM DeliveriesArePaidFor == Spec => []GivenUpOnlyAfterFaults
<1>1. Init => FaultsPay
  BY DEF Init, Q!Init, Q!Tasks, FaultsPay, Owed, At
<1>2. Inv /\ FaultsPay /\ [Next]_vars => FaultsPay'
  BY StartKeepsPay, HandlerKeepsPay, FailuresKeepPay, SettleKeepsPay, WorldKeepsPay
     DEF Next, Worker, Handler
<1>3. Inv /\ FaultsPay => GivenUpOnlyAfterFaults
  <2> SUFFICES ASSUME Inv, FaultsPay, BoundedFaults, NEW t \in 1 .. MaxTasks, GivenUp(t)
               PROVE  faults > MaxReceives
    BY DEF GivenUpOnlyAfterFaults
  <2>1. row[t] = "live" /\ receiveCount[t] > MaxReceives /\ ~Owed(t)
    BY DEF GivenUp, Q!Exhausted, Owed, At, Held
  <2>2. receiveCount[t] <= faults /\ receiveCount[t] \in Nat /\ faults \in Nat
    BY <2>1, PayTypes DEF FaultsPay
  <2> QED
    BY <2>1, <2>2, DownloadQueueAssumption
<1> QED
  BY <1>1, <1>2, <1>3, Invariance, PTL DEF Spec

\* What the handlers and the web server may rely on: the download queue, with
\* the real handler, implements the ledger.  A task that was completed is never
\* reopened, and none is lost or tried more often than maxReceives + 1 times.
THEOREM DownloadImplementsLedger == Spec => QP!ImplementsLedger
<1>1. Init => QP!Init
  BY SameInit DEF Init
<1>2. [Next]_vars => [QP!Next]_(QP!vars)
  BY StepIsQueueStep, SameNext
<1>3. Spec => QP!Spec
  BY <1>1, <1>2, PTL DEF Spec, QP!Spec
<1>4. QP!Spec => QP!ImplementsLedger
  BY QueueAssumptions, QP!QueueImplementsLedger
<1> QED
  BY <1>3, <1>4, PTL
=============================================================================
