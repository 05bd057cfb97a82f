------------------------------- MODULE Queue -------------------------------
(***************************************************************************)
(* The persistent task queue of pkg/framework/queue.go: the queue_tasks    *)
(* table, PushQueueTask, PopQueueTask, completeQueueTask, returnQueueTask  *)
(* and the loop of QueueWorker.Start.  cmd/serve/serve.go starts exactly   *)
(* one QueueWorker per queue name, so a worker is identified here with the *)
(* name of its queue.                                                      *)
(*                                                                         *)
(* Every call to the database is one SQLite transaction: it takes effect   *)
(* atomically or fails without effect.  A failing or empty pop changes     *)
(* nothing (the worker sleeps and polls again) and is therefore a          *)
(* stuttering step; the other failures are actions.  The process may die   *)
(* at any point, which loses what the workers hold in memory.              *)
(*                                                                         *)
(* Time: a row keeps visible_after as the time that is left until then,    *)
(* hiddenFor = max(0, visible_after - now), so that no clock grows.        *)
(***************************************************************************)
EXTENDS Naturals

CONSTANTS
    Queues,             \* the queue names, each with its worker
    Data,               \* payloads of tasks
    None,               \* column value of a row that does not exist
    MaxTasks,           \* bound on the rows ever inserted
    MaxReceives,        \* maxReceives
    VisibilityTimeout,  \* visibilityTimeout
    BackoffInterval     \* backoffInterval

Tasks == 1 .. MaxTasks

\* returnQueueTask: backoffInterval * backoffExponent ^ receiveCount
Backoff(n) == BackoffInterval * 2 ^ n

ASSUME QueueAssumption ==
    /\ MaxTasks \in Nat
    /\ MaxReceives \in Nat
    /\ VisibilityTimeout \in Nat
    /\ None \notin Queues
    /\ None \notin Data

ASSUME BackoffAssumption == \A n \in 0 .. (MaxReceives + 1) : Backoff(n) \in Nat

VARIABLES
    \* the table queue_tasks; ids are given out in order of creation
    pushed,         \* number of rows inserted so far: the rows are 1 .. pushed
    row,            \* "absent", "live" or "deleted" (deleted_at is set)
    queueName,      \* column queue_name
    data,           \* column data
    receiveCount,   \* column receive_count
    hiddenFor,      \* column visible_after, relative to now
    \* the workers
    pc,             \* where the loop of QueueWorker.Start is
    qt,             \* the worker's copy of the row it popped
    \* history, read by no action
    deliveries,     \* how often the handler was started for the task
    succeeded,      \* tasks for which some run of the handler returned nil
    sinceReceive    \* time since the last delivery, up to VisibilityTimeout

table == <<pushed, row, queueName, data, receiveCount, hiddenFor>>
workers == <<pc, qt>>
history == <<deliveries, succeeded, sinceReceive>>
vars == <<table, workers, history>>

\* The zero QueueTask; a popped copy keeps the columns a worker can change.
NoTask == [id |-> 0, receiveCount |-> 0]
Copies == [id : Tasks, receiveCount : 1 .. (MaxReceives + 1)] \cup {NoTask}

TypeOK ==
    /\ pushed \in 0 .. MaxTasks
    /\ row \in [Tasks -> {"absent", "live", "deleted"}]
    /\ queueName \in [Tasks -> Queues \cup {None}]
    /\ data \in [Tasks -> Data \cup {None}]
    /\ receiveCount \in [Tasks -> 0 .. (MaxReceives + 1)]
    /\ hiddenFor \in [Tasks -> Nat]
    /\ pc \in [Queues -> {"polling", "handling", "completing", "returning"}]
    /\ qt \in [Queues -> Copies]
    /\ deliveries \in [Tasks -> Nat]
    /\ succeeded \in SUBSET Tasks
    /\ sinceReceive \in [Tasks -> 0 .. VisibilityTimeout]

Init ==
    /\ pushed = 0
    /\ row = [t \in Tasks |-> "absent"]
    /\ queueName = [t \in Tasks |-> None]
    /\ data = [t \in Tasks |-> None]
    /\ receiveCount = [t \in Tasks |-> 0]
    /\ hiddenFor = [t \in Tasks |-> 0]
    /\ pc = [q \in Queues |-> "polling"]
    /\ qt = [q \in Queues |-> NoTask]
    /\ deliveries = [t \in Tasks |-> 0]
    /\ succeeded = {}
    /\ sinceReceive = [t \in Tasks |-> VisibilityTimeout]

-----------------------------------------------------------------------------
(* The operations on the table. *)

PushQueueTask(q, d) ==
    /\ pushed < MaxTasks
    /\ LET t == pushed + 1 IN
        /\ pushed' = t
        /\ row' = [row EXCEPT ![t] = "live"]
        /\ queueName' = [queueName EXCEPT ![t] = q]
        /\ data' = [data EXCEPT ![t] = d]
    /\ UNCHANGED <<receiveCount, hiddenFor, workers, history>>

\* Mutants of Receivable: one delivery more; one less; the tasks of every
\* queue; soft-deleted rows too.
ReceivableOnceMore(q) ==
    {t \in Tasks : /\ row[t] = "live"
                   /\ queueName[t] = q
                   /\ hiddenFor[t] = 0
                   /\ receiveCount[t] <= MaxReceives + 1}

ReceivableOnceLess(q) ==
    {t \in Tasks : /\ row[t] = "live"
                   /\ queueName[t] = q
                   /\ hiddenFor[t] = 0
                   /\ receiveCount[t] < MaxReceives}

ReceivableOfAnyQueue(q) ==
    {t \in Tasks : /\ row[t] = "live"
                   /\ hiddenFor[t] = 0
                   /\ receiveCount[t] <= MaxReceives}

ReceivableUnscoped(q) ==
    {t \in Tasks : /\ row[t] # "absent"
                   /\ queueName[t] = q
                   /\ hiddenFor[t] = 0
                   /\ receiveCount[t] <= MaxReceives}

\* The rows the query of PopQueueTask selects.
Receivable(q) ==
    {t \in Tasks : /\ row[t] = "live"
                   /\ queueName[t] = q
                   /\ hiddenFor[t] = 0
                   /\ receiveCount[t] <= MaxReceives}

\* ORDER BY created_at ASC, First: at most one row.
Oldest(ts) == {t \in ts : \A u \in ts : t <= u}

\* gorm's Save: UPDATE of every column of the live row with the copy's id
\* and, when no row was updated, INSERT ... ON CONFLICT DO UPDATE, which
\* clears deleted_at: either way the row is live afterwards.
Save(copy, hidden) ==
    /\ row' = [row EXCEPT ![copy.id] = "live"]
    /\ receiveCount' = [receiveCount EXCEPT ![copy.id] = copy.receiveCount]
    /\ hiddenFor' = [hiddenFor EXCEPT ![copy.id] = hidden]
    /\ UNCHANGED <<pushed, queueName, data>>

PopQueueTask(q) ==
    /\ pc[q] = "polling"
    /\ \E t \in Oldest(Receivable(q)) :
        LET copy == [id |-> t, receiveCount |-> receiveCount[t] + 1] IN
        /\ Save(copy, VisibilityTimeout)
        /\ qt' = [qt EXCEPT ![q] = copy]
        /\ deliveries' = [deliveries EXCEPT ![t] = @ + 1]
        /\ sinceReceive' = [sinceReceive EXCEPT ![t] = 0]
    /\ pc' = [pc EXCEPT ![q] = "handling"]
    /\ UNCHANGED succeeded

\* Mutant of HandlerReturns: the handler's error is not looked at.
HandlerErrorIgnored(q, ok) ==
    /\ pc[q] = "handling"
    /\ pc' = [pc EXCEPT ![q] = "completing"]
    /\ succeeded' = IF ok THEN succeeded \cup {qt[q].id} ELSE succeeded
    /\ UNCHANGED <<table, qt, deliveries, sinceReceive>>

\* HandlerFn returns to QueueWorker.Start, with or without an error.
HandlerReturns(q, ok) ==
    /\ pc[q] = "handling"
    /\ pc' = [pc EXCEPT ![q] = IF ok THEN "completing" ELSE "returning"]
    /\ succeeded' = IF ok THEN succeeded \cup {qt[q].id} ELSE succeeded
    /\ UNCHANGED <<table, qt, deliveries, sinceReceive>>

\* The loop goes on to its next iteration.
NextIteration(q) ==
    /\ pc' = [pc EXCEPT ![q] = "polling"]
    /\ qt' = [qt EXCEPT ![q] = NoTask]
    /\ UNCHANGED history

\* The row is soft-deleted (gorm.Model has DeletedAt).
completeQueueTask(q) ==
    /\ pc[q] = "completing"
    /\ row' = [row EXCEPT ![qt[q].id] = "deleted"]
    /\ NextIteration(q)
    /\ UNCHANGED <<pushed, queueName, data, receiveCount, hiddenFor>>

\* Mutants of returnQueueTask: the receive is given back; no backoff.
ReturnRefundsReceive(q) ==
    /\ pc[q] = "returning"
    /\ Save([qt[q] EXCEPT !.receiveCount = @ - 1], Backoff(qt[q].receiveCount))
    /\ NextIteration(q)

ReturnWithoutBackoff(q) ==
    /\ pc[q] = "returning"
    /\ Save(qt[q], 0)
    /\ NextIteration(q)

\* The copy is saved as it was popped, with a new visible_after.
returnQueueTask(q) ==
    /\ pc[q] = "returning"
    /\ Save(qt[q], Backoff(qt[q].receiveCount))
    /\ NextIteration(q)

\* completeQueueTask or returnQueueTask fails: logged, the loop goes on.
SettleFails(q) ==
    /\ pc[q] \in {"completing", "returning"}
    /\ NextIteration(q)
    /\ UNCHANGED table

\* The process dies and is started again: workers forget, the table stays.
Restart ==
    /\ pc' = [q \in Queues |-> "polling"]
    /\ qt' = [q \in Queues |-> NoTask]
    /\ UNCHANGED <<table, history>>

\* One unit of time passes.
Tick ==
    /\ hiddenFor' = [t \in Tasks |-> IF hiddenFor[t] = 0 THEN 0 ELSE hiddenFor[t] - 1]
    /\ sinceReceive' = [t \in Tasks |-> IF sinceReceive[t] = VisibilityTimeout
                                        THEN VisibilityTimeout
                                        ELSE sinceReceive[t] + 1]
    /\ UNCHANGED <<pushed, row, queueName, data, receiveCount, workers,
                   deliveries, succeeded>>

\* One iteration of QueueWorker.Start, step by step.
WorkerStep(q) ==
    \/ PopQueueTask(q)
    \/ \E ok \in BOOLEAN : HandlerReturns(q, ok)
    \/ completeQueueTask(q)
    \/ returnQueueTask(q)
    \/ SettleFails(q)

Next ==
    \/ \E q \in Queues, d \in Data : PushQueueTask(q, d)
    \/ \E q \in Queues : WorkerStep(q)
    \/ Restart
    \/ Tick

Spec == Init /\ [][Next]_vars

\* Workers keep going: handlers return (the HTTP clients they use have a
\* timeout), a pop does not fail for ever, and time passes.
Fairness ==
    /\ WF_vars(Tick)
    /\ \A q \in Queues : WF_vars(WorkerStep(q))

FairSpec == Spec /\ Fairness
-----------------------------------------------------------------------------
(* What the queue guarantees. *)

\* The deliveries of a task are over: no pop selects it ever again.
Exhausted(t) == row[t] = "live" /\ receiveCount[t] > MaxReceives

\* A worker of another iteration, or of an earlier process, never makes a
\* worker's copy out of date: what returnQueueTask saves and what
\* completeQueueTask deletes is the row as it is now, and it is not deleted.
CopyIsCurrent ==
    \A q \in Queues : pc[q] # "polling" =>
        /\ row[qt[q].id] = "live"
        /\ queueName[qt[q].id] = q
        /\ qt[q].receiveCount = receiveCount[qt[q].id]

\* completeQueueTask removes a task only after some run of its handler
\* returned nil: neither a crash, nor a failed return, nor a redelivery makes
\* the queue forget work that was never done.
DeletedOnlyAfterSuccess == \A t \in Tasks : row[t] = "deleted" => t \in succeeded

\* The handler is started for a task at most 1 + maxReceives times ("retries
\* up to 5 times"), whatever crashes and failed writes happen in between.
DeliveriesBounded ==
    \A t \in Tasks : deliveries[t] = receiveCount[t] /\ deliveries[t] <= MaxReceives + 1

\* The shortest time between two deliveries of a task, after n of them.
MinDelay(n) == IF Backoff(n) < VisibilityTimeout THEN Backoff(n) ELSE VisibilityTimeout

\* A task that was delivered n times is not delivered again before the backoff
\* of its n-th failure has passed since that delivery, also when the worker
\* died or could not write the return.
RetriesAreSpaced ==
    [][\A t \in Tasks : deliveries'[t] > deliveries[t] /\ deliveries[t] > 0
            => sinceReceive[t] >= MinDelay(deliveries[t])]_vars

\* Queue implements TaskLedger: in particular the upsert of Save never brings a
\* completed task back, and no crash or stale copy gives it another delivery.
Ledger == INSTANCE TaskLedger WITH
    Limit <- MaxReceives + 1,
    submitted <- {t \in Tasks : row[t] # "absent"},
    attempts <- deliveries,
    worked <- succeeded,
    closed <- {t \in Tasks : row[t] = "deleted"}

\* Every behaviour of the queue is a behaviour of the ledger.
ImplementsLedger == Ledger!Spec

\* Every task that is pushed is in the end completed or out of deliveries,
\* in spite of crashes, failing writes and older tasks that keep failing.
EveryTaskSettles ==
    \A t \in Tasks : row[t] = "live" ~> (row[t] = "deleted" \/ Exhausted(t))
=============================================================================
