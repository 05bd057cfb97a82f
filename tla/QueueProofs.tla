---------------------------- MODULE QueueProofs ----------------------------
(***************************************************************************)
(* Proofs about Queue for every number of tasks, every set of queues and   *)
(* every timeout.  The properties rest on one inductive invariant: the     *)
(* copy a worker holds is the current, live row of its own queue.          *)
(***************************************************************************)
EXTENDS Queue, TLAPS

\* Rows exist exactly up to the last one pushed.
RowsUpToPushed == \A t \in Tasks : row[t] = "absent" <=> t > pushed

\* A worker past its pop holds a copy; one that completes has succeeded.
HoldsTask ==
    \A q \in Queues :
        /\ pc[q] # "polling" => qt[q].id \in Tasks
        /\ pc[q] = "completing" => qt[q].id \in succeeded

\* What is left of a task's hiding makes up for the time since its delivery.
Spacing ==
    \A t \in Tasks : deliveries[t] > 0 =>
        sinceReceive[t] + hiddenFor[t] >= MinDelay(deliveries[t])

IndInv ==
    /\ TypeOK
    /\ RowsUpToPushed
    /\ HoldsTask
    /\ CopyIsCurrent
    /\ DeletedOnlyAfterSuccess
    /\ DeliveriesBounded
    /\ Spacing

-----------------------------------------------------------------------------
\* The invariant holds of the empty table.
LEMMA InitEstablishesInv == Init => IndInv
<1> SUFFICES ASSUME Init PROVE IndInv
  OBVIOUS
<1> USE QueueAssumption DEF Init, Tasks
<1>1. TypeOK
  BY DEF TypeOK, Copies
<1>2. RowsUpToPushed /\ HoldsTask /\ CopyIsCurrent
  BY DEF RowsUpToPushed, HoldsTask, CopyIsCurrent
<1>3. DeletedOnlyAfterSuccess /\ DeliveriesBounded /\ Spacing
  BY DEF DeletedOnlyAfterSuccess, DeliveriesBounded, Spacing
<1> QED
  BY <1>1, <1>2, <1>3 DEF IndInv

\* A push adds a row no worker holds.
LEMMA PushPreservesInv ==
    ASSUME IndInv, NEW q \in Queues, NEW d \in Data, PushQueueTask(q, d)
    PROVE  IndInv'
<1> USE QueueAssumption DEF IndInv, PushQueueTask, Tasks, workers, history
<1>1. TypeOK'
  <2>1. pushed' \in 0 .. MaxTasks
    BY DEF TypeOK
  <2>2. /\ row' \in [Tasks -> {"absent", "live", "deleted"}]
        /\ queueName' \in [Tasks -> Queues \cup {None}]
        /\ data' \in [Tasks -> Data \cup {None}]
    BY DEF TypeOK
  <2>3. UNCHANGED <<receiveCount, hiddenFor, pc, qt, deliveries, succeeded, sinceReceive>>
    OBVIOUS
  <2> QED
    BY <2>1, <2>2, <2>3 DEF TypeOK
<1>2. RowsUpToPushed'
  <2> SUFFICES ASSUME NEW t \in Tasks PROVE (row[t] = "absent" <=> t > pushed)'
    BY DEF RowsUpToPushed
  <2>1. pushed \in Nat /\ t \in Nat /\ pushed' = pushed + 1 /\ (row[t] = "absent" <=> t > pushed)
    BY DEF RowsUpToPushed, TypeOK
  <2>2. CASE t = pushed + 1
    <3>1. row'[t] = "live"
      BY <2>2 DEF TypeOK
    <3> QED
      BY <2>1, <2>2, <3>1
  <2>3. CASE t # pushed + 1
    <3>1. row'[t] = row[t]
      BY <2>3 DEF TypeOK
    <3> QED
      BY <2>1, <2>3, <3>1
  <2> QED
    BY <2>2, <2>3
<1>3. HoldsTask'
  BY DEF HoldsTask, TypeOK
<1>4. CopyIsCurrent'
  <2> SUFFICES ASSUME NEW w \in Queues, pc'[w] # "polling"
               PROVE  /\ row'[qt'[w].id] = "live"
                      /\ queueName'[qt'[w].id] = w
                      /\ qt'[w].receiveCount = receiveCount'[qt'[w].id]
    BY DEF CopyIsCurrent
  <2>1. pc' = pc /\ qt' = qt /\ receiveCount' = receiveCount
    OBVIOUS
  <2>2. /\ qt[w].id \in Tasks /\ row[qt[w].id] = "live" /\ queueName[qt[w].id] = w
        /\ qt[w].receiveCount = receiveCount[qt[w].id]
    BY <2>1 DEF CopyIsCurrent, HoldsTask
  <2>3. qt[w].id # pushed + 1
    <3>1. ~(qt[w].id > pushed)
      BY <2>2 DEF RowsUpToPushed
    <3>2. pushed \in Nat
      BY DEF TypeOK
    <3> QED
      BY <3>1, <3>2
  <2>4. row'[qt[w].id] = row[qt[w].id] /\ queueName'[qt[w].id] = queueName[qt[w].id]
    BY <2>2, <2>3 DEF TypeOK
  <2> QED
    BY <2>1, <2>2, <2>4
<1>5. DeletedOnlyAfterSuccess'
  BY DEF DeletedOnlyAfterSuccess, TypeOK
<1>6. DeliveriesBounded' /\ Spacing'
  BY DEF DeliveriesBounded, Spacing, MinDelay
<1> QED
  BY <1>1, <1>2, <1>3, <1>4, <1>5, <1>6

\* A pop takes a live row that no other worker holds, since every other
\* worker holds a row of its own queue.
LEMMA PopPreservesInv ==
    ASSUME IndInv, NEW q \in Queues, PopQueueTask(q)
    PROVE  IndInv'
<1> USE QueueAssumption DEF IndInv
<1>1. PICK t \in Oldest(Receivable(q)) :
        LET copy == [id |-> t, receiveCount |-> receiveCount[t] + 1] IN
        /\ Save(copy, VisibilityTimeout)
        /\ qt' = [qt EXCEPT ![q] = copy]
        /\ deliveries' = [deliveries EXCEPT ![t] = @ + 1]
        /\ sinceReceive' = [sinceReceive EXCEPT ![t] = 0]
  BY DEF PopQueueTask
<1>2. /\ t \in Tasks
      /\ row[t] = "live"
      /\ queueName[t] = q
      /\ receiveCount[t] \in 0 .. MaxReceives
  BY DEF Oldest, Receivable, TypeOK
<1>3. /\ row' = [row EXCEPT ![t] = "live"]
      /\ receiveCount' = [receiveCount EXCEPT ![t] = receiveCount[t] + 1]
      /\ hiddenFor' = [hiddenFor EXCEPT ![t] = VisibilityTimeout]
      /\ qt' = [qt EXCEPT ![q] = [id |-> t, receiveCount |-> receiveCount[t] + 1]]
      /\ deliveries' = [deliveries EXCEPT ![t] = deliveries[t] + 1]
      /\ sinceReceive' = [sinceReceive EXCEPT ![t] = 0]
      /\ pc' = [pc EXCEPT ![q] = "handling"]
      /\ UNCHANGED <<pushed, queueName, data, succeeded>>
  BY <1>1 DEF Save, PopQueueTask
<1> HIDE DEF IndInv
<1>4. TypeOK'
  <2>1. /\ receiveCount[t] + 1 \in 1 .. (MaxReceives + 1)
        /\ receiveCount[t] + 1 \in 0 .. (MaxReceives + 1)
    BY <1>2
  <2>2. qt' \in [Queues -> Copies]
    BY <1>2, <1>3, <2>1 DEF TypeOK, IndInv, Copies
  <2>3. receiveCount' \in [Tasks -> 0 .. (MaxReceives + 1)]
    BY <1>3, <2>1 DEF TypeOK, IndInv
  <2>4. /\ row' \in [Tasks -> {"absent", "live", "deleted"}]
        /\ hiddenFor' \in [Tasks -> Nat]
        /\ pc' \in [Queues -> {"polling", "handling", "completing", "returning"}]
    BY <1>3 DEF TypeOK, IndInv
  <2>5. deliveries' \in [Tasks -> Nat] /\ sinceReceive' \in [Tasks -> 0 .. VisibilityTimeout]
    <3>1. deliveries[t] + 1 \in Nat /\ 0 \in 0 .. VisibilityTimeout
      BY <1>2 DEF TypeOK, IndInv
    <3> QED
      BY <1>3, <3>1 DEF TypeOK, IndInv
  <2> QED
    BY <1>3, <2>2, <2>3, <2>4, <2>5 DEF TypeOK, IndInv
<1>5. RowsUpToPushed'
  <2>1. row' = row
    BY <1>2, <1>3 DEF TypeOK, IndInv
  <2> QED
    BY <1>3, <2>1 DEF IndInv, RowsUpToPushed
<1>6. HoldsTask'
  BY <1>2, <1>3 DEF TypeOK, IndInv, HoldsTask
<1>7. CopyIsCurrent'
  <2> SUFFICES ASSUME NEW p \in Queues, pc'[p] # "polling"
               PROVE  /\ row'[qt'[p].id] = "live"
                      /\ queueName'[qt'[p].id] = p
                      /\ qt'[p].receiveCount = receiveCount'[qt'[p].id]
    BY DEF CopyIsCurrent
  <2>1. CASE p = q
    BY <1>2, <1>3, <2>1 DEF TypeOK, IndInv
  <2>2. CASE p # q
    <3>1. /\ pc[p] # "polling"
          /\ qt'[p] = qt[p]
          /\ qt[p].id \in Tasks
          /\ row[qt[p].id] = "live"
          /\ queueName[qt[p].id] = p
          /\ qt[p].receiveCount = receiveCount[qt[p].id]
      BY <1>3, <2>2 DEF TypeOK, IndInv, CopyIsCurrent, HoldsTask
    <3>2. qt[p].id # t
      BY <3>1, <1>2, <2>2
    <3> QED
      BY <1>2, <1>3, <3>1, <3>2 DEF TypeOK, IndInv
  <2> QED
    BY <2>1, <2>2
<1>8. DeletedOnlyAfterSuccess'
  BY <1>2, <1>3 DEF TypeOK, IndInv, DeletedOnlyAfterSuccess
<1>9. DeliveriesBounded'
  <2> SUFFICES ASSUME NEW u \in Tasks
               PROVE  deliveries'[u] = receiveCount'[u] /\ deliveries'[u] <= MaxReceives + 1
    BY DEF DeliveriesBounded
  <2>1. deliveries[u] = receiveCount[u] /\ deliveries[u] <= MaxReceives + 1
    BY DEF IndInv, DeliveriesBounded
  <2>2. CASE u = t
    BY <1>2, <1>3, <2>1, <2>2 DEF TypeOK, IndInv
  <2>3. CASE u # t
    BY <1>3, <2>1, <2>3 DEF TypeOK, IndInv
  <2> QED
    BY <2>2, <2>3
<1>10. Spacing'
  <2> SUFFICES ASSUME NEW u \in Tasks, deliveries'[u] > 0
               PROVE  sinceReceive'[u] + hiddenFor'[u] >= MinDelay(deliveries'[u])
    BY DEF Spacing
  <2>1. CASE u = t
    <3>1. sinceReceive'[u] = 0 /\ hiddenFor'[u] = VisibilityTimeout
      BY <1>3, <2>1 DEF TypeOK, IndInv
    <3>2. deliveries'[u] \in 0 .. (MaxReceives + 1)
      BY <1>4, <1>9 DEF TypeOK, DeliveriesBounded
    <3>3. Backoff(deliveries'[u]) \in Nat
      BY <3>2, BackoffAssumption
    <3> QED
      BY <3>1, <3>3 DEF MinDelay
  <2>2. CASE u # t
    BY <1>3, <2>2 DEF TypeOK, IndInv, Spacing
  <2> QED
    BY <2>1, <2>2
<1> QED
  BY <1>4, <1>5, <1>6, <1>7, <1>8, <1>9, <1>10 DEF IndInv

\* The handler's return changes no row.
LEMMA HandlerReturnPreservesInv ==
    ASSUME IndInv, NEW q \in Queues, NEW ok \in BOOLEAN, HandlerReturns(q, ok)
    PROVE  IndInv'
<1>1. /\ pc[q] = "handling"
      /\ pc' = [pc EXCEPT ![q] = IF ok THEN "completing" ELSE "returning"]
      /\ succeeded' = IF ok THEN succeeded \cup {qt[q].id} ELSE succeeded
      /\ UNCHANGED <<pushed, row, queueName, data, receiveCount, hiddenFor, qt,
                     deliveries, sinceReceive>>
  BY DEF HandlerReturns, table
<1>2. qt[q].id \in Tasks
  BY <1>1 DEF IndInv, HoldsTask
<1>3. TypeOK'
  BY <1>1, <1>2 DEF TypeOK, IndInv
<1>4. RowsUpToPushed' /\ DeliveriesBounded' /\ Spacing'
  BY <1>1 DEF IndInv, RowsUpToPushed, DeliveriesBounded, Spacing, MinDelay
<1>5. HoldsTask'
  BY <1>1, <1>2 DEF IndInv, TypeOK, HoldsTask
<1>6. CopyIsCurrent'
  BY <1>1 DEF IndInv, TypeOK, CopyIsCurrent
<1>7. DeletedOnlyAfterSuccess'
  BY <1>1 DEF IndInv, DeletedOnlyAfterSuccess
<1> QED
  BY <1>3, <1>4, <1>5, <1>6, <1>7 DEF IndInv

\* A worker that goes on to its next iteration holds nothing; what the others
\* hold is untouched as long as their rows are.
LEMMA NextIterationKeepsCopies ==
    ASSUME IndInv, NEW q \in Queues, NextIteration(q), UNCHANGED queueName,
           pc[q] # "polling",
           row' \in [Tasks -> {"absent", "live", "deleted"}],
           receiveCount' \in [Tasks -> 0 .. (MaxReceives + 1)],
           \A t \in Tasks : t # qt[q].id =>
                row'[t] = row[t] /\ receiveCount'[t] = receiveCount[t]
    PROVE  /\ HoldsTask'
           /\ CopyIsCurrent'
           /\ pc' \in [Queues -> {"polling", "handling", "completing", "returning"}]
           /\ qt' \in [Queues -> Copies]
<1>1. /\ pc' = [pc EXCEPT ![q] = "polling"]
      /\ qt' = [qt EXCEPT ![q] = NoTask]
      /\ UNCHANGED <<deliveries, succeeded, sinceReceive>>
  BY DEF NextIteration, history
<1>2. HoldsTask'
  BY <1>1 DEF IndInv, TypeOK, HoldsTask
<1>3. CopyIsCurrent'
  <2> SUFFICES ASSUME NEW p \in Queues, pc'[p] # "polling"
               PROVE  /\ row'[qt'[p].id] = "live"
                      /\ queueName'[qt'[p].id] = p
                      /\ qt'[p].receiveCount = receiveCount'[qt'[p].id]
    BY DEF CopyIsCurrent
  <2>1. p # q /\ qt'[p] = qt[p] /\ pc[p] # "polling"
    BY <1>1 DEF IndInv, TypeOK
  <2>2. /\ qt[p].id \in Tasks
        /\ row[qt[p].id] = "live"
        /\ queueName[qt[p].id] = p
        /\ qt[p].receiveCount = receiveCount[qt[p].id]
        /\ queueName[qt[q].id] = q
    BY <2>1 DEF IndInv, HoldsTask, CopyIsCurrent
  <2> QED
    BY <2>1, <2>2
<1>4. pc' \in [Queues -> {"polling", "handling", "completing", "returning"}]
  BY <1>1 DEF IndInv, TypeOK
<1>5. qt' \in [Queues -> Copies]
  BY <1>1 DEF IndInv, TypeOK, Copies
<1> QED
  BY <1>2, <1>3, <1>4, <1>5

\* Completing removes the row of a task whose handler has succeeded.
LEMMA CompletePreservesInv ==
    ASSUME IndInv, NEW q \in Queues, completeQueueTask(q)
    PROVE  IndInv'
<1>1. /\ pc[q] = "completing"
      /\ row' = [row EXCEPT ![qt[q].id] = "deleted"]
      /\ NextIteration(q)
      /\ UNCHANGED <<pushed, queueName, data, receiveCount, hiddenFor,
                     deliveries, succeeded, sinceReceive>>
  BY DEF completeQueueTask, NextIteration, history
<1>2. qt[q].id \in Tasks /\ qt[q].id \in succeeded /\ row[qt[q].id] = "live"
  BY <1>1 DEF IndInv, HoldsTask, CopyIsCurrent
<1>3. row' \in [Tasks -> {"absent", "live", "deleted"}]
  BY <1>1 DEF IndInv, TypeOK
<1>4. /\ HoldsTask'
      /\ CopyIsCurrent'
      /\ pc' \in [Queues -> {"polling", "handling", "completing", "returning"}]
      /\ qt' \in [Queues -> Copies]
  <2>1. \A t \in Tasks : t # qt[q].id =>
            row'[t] = row[t] /\ receiveCount'[t] = receiveCount[t]
    BY <1>1 DEF IndInv, TypeOK
  <2>2. receiveCount' \in [Tasks -> 0 .. (MaxReceives + 1)]
    BY <1>1 DEF IndInv, TypeOK
  <2> QED
    BY <1>1, <1>3, <2>1, <2>2, NextIterationKeepsCopies
<1>5. TypeOK'
  BY <1>1, <1>3, <1>4 DEF IndInv, TypeOK
<1>6. RowsUpToPushed'
  BY <1>1, <1>2 DEF IndInv, TypeOK, RowsUpToPushed
<1>7. DeletedOnlyAfterSuccess'
  BY <1>1, <1>2 DEF IndInv, TypeOK, DeletedOnlyAfterSuccess
<1>8. DeliveriesBounded' /\ Spacing'
  BY <1>1 DEF IndInv, DeliveriesBounded, Spacing, MinDelay
<1> QED
  BY <1>4, <1>5, <1>6, <1>7, <1>8 DEF IndInv

\* Returning saves a copy that is current: only visible_after changes, and it
\* hides the task for its backoff.
LEMMA ReturnPreservesInv ==
    ASSUME IndInv, NEW q \in Queues, returnQueueTask(q)
    PROVE  IndInv'
<1> DEFINE t == qt[q].id
<1>1. /\ pc[q] = "returning"
      /\ row' = [row EXCEPT ![t] = "live"]
      /\ receiveCount' = [receiveCount EXCEPT ![t] = qt[q].receiveCount]
      /\ hiddenFor' = [hiddenFor EXCEPT ![t] = Backoff(qt[q].receiveCount)]
      /\ NextIteration(q)
      /\ UNCHANGED <<pushed, queueName, data, deliveries, succeeded, sinceReceive>>
  BY DEF returnQueueTask, Save, NextIteration, history
<1>2. t \in Tasks /\ row[t] = "live" /\ qt[q].receiveCount = receiveCount[t]
  BY <1>1 DEF IndInv, HoldsTask, CopyIsCurrent
<1>3. row' = row /\ receiveCount' = receiveCount
  BY <1>1, <1>2 DEF IndInv, TypeOK
<1>4. Backoff(receiveCount[t]) \in Nat
  BY <1>2, BackoffAssumption DEF IndInv, TypeOK
<1>5. /\ HoldsTask'
      /\ CopyIsCurrent'
      /\ pc' \in [Queues -> {"polling", "handling", "completing", "returning"}]
      /\ qt' \in [Queues -> Copies]
  <2>1. \A u \in Tasks : u # qt[q].id =>
            row'[u] = row[u] /\ receiveCount'[u] = receiveCount[u]
    BY <1>3
  <2>2. /\ row' \in [Tasks -> {"absent", "live", "deleted"}]
        /\ receiveCount' \in [Tasks -> 0 .. (MaxReceives + 1)]
    BY <1>3 DEF IndInv, TypeOK
  <2>3. NextIteration(q) /\ UNCHANGED queueName /\ pc[q] # "polling"
    BY <1>1
  <2> QED
    BY <2>1, <2>2, <2>3, NextIterationKeepsCopies
<1>6. TypeOK'
  BY <1>1, <1>2, <1>3, <1>4, <1>5 DEF IndInv, TypeOK
<1>7. RowsUpToPushed' /\ DeletedOnlyAfterSuccess' /\ DeliveriesBounded'
  BY <1>1, <1>3
     DEF IndInv, RowsUpToPushed, DeletedOnlyAfterSuccess, DeliveriesBounded
<1>8. Spacing'
  <2> SUFFICES ASSUME NEW u \in Tasks, deliveries'[u] > 0
               PROVE  sinceReceive'[u] + hiddenFor'[u] >= MinDelay(deliveries'[u])
    BY DEF Spacing
  <2>1. CASE u = t
    <3>1. hiddenFor'[u] = Backoff(deliveries'[u]) /\ Backoff(deliveries'[u]) \in Nat
      BY <1>1, <1>2, <1>4, <2>1 DEF IndInv, TypeOK, DeliveriesBounded
    <3>2. sinceReceive'[u] \in Nat
      BY <1>6, QueueAssumption DEF TypeOK
    <3> QED
      BY <3>1, <3>2, QueueAssumption DEF MinDelay
  <2>2. CASE u # t
    BY <1>1, <2>2 DEF IndInv, TypeOK, Spacing
  <2> QED
    BY <2>1, <2>2
<1> QED
  BY <1>5, <1>6, <1>7, <1>8 DEF IndInv

\* A failed settling leaves the row to its visibility timeout.
LEMMA SettleFailsPreservesInv ==
    ASSUME IndInv, NEW q \in Queues, SettleFails(q)
    PROVE  IndInv'
<1>1. /\ pc[q] # "polling"
      /\ NextIteration(q)
      /\ UNCHANGED <<pushed, row, queueName, data, receiveCount, hiddenFor,
                     deliveries, succeeded, sinceReceive>>
  BY DEF SettleFails, NextIteration, history, table
<1>2. /\ HoldsTask'
      /\ CopyIsCurrent'
      /\ pc' \in [Queues -> {"polling", "handling", "completing", "returning"}]
      /\ qt' \in [Queues -> Copies]
  BY <1>1, NextIterationKeepsCopies DEF IndInv, TypeOK
<1>3. TypeOK'
  BY <1>1, <1>2 DEF IndInv, TypeOK
<1>4. RowsUpToPushed' /\ DeletedOnlyAfterSuccess' /\ DeliveriesBounded' /\ Spacing'
  BY <1>1 DEF IndInv, RowsUpToPushed, DeletedOnlyAfterSuccess, DeliveriesBounded,
              Spacing, MinDelay
<1> QED
  BY <1>2, <1>3, <1>4 DEF IndInv

\* After a restart no worker holds anything.
LEMMA RestartPreservesInv ==
    ASSUME IndInv, Restart
    PROVE  IndInv'
<1>1. /\ pc' = [q \in Queues |-> "polling"]
      /\ qt' = [q \in Queues |-> NoTask]
      /\ UNCHANGED <<pushed, row, queueName, data, receiveCount, hiddenFor,
                     deliveries, succeeded, sinceReceive>>
  BY DEF Restart, table, history
<1>2. TypeOK'
  BY <1>1 DEF IndInv, TypeOK, Copies
<1>3. HoldsTask' /\ CopyIsCurrent'
  BY <1>1 DEF HoldsTask, CopyIsCurrent
<1>4. RowsUpToPushed' /\ DeletedOnlyAfterSuccess' /\ DeliveriesBounded' /\ Spacing'
  BY <1>1 DEF IndInv, RowsUpToPushed, DeletedOnlyAfterSuccess, DeliveriesBounded,
              Spacing, MinDelay
<1> QED
  BY <1>2, <1>3, <1>4 DEF IndInv

\* Time moves from hiddenFor to sinceReceive, so their sum does not shrink
\* before the visibility timeout is reached.
LEMMA TickPreservesInv ==
    ASSUME IndInv, Tick
    PROVE  IndInv'
<1>1. UNCHANGED <<pushed, row, queueName, data, receiveCount, pc, qt,
                  deliveries, succeeded>>
  BY DEF Tick, workers
<1>2. \A t \in Tasks :
        /\ hiddenFor[t] \in Nat
        /\ sinceReceive[t] \in 0 .. VisibilityTimeout
        /\ hiddenFor'[t] = IF hiddenFor[t] = 0 THEN 0 ELSE hiddenFor[t] - 1
        /\ sinceReceive'[t] = IF sinceReceive[t] = VisibilityTimeout
                              THEN VisibilityTimeout ELSE sinceReceive[t] + 1
  BY DEF Tick, IndInv, TypeOK
<1>3. TypeOK'
  <2>1. /\ hiddenFor' \in [Tasks -> Nat]
        /\ sinceReceive' \in [Tasks -> 0 .. VisibilityTimeout]
    BY <1>2, QueueAssumption DEF Tick
  <2> QED
    BY <1>1, <2>1 DEF IndInv, TypeOK
<1>4. /\ RowsUpToPushed' /\ HoldsTask' /\ CopyIsCurrent'
      /\ DeletedOnlyAfterSuccess' /\ DeliveriesBounded'
  BY <1>1 DEF IndInv, RowsUpToPushed, HoldsTask, CopyIsCurrent,
              DeletedOnlyAfterSuccess, DeliveriesBounded
<1>5. Spacing'
  <2> SUFFICES ASSUME NEW t \in Tasks, deliveries[t] > 0
               PROVE  sinceReceive'[t] + hiddenFor'[t] >= MinDelay(deliveries[t])
    BY <1>1 DEF Spacing, MinDelay
  <2>1. sinceReceive[t] + hiddenFor[t] >= MinDelay(deliveries[t])
    BY DEF IndInv, Spacing
  <2>2. Backoff(deliveries[t]) \in Nat
    BY BackoffAssumption DEF IndInv, TypeOK, DeliveriesBounded
  <2>3. MinDelay(deliveries[t]) \in Nat /\ MinDelay(deliveries[t]) <= VisibilityTimeout
    BY <2>2, QueueAssumption DEF MinDelay
  <2> QED
    BY <1>2, <2>1, <2>3, QueueAssumption
<1> QED
  BY <1>3, <1>4, <1>5 DEF IndInv

\* Every step preserves the invariant.
LEMMA NextPreservesInv ==
    ASSUME IndInv, [Next]_vars
    PROVE  IndInv'
<1>1. ASSUME NEW q \in Queues, NEW d \in Data, PushQueueTask(q, d) PROVE IndInv'
  BY <1>1, PushPreservesInv
<1>2. ASSUME NEW q \in Queues, WorkerStep(q) PROVE IndInv'
  BY <1>2, PopPreservesInv, HandlerReturnPreservesInv, CompletePreservesInv,
     ReturnPreservesInv, SettleFailsPreservesInv DEF WorkerStep
<1>3. CASE Restart
  BY <1>3, RestartPreservesInv
<1>4. CASE Tick
  BY <1>4, TickPreservesInv
<1>5. CASE UNCHANGED vars
  BY <1>5 DEF vars, table, workers, history, IndInv, TypeOK, RowsUpToPushed,
              HoldsTask, CopyIsCurrent, DeletedOnlyAfterSuccess,
              DeliveriesBounded, Spacing, MinDelay
<1> QED
  BY <1>1, <1>2, <1>3, <1>4, <1>5 DEF Next

\* The inductive invariant holds throughout.
LEMMA Invariance == Spec => []IndInv
<1>1. Init => IndInv
  BY InitEstablishesInv
<1>2. IndInv /\ [Next]_vars => IndInv'
  BY NextPreservesInv
<1> QED
  BY <1>1, <1>2, PTL DEF Spec

\* Every variable of the queue keeps its type.
THEOREM TypeCorrect == Spec => []TypeOK
<1>1. IndInv => TypeOK
  BY DEF IndInv
<1> QED
  BY <1>1, Invariance, PTL

\* With one worker per queue, the copy that completeQueueTask and
\* returnQueueTask write back is never out of date, whatever the timeouts
\* and however long a handler runs.
THEOREM CopiesAreCurrent == Spec => []CopyIsCurrent
<1>1. IndInv => CopyIsCurrent
  BY DEF IndInv
<1> QED
  BY <1>1, Invariance, PTL

\* No task leaves the queue without a successful run of its handler.
THEOREM NoTaskIsLost == Spec => []DeletedOnlyAfterSuccess
<1>1. IndInv => DeletedOnlyAfterSuccess
  BY DEF IndInv
<1> QED
  BY <1>1, Invariance, PTL

\* The handler is started at most maxReceives + 1 times for a task.
THEOREM RetriesAreBounded == Spec => []DeliveriesBounded
<1>1. IndInv => DeliveriesBounded
  BY DEF IndInv
<1> QED
  BY <1>1, Invariance, PTL

\* A pop is the only step that starts a handler, and it starts one.
LEMMA OnlyPopDelivers ==
    ASSUME IndInv, [Next]_vars, NEW t \in Tasks, deliveries'[t] > deliveries[t]
    PROVE  \E q \in Queues : PopQueueTask(q) /\ t \in Receivable(q)
<1>1. deliveries' # deliveries
  BY DEF IndInv, TypeOK
<1>2. PICK q \in Queues : PopQueueTask(q)
  BY <1>1 DEF Next, WorkerStep, PushQueueTask, HandlerReturns, completeQueueTask,
     returnQueueTask, SettleFails, NextIteration, Restart, Tick, history, vars
<1>3. PICK u \in Oldest(Receivable(q)) : deliveries' = [deliveries EXCEPT ![u] = @ + 1]
  BY <1>2 DEF PopQueueTask
<1>4. u = t
  BY <1>3 DEF IndInv, TypeOK
<1> QED
  BY <1>2, <1>3, <1>4 DEF Oldest

\* Two deliveries of a task are at least its backoff, or the visibility
\* timeout, apart.
THEOREM RetrySpacing == Spec => RetriesAreSpaced
<1> DEFINE Spaced == \A t \in Tasks : deliveries'[t] > deliveries[t] /\ deliveries[t] > 0
                        => sinceReceive[t] >= MinDelay(deliveries[t])
<1>1. IndInv /\ [Next]_vars => [Spaced]_vars
  <2> SUFFICES ASSUME IndInv, [Next]_vars, NEW t \in Tasks,
                      deliveries'[t] > deliveries[t], deliveries[t] > 0
               PROVE  sinceReceive[t] >= MinDelay(deliveries[t])
    OBVIOUS
  <2>1. hiddenFor[t] = 0
    BY OnlyPopDelivers DEF Receivable
  <2>2. sinceReceive[t] + hiddenFor[t] >= MinDelay(deliveries[t])
    BY DEF IndInv, Spacing
  <2>3. sinceReceive[t] \in Nat
    BY QueueAssumption DEF IndInv, TypeOK
  <2> QED
    BY <2>1, <2>2, <2>3
<1> QED
  BY <1>1, Invariance, PTL DEF Spec, RetriesAreSpaced

-----------------------------------------------------------------------------
(* Queue implements TaskLedger. *)

\* A push submits the new task.
LEMMA PushSubmits ==
    ASSUME IndInv, NEW q \in Queues, NEW d \in Data, PushQueueTask(q, d)
    PROVE  \E t \in Tasks : Ledger!Submit(t)
<1>1. PICK t \in Tasks :
      /\ row[t] = "absent"
      /\ row' = [row EXCEPT ![t] = "live"]
      /\ UNCHANGED <<deliveries, succeeded>>
  <2>1. pushed + 1 \in Tasks /\ row[pushed + 1] = "absent"
    BY QueueAssumption DEF PushQueueTask, IndInv, TypeOK, RowsUpToPushed, Tasks
  <2> QED
    BY <2>1 DEF PushQueueTask, history
<1>2. row \in [Tasks -> {"absent", "live", "deleted"}]
  BY DEF IndInv, TypeOK
<1>3. Ledger!Submit(t)
  BY <1>1, <1>2 DEF Ledger!Submit
<1> QED
  BY <1>3

\* A pop is an attempt at an open task that has attempts left.
LEMMA PopAttempts ==
    ASSUME IndInv, NEW q \in Queues, PopQueueTask(q)
    PROVE  \E t \in Tasks : Ledger!Attempt(t)
<1>1. PICK t \in Oldest(Receivable(q)) :
        /\ row' = [row EXCEPT ![t] = "live"]
        /\ deliveries' = [deliveries EXCEPT ![t] = @ + 1]
        /\ UNCHANGED succeeded
  BY DEF PopQueueTask, Save
<1>2. t \in Tasks /\ row[t] = "live" /\ receiveCount[t] <= MaxReceives
  BY DEF Oldest, Receivable
<1>3. row' = row
  BY <1>1, <1>2 DEF IndInv, TypeOK
<1>4. deliveries[t] < MaxReceives + 1
  BY <1>2, QueueAssumption DEF IndInv, TypeOK, DeliveriesBounded
<1>5. Ledger!Attempt(t)
  BY <1>1, <1>2, <1>3, <1>4 DEF Ledger!Attempt
<1> QED
  BY <1>2, <1>5

\* A handler that returns nil has done the work of an open task.
LEMMA HandlerReturnWorks ==
    ASSUME IndInv, NEW q \in Queues, NEW ok \in BOOLEAN, HandlerReturns(q, ok)
    PROVE  (\E t \in Tasks : Ledger!Work(t)) \/ UNCHANGED Ledger!vars
<1>1. /\ pc[q] = "handling"
      /\ succeeded' = IF ok THEN succeeded \cup {qt[q].id} ELSE succeeded
      /\ UNCHANGED <<row, deliveries>>
  BY DEF HandlerReturns, table
<1>2. CASE ok
  <2>1. qt[q].id \in Tasks /\ row[qt[q].id] = "live"
    BY <1>1 DEF IndInv, HoldsTask, CopyIsCurrent
  <2>2. qt[q] # NoTask
    BY <2>1 DEF Tasks, NoTask
  <2>3. qt[q].receiveCount \in 1 .. (MaxReceives + 1)
    BY <2>2 DEF IndInv, TypeOK, Copies
  <2>4. deliveries[qt[q].id] > 0
    BY <1>1, <2>1, <2>3 DEF IndInv, TypeOK, CopyIsCurrent, DeliveriesBounded
  <2>5. Ledger!Work(qt[q].id)
    BY <1>1, <1>2, <2>1, <2>4 DEF Ledger!Work
  <2> QED
    BY <2>1, <2>5
<1>3. CASE ~ok
  BY <1>1, <1>3 DEF Ledger!vars
<1> QED
  BY <1>2, <1>3

\* Completing closes a task that was worked.
LEMMA CompleteCloses ==
    ASSUME IndInv, NEW q \in Queues, completeQueueTask(q)
    PROVE  \E t \in Tasks : Ledger!Close(t)
<1>1. pc[q] = "completing"
  BY DEF completeQueueTask
<1>2. PICK t \in Tasks :
        /\ t \in succeeded
        /\ row[t] = "live"
        /\ row' = [row EXCEPT ![t] = "deleted"]
        /\ UNCHANGED <<deliveries, succeeded>>
  BY <1>1 DEF IndInv, HoldsTask, CopyIsCurrent, completeQueueTask, NextIteration, history
<1>3. row \in [Tasks -> {"absent", "live", "deleted"}]
  BY DEF IndInv, TypeOK
<1>4. Ledger!Close(t)
  BY <1>2, <1>3 DEF Ledger!Close
<1> QED
  BY <1>4

\* Returning does not show in the ledger: the saved copy was current.
LEMMA ReturnStutters ==
    ASSUME IndInv, NEW q \in Queues, returnQueueTask(q)
    PROVE  UNCHANGED Ledger!vars
<1>1. /\ pc[q] = "returning"
      /\ row' = [row EXCEPT ![qt[q].id] = "live"]
      /\ UNCHANGED <<deliveries, succeeded>>
  BY DEF returnQueueTask, Save, NextIteration, history
<1>2. row' = row
  BY <1>1 DEF IndInv, TypeOK, HoldsTask, CopyIsCurrent
<1> QED
  BY <1>1, <1>2 DEF Ledger!vars

\* The queue implements the ledger: crashes, redeliveries, failed writes and
\* the upsert of Save never make it lose, reopen or over-attempt a task.
THEOREM QueueImplementsLedger == Spec => ImplementsLedger
<1>1. Init => Ledger!Init
  BY DEF Init, Ledger!Init
<1>2. ASSUME IndInv, [Next]_vars
      PROVE  [Ledger!Next]_(Ledger!vars)
  <2>1. ASSUME NEW q \in Queues, NEW d \in Data, PushQueueTask(q, d) PROVE Ledger!Next
    BY <1>2, <2>1, PushSubmits DEF Ledger!Next
  <2>2. ASSUME NEW q \in Queues, WorkerStep(q) PROVE [Ledger!Next]_(Ledger!vars)
    <3>1. CASE PopQueueTask(q)
      BY <1>2, <3>1, PopAttempts DEF Ledger!Next
    <3>2. ASSUME NEW ok \in BOOLEAN, HandlerReturns(q, ok) PROVE [Ledger!Next]_(Ledger!vars)
      BY <1>2, <3>2, HandlerReturnWorks DEF Ledger!Next
    <3>3. CASE completeQueueTask(q)
      BY <1>2, <3>3, CompleteCloses DEF Ledger!Next
    <3>4. CASE returnQueueTask(q)
      BY <1>2, <3>4, ReturnStutters
    <3>5. CASE SettleFails(q)
      BY <3>5 DEF SettleFails, NextIteration, table, history, Ledger!vars
    <3> QED
      BY <2>2, <3>1, <3>2, <3>3, <3>4, <3>5 DEF WorkerStep
  <2>3. CASE Restart \/ Tick \/ UNCHANGED vars
    BY <2>3 DEF Restart, Tick, table, workers, history, vars, Ledger!vars
  <2> QED
    BY <1>2, <2>1, <2>2, <2>3 DEF Next
<1> QED
  BY <1>1, <1>2, Invariance, PTL DEF Spec, ImplementsLedger, Ledger!Spec
=============================================================================
