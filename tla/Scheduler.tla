----------------------------- MODULE Scheduler -----------------------------
(***************************************************************************)
(* TaskScheduler of pkg/framework/scheduler.go, as cmd/serve runs it: it   *)
(* polls once per pollFrequency and pushes a queue task for each scheduled *)
(* task whose LastRunTime is at least its interval ago.  LastRunTime is    *)
(* kept in the database, so that it outlives the process; the ticker does  *)
(* not.                                                                    *)
(*                                                                         *)
(* Time advances in units while the scheduler works, so the moment of a    *)
(* check and the phase of the ticker drift apart as they do in the code.   *)
(* Ages stop counting at the largest value that is compared with.          *)
(***************************************************************************)
EXTENDS Naturals, Sequences

CONSTANTS
    Tasks,          \* the TaskNames, in the order of TaskScheduler.Tasks
    Interval,       \* Interval of each task
    PollFrequency,  \* pollFrequency
    MaxLag,         \* longest time the scheduler takes for a round of work
    MaxRestarts     \* bound on the restarts of the process

Names == {Tasks[k] : k \in 1 .. Len(Tasks)}

ASSUME SchedulerAssumption ==
    /\ Tasks \in Seq(Names)
    /\ Interval \in [Names -> Nat \ {0}]
    /\ PollFrequency \in Nat \ {0}
    /\ MaxLag \in Nat
    /\ MaxLag < PollFrequency
    /\ MaxRestarts \in Nat

VARIABLES
    known,      \* tasks with a row in scheduled_task_states
    sinceRun,   \* time since LastRunTime, at most Interval; Interval if zero time
    pc,         \* "down", "setup", "processing" or "waiting"
    next,       \* index of the task the loop is at
    untilTick,  \* time until the ticker fires
    tick,       \* whether a tick is buffered in the ticker's channel
    lag,        \* time since the scheduler had work to do
    restarts,
    sincePush,  \* history: time since the last push, at most Interval
    gap         \* history: time since the last push, failure or start

vars == <<known, sinceRun, pc, next, untilTick, tick, lag, restarts, sincePush, gap>>

\* The largest gap, see RunsOnTime.
MaxGap(n) == Interval[n] + PollFrequency + MaxLag

TypeOK ==
    /\ known \subseteq Names
    /\ sinceRun \in [Names -> Nat]
    /\ sincePush \in [Names -> Nat]
    /\ gap \in [Names -> Nat]
    /\ pc \in {"down", "setup", "processing", "waiting"}
    /\ next \in 1 .. (Len(Tasks) + 1)
    /\ untilTick \in 1 .. PollFrequency
    /\ tick \in BOOLEAN
    /\ lag \in 0 .. MaxLag
    /\ restarts \in 0 .. MaxRestarts

Init ==
    /\ known = {}
    /\ sinceRun = Interval
    /\ pc = "down"
    /\ next = 1
    /\ untilTick = PollFrequency
    /\ tick = FALSE
    /\ lag = 0
    /\ restarts = 0
    /\ sincePush = Interval
    /\ gap = [n \in Names |-> 0]

-----------------------------------------------------------------------------
\* Mutant of Start: the scheduler does not come up when rows exist already.
StartOnlyFresh ==
    /\ pc = "down"
    /\ known = {}
    /\ pc' = "setup"
    /\ next' = 1
    /\ untilTick' = PollFrequency
    /\ tick' = FALSE
    /\ lag' = 0
    /\ gap' = [n \in Names |-> 0]
    /\ UNCHANGED <<known, sinceRun, restarts, sincePush>>

\* cmd/serve starts the scheduler: a new ticker, then setupState.
Start ==
    /\ pc = "down"
    /\ pc' = "setup"
    /\ next' = 1
    /\ untilTick' = PollFrequency
    /\ tick' = FALSE
    /\ lag' = 0
    /\ gap' = [n \in Names |-> 0]
    /\ UNCHANGED <<known, sinceRun, restarts, sincePush>>

\* Mutant of SetupTask: the row is written anew although it exists.
SetupAlwaysResets ==
    /\ pc = "setup"
    /\ next <= Len(Tasks)
    /\ known' = known \cup {Tasks[next]}
    /\ sinceRun' = [sinceRun EXCEPT ![Tasks[next]] = Interval[Tasks[next]]]
    /\ next' = next + 1
    /\ UNCHANGED <<pc, untilTick, tick, lag, restarts, sincePush, gap>>

\* setupState for one task: a row that exists is left alone, a new one has the
\* zero LastRunTime.
SetupTask ==
    /\ pc = "setup"
    /\ next <= Len(Tasks)
    /\ known' = known \cup {Tasks[next]}
    /\ sinceRun' = IF Tasks[next] \in known THEN sinceRun
                   ELSE [sinceRun EXCEPT ![Tasks[next]] = Interval[Tasks[next]]]
    /\ next' = next + 1
    /\ UNCHANGED <<pc, untilTick, tick, lag, restarts, sincePush, gap>>

\* The loop of Start begins.
SetupDone ==
    /\ pc = "setup"
    /\ next > Len(Tasks)
    /\ pc' = "processing"
    /\ next' = 1
    /\ UNCHANGED <<known, sinceRun, untilTick, tick, lag, restarts, sincePush, gap>>

NotDue(n) == sinceRun[n] < Interval[n]

\* processTask, one transaction: not due, nothing is written.
SkipTask ==
    /\ pc = "processing"
    /\ next <= Len(Tasks)
    /\ NotDue(Tasks[next])
    /\ next' = next + 1
    /\ UNCHANGED <<known, sinceRun, pc, untilTick, tick, lag, restarts, sincePush, gap>>

\* processTask: PushQueueTask and the new LastRunTime are committed together.
PushTask ==
    /\ pc = "processing"
    /\ next <= Len(Tasks)
    /\ ~NotDue(Tasks[next])
    /\ sinceRun' = [sinceRun EXCEPT ![Tasks[next]] = 0]
    /\ sincePush' = [sincePush EXCEPT ![Tasks[next]] = 0]
    /\ gap' = [gap EXCEPT ![Tasks[next]] = 0]
    /\ next' = next + 1
    /\ UNCHANGED <<known, pc, untilTick, tick, lag, restarts>>

\* processTask: the transaction fails; the error is logged and dropped.
ProcessFails ==
    /\ pc = "processing"
    /\ next <= Len(Tasks)
    /\ gap' = [gap EXCEPT ![Tasks[next]] = 0]
    /\ next' = next + 1
    /\ UNCHANGED <<known, sinceRun, pc, untilTick, tick, lag, restarts, sincePush>>

\* Mutant of RoundDone: the tasks are gone through only once.
RoundKeepsIndex ==
    /\ pc = "processing"
    /\ next > Len(Tasks)
    /\ pc' = "waiting"
    /\ lag' = 0
    /\ UNCHANGED <<known, sinceRun, next, untilTick, tick, restarts, sincePush, gap>>

\* The select: wait for the ticker.
RoundDone ==
    /\ pc = "processing"
    /\ next > Len(Tasks)
    /\ pc' = "waiting"
    /\ next' = 1
    /\ lag' = 0
    /\ UNCHANGED <<known, sinceRun, untilTick, tick, restarts, sincePush, gap>>

ReceiveTick ==
    /\ pc = "waiting"
    /\ tick
    /\ tick' = FALSE
    /\ pc' = "processing"
    /\ UNCHANGED <<known, sinceRun, next, untilTick, lag, restarts, sincePush, gap>>

\* The process ends: setupState failed, another part of the server failed and
\* the context is cancelled, or the process is killed.
Stop ==
    /\ pc # "down"
    /\ restarts < MaxRestarts
    /\ restarts' = restarts + 1
    /\ pc' = "down"
    /\ next' = 1
    /\ tick' = FALSE
    /\ lag' = 0
    /\ untilTick' = PollFrequency
    /\ UNCHANGED <<known, sinceRun, sincePush, gap>>

-----------------------------------------------------------------------------
HasWork == pc \in {"setup", "processing"} \/ (pc = "waiting" /\ tick)

Aged(age, limit) == [n \in Names |-> IF age[n] < limit[n] THEN age[n] + 1 ELSE age[n]]

\* One unit of time passes.  The ticker's channel holds one tick, further ones
\* are dropped.  A round of work does not take longer than MaxLag.
Tick ==
    /\ HasWork => lag < MaxLag
    /\ lag' = IF HasWork THEN lag + 1 ELSE 0
    /\ sinceRun' = Aged(sinceRun, Interval)
    /\ sincePush' = Aged(sincePush, Interval)
    /\ gap' = IF pc = "down" THEN gap ELSE Aged(gap, [n \in Names |-> MaxGap(n)])
    /\ untilTick' = IF pc = "down" \/ untilTick = 1 THEN PollFrequency ELSE untilTick - 1
    /\ tick' = IF pc # "down" /\ untilTick = 1 THEN TRUE ELSE tick
    /\ UNCHANGED <<known, pc, next, restarts>>

Scheduling ==
    \/ Start \/ SetupTask \/ SetupDone
    \/ SkipTask \/ PushTask \/ ProcessFails
    \/ RoundDone \/ ReceiveTick

Next == Scheduling \/ Stop \/ Tick

Spec == Init /\ [][Next]_vars

\* The goroutine runs, time passes, and a transaction does not fail for ever.
Fairness ==
    /\ WF_vars(Scheduling)
    /\ WF_vars(Tick)
    /\ \A k \in 1 .. Len(Tasks) : SF_vars(next = k /\ PushTask)

FairSpec == Spec /\ Fairness
-----------------------------------------------------------------------------
\* A scheduled task is never pushed twice within its interval: not when ticks
\* come early, not after a restart in the middle of a round, and not when
\* setupState finds the row of an earlier process.
NeverTooEarly ==
    [][\A n \in Names : sincePush'[n] < sincePush[n] => sincePush[n] = Interval[n]]_vars

\* As long as the process is up and no transaction fails, two pushes of a task
\* are less than Interval + pollFrequency + the scheduler's lag apart.  (Not
\* Interval + lag: LastRunTime is set after the tick, so the tick that comes
\* Interval later may find the task not due yet.)
RunsOnTime == \A n \in Names : gap[n] < MaxGap(n)

\* Every scheduled task is pushed again and again.
RunsForever == \A n \in Names : []<>(sincePush[n] = 0)
=============================================================================
