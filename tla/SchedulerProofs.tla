-------------------------- MODULE SchedulerProofs --------------------------
(***************************************************************************)
(* Proofs about Scheduler for every list of tasks, every interval, poll    *)
(* frequency and lag.                                                      *)
(***************************************************************************)
EXTENDS Scheduler, TLAPS

\* The persistent LastRunTime and the actual last push never differ; a task
\* without a row was never pushed.
AgesAgree ==
    \A n \in Names :
        /\ sinceRun[n] = sincePush[n]
        /\ sinceRun[n] <= Interval[n]
        /\ n \notin known => sinceRun[n] = Interval[n]

\* While the scheduler works, its lag tells how long ago the ticker fired; its
\* loop starts only after setupState has seen every task.
Phase ==
    /\ pc = "setup" => \A k \in 1 .. (next - 1) : Tasks[k] \in known
    /\ pc \in {"processing", "waiting"} => known = Names
    /\ HasWork => untilTick = PollFrequency - lag
    /\ pc \in {"setup", "processing"} => ~tick
    /\ pc \in {"down", "waiting"} => next = 1

\* The task was dealt with since the ticker fired last.
Done(n) ==
    \/ pc = "waiting" /\ ~tick
    \/ pc = "processing" /\ \E k \in 1 .. (next - 1) : Tasks[k] = n

\* How large the gap of a task can be, in each phase.
GapBound ==
    \A n \in Names :
        /\ sinceRun[n] < Interval[n] => gap[n] <= sinceRun[n]
        /\ sinceRun[n] = Interval[n] /\ Done(n) =>
                gap[n] < Interval[n] + (PollFrequency - untilTick)
        /\ pc # "down" /\ ~Done(n) => gap[n] < Interval[n] + PollFrequency + lag
        /\ gap[n] < MaxGap(n)

IndInv == TypeOK /\ AgesAgree /\ Phase /\ GapBound

-----------------------------------------------------------------------------
\* What the constants are.
LEMMA Constants ==
    /\ Len(Tasks) \in Nat
    /\ 1 \in 1 .. (Len(Tasks) + 1)
    /\ Interval \in [Names -> Nat]
    /\ \A k \in 1 .. Len(Tasks) : Tasks[k] \in Names
    /\ \A n \in Names : /\ Interval[n] \in Nat
                        /\ Interval[n] > 0
                        /\ \E k \in 1 .. Len(Tasks) : Tasks[k] = n
    /\ PollFrequency \in Nat /\ PollFrequency > 0
    /\ MaxLag \in Nat /\ MaxLag < PollFrequency
    /\ MaxRestarts \in Nat
<1>1. Len(Tasks) \in Nat
  BY SchedulerAssumption
<1>2. Interval \in [Names -> Nat]
  BY SchedulerAssumption
<1>3. \A k \in 1 .. Len(Tasks) : Tasks[k] \in Names
  BY DEF Names
<1>4. \A n \in Names : /\ Interval[n] \in Nat
                       /\ Interval[n] > 0
                       /\ \E k \in 1 .. Len(Tasks) : Tasks[k] = n
  BY SchedulerAssumption DEF Names
<1> QED
  BY <1>1, <1>2, <1>3, <1>4, SchedulerAssumption

\* The invariant holds before the first start.
LEMMA InitEstablishesInv == Init => IndInv
<1> SUFFICES ASSUME Init PROVE IndInv
  OBVIOUS
<1> USE Constants DEF Init
<1>1. TypeOK
  <2>1. gap \in [Names -> Nat]
    OBVIOUS
  <2>2. untilTick \in 1 .. PollFrequency /\ lag \in 0 .. MaxLag /\ restarts \in 0 .. MaxRestarts
    OBVIOUS
  <2>3. sinceRun \in [Names -> Nat] /\ sincePush \in [Names -> Nat]
    OBVIOUS
  <2> QED
    BY <2>1, <2>2, <2>3 DEF TypeOK
<1>2. AgesAgree
  BY DEF AgesAgree
<1>3. Phase
  BY DEF Phase, HasWork
<1>4. GapBound
  BY DEF GapBound, MaxGap, Done
<1> QED
  BY <1>1, <1>2, <1>3, <1>4 DEF IndInv

\* A new process: gaps start anew, and no work is late yet.
LEMMA StartPreservesInv ==
    ASSUME IndInv, Start
    PROVE  IndInv'
<1> USE Constants DEF IndInv, Start
<1>1. TypeOK'
  <2>1. gap' \in [Names -> Nat]
    OBVIOUS
  <2>2. untilTick' \in 1 .. PollFrequency /\ lag' \in 0 .. MaxLag
    OBVIOUS
  <2> QED
    BY <2>1, <2>2 DEF TypeOK
<1>2. AgesAgree'
  BY DEF AgesAgree
<1>3. Phase'
  BY DEF Phase, HasWork, TypeOK
<1>4. GapBound'
  BY DEF GapBound, MaxGap, Done, TypeOK, AgesAgree
<1> QED
  BY <1>1, <1>2, <1>3, <1>4

\* A row that exists is kept, a new one belongs to a task never pushed.
LEMMA SetupPreservesInv ==
    ASSUME IndInv, SetupTask \/ SetupDone
    PROVE  IndInv'
<1> USE Constants DEF IndInv
<1>1. sinceRun' = sinceRun
  <2>1. CASE SetupTask
    <3>1. next \in 1 .. Len(Tasks)
      BY <2>1 DEF SetupTask, TypeOK
    <3> QED
      BY <2>1, <3>1 DEF SetupTask, AgesAgree, TypeOK
  <2>2. CASE SetupDone
    BY <2>2 DEF SetupDone
  <2> QED
    BY <2>1, <2>2
<1>2. /\ pc = "setup"
      /\ pc' \in {"setup", "processing"}
      /\ pc' = "processing" => next' = 1
      /\ next' \in 1 .. (Len(Tasks) + 1)
      /\ known \subseteq known' /\ known' \subseteq Names
      /\ UNCHANGED <<untilTick, tick, lag, restarts, sincePush, gap>>
  <2>1. CASE SetupTask
    <3>1. next \in 1 .. Len(Tasks)
      BY <2>1 DEF SetupTask, TypeOK
    <3> QED
      BY <2>1, <3>1 DEF SetupTask, TypeOK
  <2>2. CASE SetupDone
    BY <2>2 DEF SetupDone, TypeOK
  <2> QED
    BY <2>1, <2>2
<1>3. TypeOK'
  BY <1>1, <1>2 DEF TypeOK
<1>4. AgesAgree'
  BY <1>1, <1>2 DEF AgesAgree
<1>5. Phase'
  <2>1. pc' = "setup" => \A k \in 1 .. (next' - 1) : Tasks[k] \in known'
    <3>1. CASE SetupTask
      <4>1. next' = next + 1 /\ next \in Nat /\ pc = "setup" /\ known' = known \cup {Tasks[next]}
        BY <3>1 DEF SetupTask, TypeOK
      <4>2. \A k \in 1 .. (next' - 1) : k \in 1 .. (next - 1) \/ k = next
        BY <4>1
      <4> QED
        BY <4>1, <4>2 DEF Phase
    <3>2. CASE SetupDone
      BY <3>2 DEF SetupDone
    <3> QED
      BY <3>1, <3>2
  <2>2. pc' = "processing" => known' = Names
    <3>1. CASE SetupDone
      <4>1. next = Len(Tasks) + 1 /\ known' = known /\ pc = "setup"
        BY <3>1 DEF SetupDone, TypeOK
      <4>2. \A k \in 1 .. Len(Tasks) : Tasks[k] \in known
        BY <4>1 DEF Phase
      <4> QED
        BY <4>1, <4>2 DEF TypeOK
    <3>2. CASE SetupTask
      BY <3>2 DEF SetupTask
    <3> QED
      BY <3>1, <3>2
  <2> QED
    BY <1>2, <2>1, <2>2 DEF Phase, HasWork
<1>6. \A n \in Names : ~Done(n) /\ ~Done(n)'
  <2>1. pc' = "processing" => 1 .. (next' - 1) = {}
    BY <1>2
  <2> QED
    BY <1>2, <2>1 DEF Done
<1>7. GapBound'
  <2> SUFFICES ASSUME NEW n \in Names
               PROVE  /\ sinceRun'[n] < Interval[n] => gap'[n] <= sinceRun'[n]
                      /\ gap'[n] < Interval[n] + PollFrequency + lag'
                      /\ gap'[n] < MaxGap(n)
    BY <1>6 DEF GapBound, MaxGap
  <2> QED
    BY <1>1, <1>2, <1>6 DEF GapBound, MaxGap
<1> QED
  BY <1>3, <1>4, <1>5, <1>7

\* Setting an age to 0 keeps ages numbers.
LEMMA ResetTypes ==
    ASSUME NEW S, NEW f \in [S -> Nat], NEW x
    PROVE  [f EXCEPT ![x] = 0] \in [S -> Nat]
OBVIOUS

\* One task of a round was dealt with: it counts as done, the others are as
\* they were.
LEMMA RoundStepPreservesInv ==
    ASSUME IndInv,
           SkipTask \/ PushTask \/ ProcessFails
    PROVE  IndInv'
<1> USE Constants DEF IndInv
<1> DEFINE m == Tasks[next]
<1>1. /\ pc = "processing" /\ pc' = "processing"
      /\ next \in 1 .. Len(Tasks)
      /\ next' = next + 1
      /\ next' \in 1 .. (Len(Tasks) + 1)
      /\ UNCHANGED <<known, untilTick, tick, lag, restarts>>
  BY SMTT(30) DEF SkipTask, PushTask, ProcessFails, TypeOK
<1>2. m \in Names /\ m \in known
  BY <1>1 DEF Phase
<1>3. \/ /\ sinceRun[m] < Interval[m]
         /\ sinceRun' = sinceRun
         /\ sincePush' = sincePush
         /\ gap' = gap
      \/ /\ sinceRun' = [sinceRun EXCEPT ![m] = 0]
         /\ sincePush' = [sincePush EXCEPT ![m] = 0]
         /\ gap' = [gap EXCEPT ![m] = 0]
      \/ /\ sinceRun' = sinceRun
         /\ sincePush' = sincePush
         /\ gap' = [gap EXCEPT ![m] = 0]
  BY DEF SkipTask, PushTask, ProcessFails, NotDue
<1> HIDE DEF m
<1>4. TypeOK'
  <2>1. gap' \in [Names -> Nat]
    <3>1. gap' = gap \/ gap' = [gap EXCEPT ![m] = 0]
      BY <1>3
    <3>2. gap \in [Names -> Nat]
      BY DEF TypeOK
    <3> QED
      BY <3>1, <3>2, ResetTypes
  <2>2. sinceRun' \in [Names -> Nat]
    <3>1. sinceRun' = sinceRun \/ sinceRun' = [sinceRun EXCEPT ![m] = 0]
      BY <1>3
    <3>2. sinceRun \in [Names -> Nat]
      BY DEF TypeOK
    <3> QED
      BY <3>1, <3>2, ResetTypes
  <2>3. sincePush' \in [Names -> Nat]
    <3>1. sincePush' = sincePush \/ sincePush' = [sincePush EXCEPT ![m] = 0]
      BY <1>3
    <3>2. sincePush \in [Names -> Nat]
      BY DEF TypeOK
    <3> QED
      BY <3>1, <3>2, ResetTypes
  <2> QED
    BY <1>1, <2>1, <2>2, <2>3 DEF TypeOK
<1>5. AgesAgree'
  <2> SUFFICES ASSUME NEW n \in Names
               PROVE  /\ sinceRun'[n] = sincePush'[n]
                      /\ sinceRun'[n] <= Interval[n]
                      /\ n \notin known' => sinceRun'[n] = Interval[n]
    BY DEF AgesAgree
  <2>1. CASE n = m
    BY <1>1, <1>2, <1>3, <2>1 DEF AgesAgree, TypeOK
  <2>2. CASE n # m
    BY <1>1, <1>3, <2>2 DEF AgesAgree, TypeOK
  <2> QED
    BY <2>1, <2>2
<1>6. Phase'
  BY <1>1 DEF Phase, HasWork
<1>7. GapBound'
  <2> SUFFICES ASSUME NEW n \in Names
               PROVE  /\ sinceRun'[n] < Interval[n] => gap'[n] <= sinceRun'[n]
                      /\ sinceRun'[n] = Interval[n] /\ Done(n)' =>
                            gap'[n] < Interval[n] + (PollFrequency - untilTick')
                      /\ ~Done(n)' => gap'[n] < Interval[n] + PollFrequency + lag'
                      /\ gap'[n] < MaxGap(n)
    BY DEF GapBound, MaxGap
  <2>1. CASE n = m
    <3>1. Done(n)'
      BY <1>1, <2>1 DEF Done, m
    <3>2. gap'[n] = 0 \/ (sinceRun'[n] = sinceRun[n] /\ sinceRun[n] < Interval[n] /\ gap'[n] = gap[n])
      BY <1>2, <1>3, <2>1 DEF TypeOK
    <3>3. sinceRun'[n] \in Nat /\ untilTick' \in 1 .. PollFrequency
      BY <1>4 DEF TypeOK
    <3> QED
      BY <3>1, <3>2, <3>3, SMTT(30) DEF GapBound, MaxGap
  <2>2. CASE n # m
    <3>1. Done(n)' <=> Done(n)
      <4>1. (\E k \in 1 .. (next' - 1) : Tasks[k] = n) <=> (\E k \in 1 .. (next - 1) : Tasks[k] = n)
        BY <1>1, <2>2 DEF m
      <4> QED
        BY <1>1, <4>1 DEF Done
    <3>2. sinceRun'[n] = sinceRun[n] /\ gap'[n] = gap[n]
      BY <1>3, <2>2 DEF TypeOK
    <3> QED
      BY <1>1, <3>1, <3>2 DEF GapBound
  <2> QED
    BY <2>1, <2>2
<1> QED
  BY <1>4, <1>5, <1>6, <1>7

\* At the end of a round every task was dealt with.
LEMMA RoundDonePreservesInv ==
    ASSUME IndInv, RoundDone
    PROVE  IndInv'
<1> USE Constants DEF IndInv
<1>1. /\ pc = "processing" /\ pc' = "waiting"
      /\ next = Len(Tasks) + 1 /\ next' = 1
      /\ lag' = 0
      /\ ~tick
      /\ UNCHANGED <<known, sinceRun, untilTick, tick, restarts, sincePush, gap>>
  BY DEF RoundDone, TypeOK, Phase
<1>2. TypeOK'
  BY <1>1 DEF TypeOK
<1>3. AgesAgree'
  BY <1>1 DEF AgesAgree
<1>4. Phase'
  BY <1>1 DEF Phase, HasWork
<1>5. \A n \in Names : Done(n) /\ Done(n)'
  BY <1>1 DEF Done
<1>6. GapBound'
  BY <1>1, <1>5 DEF GapBound, MaxGap
<1> QED
  BY <1>2, <1>3, <1>4, <1>6

\* A tick is received: a new round, in which no task is done yet.
LEMMA ReceiveTickPreservesInv ==
    ASSUME IndInv, ReceiveTick
    PROVE  IndInv'
<1> USE Constants DEF IndInv
<1>1. /\ pc = "waiting" /\ pc' = "processing"
      /\ tick /\ ~tick'
      /\ next = 1
      /\ UNCHANGED <<known, sinceRun, next, untilTick, lag, restarts, sincePush, gap>>
  BY DEF ReceiveTick, Phase
<1>2. TypeOK'
  BY <1>1 DEF TypeOK, ReceiveTick
<1>3. AgesAgree'
  BY <1>1 DEF AgesAgree
<1>4. Phase'
  BY <1>1 DEF Phase, HasWork
<1>5. \A n \in Names : ~Done(n) /\ ~Done(n)'
  BY <1>1 DEF Done
<1>6. GapBound'
  BY <1>1, <1>5 DEF GapBound, MaxGap
<1> QED
  BY <1>2, <1>3, <1>4, <1>6

\* The end of the process leaves the database and the history.
LEMMA StopPreservesInv ==
    ASSUME IndInv, Stop
    PROVE  IndInv'
<1> USE Constants DEF IndInv, Stop
<1>1. TypeOK'
  <2>1. restarts' \in 0 .. MaxRestarts
    BY DEF TypeOK
  <2>2. untilTick' \in 1 .. PollFrequency /\ lag' \in 0 .. MaxLag /\ next' \in 1 .. (Len(Tasks) + 1)
    OBVIOUS
  <2> QED
    BY <2>1, <2>2 DEF TypeOK
<1>2. AgesAgree'
  BY DEF AgesAgree
<1>3. Phase'
  BY DEF Phase, HasWork
<1>4. \A n \in Names : ~Done(n)'
  BY DEF Done
<1>5. GapBound'
  BY <1>4 DEF GapBound, MaxGap
<1> QED
  BY <1>1, <1>2, <1>3, <1>5

\* Time passes: while a task is not due its gap grows with its age; when it is
\* due, the ticker, and then the limit on the lag, bound what can be added.
LEMMA TickPreservesInv ==
    ASSUME IndInv, Tick
    PROVE  IndInv'
<1> USE DEF IndInv
<1>0. /\ PollFrequency \in Nat /\ PollFrequency > 0
      /\ MaxLag \in Nat /\ MaxLag < PollFrequency
  BY Constants
<1>1. /\ HasWork => lag < MaxLag
      /\ lag' = IF HasWork THEN lag + 1 ELSE 0
      /\ untilTick' = IF pc = "down" \/ untilTick = 1 THEN PollFrequency ELSE untilTick - 1
      /\ tick' = IF pc # "down" /\ untilTick = 1 THEN TRUE ELSE tick
      /\ UNCHANGED <<known, pc, next, restarts>>
  BY DEF Tick
<1>2. /\ lag \in 0 .. MaxLag
      /\ untilTick \in 1 .. PollFrequency
      /\ pc \in {"down", "setup", "processing", "waiting"}
      /\ tick \in BOOLEAN
  BY DEF TypeOK
<1>3. \A n \in Names :
        /\ sinceRun[n] \in Nat /\ sincePush[n] \in Nat /\ gap[n] \in Nat
        /\ sinceRun'[n] = IF sinceRun[n] < Interval[n] THEN sinceRun[n] + 1 ELSE sinceRun[n]
        /\ sincePush'[n] = IF sincePush[n] < Interval[n] THEN sincePush[n] + 1 ELSE sincePush[n]
        /\ gap'[n] = gap[n] \/ (pc # "down" /\ gap'[n] = gap[n] + 1)
        /\ pc = "down" => gap'[n] = gap[n]
  BY Constants DEF Tick, Aged, TypeOK
<1>4. sinceRun' \in [Names -> Nat] /\ sincePush' \in [Names -> Nat] /\ gap' \in [Names -> Nat]
  <2>1. sinceRun' \in [Names -> Nat]
    BY <1>3, Constants DEF Tick, Aged
  <2>2. sincePush' \in [Names -> Nat]
    BY <1>3, Constants DEF Tick, Aged
  <2>3. gap' \in [Names -> Nat]
    <3>1. gap \in [Names -> Nat]
      BY <1>3 DEF TypeOK
    <3>2. gap' = gap \/ gap' = Aged(gap, [n \in Names |-> MaxGap(n)])
      BY DEF Tick
    <3>3. Aged(gap, [n \in Names |-> MaxGap(n)]) \in [Names -> Nat]
      BY <3>1 DEF Aged
    <3> QED
      BY <3>1, <3>2, <3>3
  <2> QED
    BY <2>1, <2>2, <2>3
<1>5. TypeOK'
  <2>1. lag' \in 0 .. MaxLag
    <3>1. CASE HasWork
      BY <1>0, <1>1, <1>2, <3>1
    <3>2. CASE ~HasWork
      BY <1>0, <1>1, <1>2, <3>2
    <3> QED
      BY <3>1, <3>2
  <2>2. untilTick' \in 1 .. PollFrequency
    BY <1>0, <1>1, <1>2
  <2>3. tick' \in BOOLEAN
    BY <1>1, <1>2
  <2> QED
    BY <1>1, <1>4, <2>1, <2>2, <2>3 DEF TypeOK
<1>6. AgesAgree'
  BY <1>1, <1>3, Constants DEF AgesAgree
<1>7. HasWork => untilTick = PollFrequency - lag /\ untilTick > 1
  BY <1>0, <1>1, <1>2 DEF Phase
<1>8. Phase'
  <2>1. HasWork' => untilTick' = PollFrequency - lag'
    BY <1>0, <1>1, <1>2, <1>7 DEF HasWork
  <2>2. pc' \in {"setup", "processing"} => ~tick'
    BY <1>1, <1>7 DEF HasWork, Phase
  <2> QED
    BY <1>1, <2>1, <2>2 DEF Phase
<1>9. GapBound'
  <2> SUFFICES ASSUME NEW n \in Names
               PROVE  /\ sinceRun'[n] < Interval[n] => gap'[n] <= sinceRun'[n]
                      /\ sinceRun'[n] = Interval[n] /\ Done(n)' =>
                            gap'[n] < Interval[n] + (PollFrequency - untilTick')
                      /\ pc # "down" /\ ~Done(n)' =>
                            gap'[n] < Interval[n] + PollFrequency + lag'
                      /\ gap'[n] < MaxGap(n)
    BY <1>1 DEF GapBound, MaxGap
  <2>1. /\ sinceRun[n] < Interval[n] => gap[n] <= sinceRun[n]
        /\ sinceRun[n] = Interval[n] /\ Done(n) =>
                gap[n] < Interval[n] + (PollFrequency - untilTick)
        /\ pc # "down" /\ ~Done(n) => gap[n] < Interval[n] + PollFrequency + lag
        /\ gap[n] < Interval[n] + PollFrequency + MaxLag
        /\ sinceRun[n] <= Interval[n]
    BY DEF GapBound, AgesAgree, MaxGap
  <2> DEFINE I == Interval[n]
             s == sinceRun[n]
             t == sinceRun'[n]
             g == gap[n]
             h == gap'[n]
  <2>2. /\ I \in Nat /\ I > 0 /\ s \in Nat /\ g \in Nat
        /\ t = IF s < I THEN s + 1 ELSE s
        /\ h = g \/ h = g + 1
        /\ pc = "down" => h = g
        /\ MaxGap(n) = I + PollFrequency + MaxLag
    BY <1>3, Constants DEF MaxGap
  <2>3. /\ s < I => g <= s
        /\ g < I + PollFrequency + MaxLag
        /\ s <= I
    BY <2>1
  <2> HIDE DEF I, s, t, g, h
  <2>4. t < I => h <= t
    BY <2>2, <2>3
  <2>5. CASE pc = "down"
    <3>1. ~Done(n)' /\ h = g
      BY <1>1, <2>2, <2>5 DEF Done
    <3>2. h < MaxGap(n)
      BY <2>2, <2>3, <3>1
    <3> QED
      BY <2>4, <2>5, <3>1, <3>2 DEF I, t, h
  <2>6. CASE pc = "waiting" /\ ~tick
    <3>1. Done(n) /\ ~HasWork /\ pc # "down"
      BY <2>6 DEF Done, HasWork
    <3>2. s = I => g < I + (PollFrequency - untilTick)
      BY <2>1, <3>1 DEF I, s, g
    <3>3. h < I + (PollFrequency - untilTick) + 1
      BY <1>0, <1>2, <2>2, <2>3, <3>2
    <3>4. CASE untilTick = 1
      <4>1. ~Done(n)' /\ lag' = 0
        BY <1>1, <2>6, <3>1, <3>4 DEF Done
      <4>2. h < I + PollFrequency + lag' /\ h < MaxGap(n)
        BY <1>0, <2>2, <3>3, <3>4, <4>1
      <4> QED
        BY <2>4, <4>1, <4>2 DEF I, t, h
    <3>5. CASE untilTick # 1
      <4>1. Done(n)' /\ untilTick' = untilTick - 1
        BY <1>1, <2>6, <3>5 DEF Done
      <4>2. h < I + (PollFrequency - untilTick') /\ h < MaxGap(n)
        BY <1>0, <1>2, <2>2, <3>3, <4>1
      <4> QED
        BY <2>4, <4>1, <4>2 DEF I, t, h
    <3> QED
      BY <3>4, <3>5
  <2>7. CASE HasWork
    <3>1. pc # "down"
      BY <2>7 DEF HasWork
    <3>2. lag' = lag + 1 /\ lag < MaxLag /\ untilTick > 1
      BY <1>1, <1>7, <2>7
    <3>3. untilTick' = untilTick - 1 /\ tick' = tick
      <4>1. untilTick # 1
        BY <1>2, <3>2
      <4>2. untilTick' = untilTick - 1
        BY <1>1, <3>1, <4>1
      <4>3. tick' = tick
        BY <1>1, <4>1, Zenon
      <4> QED
        BY <4>2, <4>3
    <3>4. Done(n)' <=> Done(n)
      <4>1. pc' = pc /\ next' = next
        BY <1>1
      <4> QED
        BY <3>3, <4>1, Zenon DEF Done
    <3>5. CASE Done(n)
      <4>1. s = I => g < I + (PollFrequency - untilTick)
        BY <2>1, <3>5 DEF I, s, g
      <4>2. h < I + (PollFrequency - untilTick') /\ h < MaxGap(n)
        <5>1. untilTick = PollFrequency - lag
          BY <1>7, <2>7
        <5> QED
          BY <1>0, <1>2, <2>2, <2>3, <3>2, <3>3, <4>1, <5>1
      <4> QED
        BY <2>4, <3>4, <3>5, <4>2 DEF I, t, h
    <3>6. CASE ~Done(n)
      <4>1. g < I + PollFrequency + lag
        BY <2>1, <3>1, <3>6 DEF I, g
      <4>2. h < I + PollFrequency + lag' /\ h < MaxGap(n)
        BY <1>0, <1>2, <2>2, <3>2, <4>1
      <4> QED
        BY <2>4, <3>4, <3>6, <4>2 DEF I, t, h
    <3> QED
      BY <3>5, <3>6
  <2> QED
    BY <1>2, <2>5, <2>6, <2>7 DEF HasWork
<1> QED
  BY <1>5, <1>6, <1>8, <1>9

\* The inductive invariant holds throughout.
LEMMA Invariance == Spec => []IndInv
<1>1. IndInv /\ [Next]_vars => IndInv'
  <2> SUFFICES ASSUME IndInv, [Next]_vars PROVE IndInv'
    OBVIOUS
  <2>1. CASE UNCHANGED vars
    BY <2>1 DEF vars, IndInv, TypeOK, AgesAgree, Phase, HasWork, GapBound, Done, MaxGap
  <2> QED
    BY <2>1, StartPreservesInv, SetupPreservesInv, RoundStepPreservesInv,
       RoundDonePreservesInv, ReceiveTickPreservesInv, StopPreservesInv, TickPreservesInv
       DEF Next, Scheduling
<1> QED
  BY <1>1, InitEstablishesInv, PTL DEF Spec

\* The scheduler's state is well typed: the loop index stays within the list of
\* tasks (plus one), the lag within its limit and the ticker within its period.
THEOREM TypeCorrect == Spec => []TypeOK
<1>1. IndInv => TypeOK
  BY DEF IndInv
<1> QED
  BY <1>1, Invariance, PTL

\* As long as the process is up and no transaction fails, the time between two
\* pushes of a scheduled task stays below interval + poll frequency + lag.
THEOREM SchedulerIsOnTime == Spec => []RunsOnTime
<1>1. IndInv => RunsOnTime
  BY DEF IndInv, GapBound, RunsOnTime
<1> QED
  BY <1>1, Invariance, PTL

\* Whatever restarts and failures happen, a scheduled task is never pushed
\* twice within its interval.
THEOREM SchedulerIsNeverEarly == Spec => NeverTooEarly
<1> DEFINE InTime == \A n \in Names : sincePush'[n] < sincePush[n] => sincePush[n] = Interval[n]
<1>1. IndInv /\ [Next]_vars => [InTime]_vars
  <2> SUFFICES ASSUME IndInv, [Next]_vars, NEW n \in Names, sincePush'[n] < sincePush[n]
               PROVE  sincePush[n] = Interval[n]
    OBVIOUS
  <2> USE Constants
  <2>1. sincePush[n] \in Nat /\ sinceRun[n] = sincePush[n] /\ sinceRun[n] <= Interval[n]
    BY DEF IndInv, TypeOK, AgesAgree
  <2>2. CASE PushTask
    <3>1. n = Tasks[next] /\ ~NotDue(n)
      BY <2>1, <2>2 DEF PushTask, IndInv, TypeOK
    <3> QED
      BY <2>1, <3>1 DEF NotDue
  <2>3. CASE Tick
    BY <2>1, <2>3 DEF Tick, Aged
  <2>4. CASE sincePush' = sincePush
    BY <2>1, <2>4
  <2> QED
    BY <2>2, <2>3, <2>4 DEF Next, Scheduling, Start, SetupTask, SetupDone, SkipTask,
       ProcessFails, RoundDone, ReceiveTick, Stop, vars
<1> QED
  BY <1>1, Invariance, PTL DEF Spec, NeverTooEarly
=============================================================================
