------------------------------- MODULE Server -------------------------------
(***************************************************************************)
(* cmd/serve: the life of the server process, from reading its data key    *)
(* (DataKey) to the parts it runs in an errgroup: the web server, the task *)
(* scheduler and a worker per queue.  The first part that returns an error *)
(* cancels the context of the others; Wait returns when all have returned, *)
(* and the process ends.  It may also be killed at any point.              *)
(*                                                                         *)
(* Opening the database, the step before, is in the module Migrations.     *)
(* What the workers and the scheduler do is in the modules Queue and       *)
(* Scheduler: here they are the loops of their Start methods, in which the *)
(* context is looked at.  Serve has no handler for signals.                *)
(***************************************************************************)
EXTENDS DataKey

CONSTANTS
    Workers,            \* the queues with a worker
    MaxRequests,        \* bound on requests served at once
    MaxCrashes          \* bound on kills and power failures

ASSUME ServerAssumption ==
    /\ MaxRequests \in Nat
    /\ MaxCrashes \in Nat
    /\ Workers \cap {"scheduler", "web"} = {}
    /\ None \notin Workers \cup {"scheduler", "web"}

Parts == Workers \cup {"scheduler", "web"}

VARIABLES
    part,       \* where each part is
    failure,    \* errgroup: the part whose error cancelled the context, or None
    late,       \* history: tasks a worker has popped since then (2: or more)
    active,     \* requests being served
    crashes     \* kills and power failures so far

groupVars == <<part, failure, late, active>>
vars == <<keyVars, groupVars, crashes>>

Running == {"checking", "popping", "sleeping", "handling",
            "setup", "processing", "waiting", "starting", "serving", "draining"}

TypeOK ==
    /\ DataKeyTypeOK
    /\ part \in [Parts -> Running \cup {"off", "returned", "failed"}]
    /\ failure \in Parts \cup {None}
    /\ late \in [Workers -> 0 .. 2]
    /\ active \in 0 .. MaxRequests
    /\ crashes \in 0 .. MaxCrashes

GroupOff ==
    /\ part = [g \in Parts |-> "off"]
    /\ failure = None
    /\ late = [w \in Workers |-> 0]
    /\ active = 0

GroupEnds ==
    /\ part' = [g \in Parts |-> "off"]
    /\ failure' = None
    /\ late' = [w \in Workers |-> 0]
    /\ active' = 0

Init ==
    /\ DataKeyInit
    /\ GroupOff
    /\ crashes = 0

-----------------------------------------------------------------------------
(* Starting: run of cmd/serve up to the errgroup. *)

\* ConfigureEncryptedValueService, step by step; when it fails, log.Fatalf.
Keying ==
    /\ ConfigureEncryptedValueService \/ KeyStep \/ LoadFails
    /\ UNCHANGED <<groupVars, crashes>>

\* The calls of g.Go.
StartGroup ==
    /\ kpc = "ready"
    /\ \A g \in Parts : part[g] = "off"
    /\ part' = [g \in Parts |-> CASE g = "scheduler" -> "setup"
                                  [] g = "web" -> "starting"
                                  [] OTHER -> "checking"]
    /\ UNCHANGED <<keyVars, failure, late, active, crashes>>

-----------------------------------------------------------------------------
(* The parts. *)

Cancelled == failure # None

Moves(g, from, to) ==
    /\ part[g] = from
    /\ part' = [part EXCEPT ![g] = to]
    /\ UNCHANGED <<keyVars, crashes>>

\* A function of the group returns an error; the first one cancels.
ReturnsError(g, from, to) ==
    /\ Moves(g, from, to)
    /\ failure' = IF Cancelled THEN failure ELSE g
    /\ UNCHANGED <<late, active>>

\* QueueWorker.Start: the context is looked at once per iteration.
Check(w) ==
    \/ Cancelled /\ ReturnsError(w, "checking", "returned")
    \/ ~Cancelled /\ Moves(w, "checking", "popping") /\ UNCHANGED <<failure, late, active>>

Pop(w) ==
    /\ Moves(w, "popping", "handling")
    /\ late' = [late EXCEPT ![w] = IF Cancelled /\ @ < 2 THEN @ + 1 ELSE @]
    /\ UNCHANGED <<failure, active>>

\* No task, or an error of the database: sleep, and start over.
PopNothing(w) == Moves(w, "popping", "sleeping") /\ UNCHANGED <<failure, late, active>>

WakeUp(w) == Moves(w, "sleeping", "checking") /\ UNCHANGED <<failure, late, active>>

\* Mutant of Handled: the loop goes on with the next task while there is one.
HandledThenPop(w) == Moves(w, "handling", "popping") /\ UNCHANGED <<failure, late, active>>

\* The handler returns and the task is completed or returned; a failure of
\* either is logged.
Handled(w) == Moves(w, "handling", "checking") /\ UNCHANGED <<failure, late, active>>

\* TaskScheduler.Start: setupState, ...
SetupState == Moves("scheduler", "setup", "processing") /\ UNCHANGED <<failure, late, active>>

\* Mutant of SetupFails: the error is logged and nil is returned.
SetupErrorSwallowed ==
    Moves("scheduler", "setup", "returned") /\ UNCHANGED <<failure, late, active>>

SetupFails == ReturnsError("scheduler", "setup", "failed")

\* ... then processTask for each task, whose errors are logged, ...
Processed == Moves("scheduler", "processing", "waiting") /\ UNCHANGED <<failure, late, active>>

\* ... and a select between the ticker and the context.
TickerFires == Moves("scheduler", "waiting", "processing") /\ UNCHANGED <<failure, late, active>>

SchedulerStops == Cancelled /\ ReturnsError("scheduler", "waiting", "returned")

\* Server.Start: the goroutine that listens and serves, ...
Listen == Moves("web", "starting", "serving") /\ UNCHANGED <<failure, late, active>>

ServeFails == ReturnsError("web", "starting", "failed") \/ ReturnsError("web", "serving", "failed")

\* ... and Shutdown when the context is cancelled, which accepts no request any
\* more and returns when the ones that are served have been answered.
Shutdown ==
    /\ Cancelled
    /\ Moves("web", "starting", "draining") \/ Moves("web", "serving", "draining")
    /\ UNCHANGED <<failure, late, active>>

\* Mutant of Drained: Close instead of Shutdown.
DrainedAtOnce == Moves("web", "draining", "returned") /\ UNCHANGED <<failure, late, active>>

Drained ==
    /\ active = 0
    /\ Moves("web", "draining", "returned")
    /\ UNCHANGED <<failure, late, active>>

WebPart == Listen \/ ServeFails \/ Shutdown \/ Drained
WorkerPart(w) == Check(w) \/ Pop(w) \/ PopNothing(w) \/ WakeUp(w) \/ Handled(w)
SchedulerPart == SetupState \/ SetupFails \/ Processed \/ TickerFires \/ SchedulerStops

\* g.Wait returns the error and run calls log.Fatalf.
Wait ==
    /\ \A g \in Parts : part[g] \in {"returned", "failed"}
    /\ Cancelled
    /\ KeyReleased
    /\ GroupEnds
    /\ UNCHANGED crashes

-----------------------------------------------------------------------------
(* Requests. *)

Request ==
    /\ part["web"] = "serving"
    /\ active < MaxRequests
    /\ active' = active + 1
    /\ UNCHANGED <<keyVars, part, failure, late, crashes>>

Respond ==
    /\ active > 0
    /\ active' = active - 1
    /\ UNCHANGED <<keyVars, part, failure, late, crashes>>

\* A request adds a podcast with credentials.
RequestAddsPodcast(p) ==
    /\ active > 0
    /\ AddPodcast(p)
    /\ UNCHANGED <<groupVars, crashes>>

-----------------------------------------------------------------------------
(* External. *)

Reconfigure(s) ==
    /\ Configure(s)
    /\ UNCHANGED <<groupVars, crashes>>

OSWritesBack ==
    /\ WriteBack
    /\ UNCHANGED <<groupVars, crashes>>

MayCrash == crashes < MaxCrashes /\ crashes' = crashes + 1

\* The process is killed (or, on its way up, ends with another error).
Killed ==
    /\ MayCrash
    /\ kpc # "down"
    /\ KeyReleased
    /\ GroupEnds

PowerFails == MayCrash /\ PowerLoss /\ GroupEnds

Next ==
    \/ Keying \/ StartGroup
    \/ WebPart \/ SchedulerPart \/ (\E w \in Workers : WorkerPart(w)) \/ Wait
    \/ Request \/ Respond \/ (\E p \in Podcasts : RequestAddsPodcast(p))
    \/ (\E s \in Secrets \cup {None} : Reconfigure(s)) \/ OSWritesBack
    \/ Killed \/ PowerFails

Spec == Init /\ [][Next]_vars

\* Every part keeps running; the server is started again when it has ended
\* (docs/getting-started/installation.md: "restart: unless-stopped"); handlers
\* and requests end, by their timeouts.  A select whose cases are both ready
\* picks one at random, so the scheduler does not pass over a cancelled context
\* for ever.  Nothing forces the web server to fail.
Fairness ==
    /\ WF_vars(Keying) /\ WF_vars(StartGroup \/ Wait)
    /\ WF_vars(Listen \/ Shutdown \/ Drained) /\ WF_vars(Respond)
    /\ WF_vars(SchedulerPart) /\ SF_vars(SchedulerStops)
    /\ \A w \in Workers : WF_vars(WorkerPart(w))

FairSpec == Spec /\ Fairness
-----------------------------------------------------------------------------
\* No part stops silently: when any part has returned, whatever the reason, the
\* whole process ends, and is started again with all parts.
PartsEndTogether ==
    (\E g \in Parts : part[g] \in {"returned", "failed"}) ~> kpc = "down"

\* "handle cancellation at top to ensure it runs on every iteration": a worker
\* starts at most one more task once the process is to end, though its context
\* may be cancelled at any point of the loop.
AtMostOneLatePop == \A w \in Workers : late[w] <= 1

\* The process ends with a request unanswered only if it is killed, loses power,
\* or its web server itself has failed: when a worker or the scheduler fails, at
\* whatever moment, Wait comes after the answers.
RequestsDrained ==
    [][kpc = "ready" /\ kpc' = "down" /\ active > 0 =>
            part["web"] = "failed" \/ crashes' > crashes]_vars

\* dek.json is not there yet, or was made with the configured secret.
UsableKeyFile == file = NoFile \/ (file.state = "keyset" /\ file.secret = config)

\* A start with a secret creates its key, or loads it, and goes on to serve,
\* unless the file was unreadable or made with another secret before it, or the
\* process is killed or loses power meanwhile.
KeyIsFound ==
    \A n \in 0 .. MaxCrashes :
        kpc = "stat" /\ UsableKeyFile /\ crashes = n ~> kpc = "ready" \/ crashes > n
=============================================================================
