---------------------------- MODULE MCScheduler ----------------------------
(* Two tasks, as in cmd/serve: one due at every poll, one every few polls. *)
EXTENDS Scheduler

MCTasks == <<"feedWorker", "authHouseKeeping">>
MCInterval == [n \in {"feedWorker", "authHouseKeeping"} |-> IF n = "feedWorker" THEN 3 ELSE 7]
=============================================================================
