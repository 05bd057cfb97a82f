----------------------------- MODULE TaskLedger -----------------------------
(***************************************************************************)
(* What a user of pkg/framework/queue.go relies on, without tables,        *)
(* workers, copies, time or crashes: a task that was submitted is          *)
(* attempted a bounded number of times, is closed only after an attempt    *)
(* did its work, and once closed is neither reopened nor attempted again.  *)
(* Queue implements this specification.                                    *)
(***************************************************************************)
EXTENDS Naturals

CONSTANTS
    Tasks,
    Limit       \* attempts a task may get

VARIABLES
    submitted,  \* tasks handed to the queue
    attempts,   \* attempts made at a task
    worked,     \* tasks of which some attempt did the work
    closed      \* tasks the queue is done with

vars == <<submitted, attempts, worked, closed>>

Init ==
    /\ submitted = {}
    /\ attempts = [t \in Tasks |-> 0]
    /\ worked = {}
    /\ closed = {}

Submit(t) ==
    /\ t \notin submitted
    /\ submitted' = submitted \cup {t}
    /\ UNCHANGED <<attempts, worked, closed>>

Attempt(t) ==
    /\ t \in submitted \ closed
    /\ attempts[t] < Limit
    /\ attempts' = [attempts EXCEPT ![t] = @ + 1]
    /\ UNCHANGED <<submitted, worked, closed>>

Work(t) ==
    /\ t \in submitted \ closed
    /\ attempts[t] > 0
    /\ worked' = worked \cup {t}
    /\ UNCHANGED <<submitted, attempts, closed>>

Close(t) ==
    /\ t \in worked
    /\ closed' = closed \cup {t}
    /\ UNCHANGED <<submitted, attempts, worked>>

Next == \E t \in Tasks : Submit(t) \/ Attempt(t) \/ Work(t) \/ Close(t)

Spec == Init /\ [][Next]_vars
=============================================================================
