---------------------------- MODULE JobScheduler ----------------------------
(***************************************************************************)
(* What the job queue promises its clients, without threads, semaphores or *)
(* counters: a job that is accepted runs to completion, no more jobs of a  *)
(* type run at once than its limit allows, and when the queue has halted   *)
(* nothing waits or runs (class comment of JobQueue.h).                    *)
(***************************************************************************)
EXTENDS Naturals, FiniteSets

CONSTANTS
    Jobs,       \* the jobs that may be posted
    TypeOf,     \* the type of a job
    Limit       \* how many jobs of a type may run at once

VARIABLES
    waiting,    \* the jobs accepted and not yet started
    active,     \* the jobs that occupy a slot of their type
    finished,   \* the jobs that are over
    closed,     \* no job is accepted any more
    halted      \* the queue has stopped

schedule == <<waiting, active, finished, closed, halted>>

SchedInit ==
    /\ waiting = {} /\ active = {} /\ finished = {}
    /\ closed = FALSE /\ halted = FALSE

Accept(j) ==
    /\ ~closed
    /\ j \notin waiting \cup active \cup finished
    /\ waiting' = waiting \cup {j}
    /\ UNCHANGED <<active, finished, closed, halted>>

Start(j) ==
    /\ j \in waiting
    /\ Cardinality({k \in active : TypeOf[k] = TypeOf[j]}) < Limit[TypeOf[j]]
    /\ waiting' = waiting \ {j}
    /\ active' = active \cup {j}
    /\ UNCHANGED <<finished, closed, halted>>

Finish(j) ==
    /\ j \in active
    /\ active' = active \ {j}
    /\ finished' = finished \cup {j}
    /\ UNCHANGED <<waiting, closed, halted>>

Close ==
    /\ closed' = TRUE
    /\ UNCHANGED <<waiting, active, finished, halted>>

Halt ==
    /\ closed /\ waiting = {} /\ active = {}
    /\ halted' = TRUE
    /\ UNCHANGED <<waiting, active, finished, closed>>

SchedNext ==
    \/ \E j \in Jobs : Accept(j) \/ Start(j) \/ Finish(j)
    \/ Close
    \/ Halt

SchedSafe == SchedInit /\ [][SchedNext]_schedule

(* Every accepted job finishes.                                            *)
AcceptedFinish == \A j \in Jobs : (j \in waiting) ~> (j \in finished)

SchedSpec == SchedSafe /\ AcceptedFinish
=============================================================================
