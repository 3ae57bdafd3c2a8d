-------------------------------- MODULE Coro --------------------------------
(***************************************************************************)
(* Coroutines on the job queue (Coro.ipp, JobQueue::postCoro) as the one   *)
(* handler that suspends itself uses them: ripple_path_find posts a job    *)
(* that serves its request, yields, and is resumed when the request is     *)
(* complete (RipplePathFind.cpp, LedgerMaster::updatePaths).               *)
(***************************************************************************)
EXTENDS JobQueue

CONSTANTS
    Coros,      \* the coroutines
    First,      \* the job that starts a coroutine
    Path,       \* the job that serves the request it makes
    Again,      \* the job that resumes it
    Nobody

(* Each job is posted once, for one purpose and one coroutine.             *)
ASSUME CoroAssumption ==
    /\ First \in [Coros -> Jobs] /\ Path \in [Coros -> Jobs] /\ Again \in [Coros -> Jobs]
    /\ \A c, d \in Coros :
          /\ First[c] /= Path[d] /\ First[c] /= Again[d] /\ Path[c] /= Again[d]
          /\ c /= d => First[c] /= First[d] /\ Path[c] /= Path[d] /\ Again[c] /= Again[d]
    /\ IsFiniteSet(Coros) /\ Nobody \notin Threads

VARIABLES
    coro,       \* how far a coroutine is
    owner,      \* the worker that holds Coro::mutex_
    nSuspend,   \* nSuspend_
    step,       \* where a worker is in the job it runs
    appStopping \* Application::isStopping(), set before JobQueue::stop() is called

coroVars == <<coro, owner, nSuspend, step, appStopping>>
vars == <<jobQueueVars, coroVars>>

Init ==
    /\ JobQueueInit
    /\ coro = [c \in Coros |-> "none"]
    /\ owner = [c \in Coros |-> Nobody]
    /\ nSuspend = 0
    /\ step = [w \in Threads |-> "enter"]
    /\ appStopping = FALSE

CoroJobs == {First[c] : c \in Coros} \cup {Path[c] : c \in Coros} \cup {Again[c] : c \in Coros}

Runs(w, j) == at[w] = "body" /\ job[w] = j
Resumes(w, c) == Runs(w, First[c]) \/ Runs(w, Again[c]) \/ Runs(w, Path[c])
Moves(w, from, to) == step[w] = from /\ step' = [step EXCEPT ![w] = to]
-----------------------------------------------------------------------------
(* postCoro(): the constructor runs the coroutine up to its first yield,   *)
(* and post() adds the job that resumes it.                                *)
postCoro(c) ==
    /\ coro[c] = "none"
    /\ coro' = [coro EXCEPT ![c] = "created"]
    /\ nSuspend' = nSuspend + 1
    /\ UNCHANGED <<jobQueueVars, owner, step, appStopping>>

postFirst(c) ==
    /\ coro[c] = "created"
    /\ wrap(First[c])
    /\ UNCHANGED coroVars

(* Mutant: the coroutine's first yield stays counted.                      *)
expectEarlyExitUncounted(c) ==
    /\ coro[c] = "created" /\ fate[First[c]] = "refused"
    /\ coro' = [coro EXCEPT ![c] = "dropped"]
    /\ UNCHANGED <<jobQueueVars, owner, nSuspend, step, appStopping>>

(* expectEarlyExit(), when the queue refused the job.                      *)
expectEarlyExit(c) ==
    /\ coro[c] = "created" /\ fate[First[c]] = "refused"
    /\ coro' = [coro EXCEPT ![c] = "dropped"]
    /\ nSuspend' = nSuspend - 1
    /\ UNCHANGED <<jobQueueVars, owner, step, appStopping>>
-----------------------------------------------------------------------------
(* resume(), called by a job of the coroutine or by post()'s caller.       *)
resume(w, c) ==
    /\ Runs(w, First[c]) \/ Runs(w, Again[c]) \/ (Runs(w, Path[c]) /\ fate[Again[c]] = "refused")
    /\ Moves(w, IF Runs(w, Path[c]) THEN "posting" ELSE "enter", "locking")
    /\ nSuspend' = nSuspend - 1
    /\ UNCHANGED <<jobQueueVars, coro, owner, appStopping>>

(* The coroutine goes on, or is skipped if it has completed.               *)
lockAndContinue(w, c) ==
    /\ Resumes(w, c) /\ owner[c] = Nobody
    /\ Moves(w, "locking", IF coro[c] = "done" THEN "unlocking" ELSE "inside")
    /\ owner' = [owner EXCEPT ![c] = w]
    /\ coro' = [coro EXCEPT ![c] = CASE @ = "created" -> "asking"
                                     [] @ = "suspended" -> "answering"
                                     [] OTHER -> @]
    /\ UNCHANGED <<jobQueueVars, nSuspend, appStopping>>

(* makeLegacyPathRequest(), newPFWork(): the job that will answer, posted  *)
(* under LedgerMaster::mutex_, which is held until the step "asked" ends.  *)
ask(w, c) ==
    /\ Resumes(w, c) /\ coro[c] = "asking"
    /\ Moves(w, "inside", "asked")
    /\ IF appStopping THEN UNCHANGED jobQueueVars ELSE wrap(Path[c])
    /\ UNCHANGED <<coro, owner, nSuspend, appStopping>>

(* newPFWork()'s result: without a request the handler returns.            *)
asked(w, c) ==
    LET accepted == fate[Path[c]] \notin {"new", "refused"}
    IN  /\ Resumes(w, c) /\ coro[c] = "asking" /\ Path[c] \notin adding
        /\ Moves(w, "asked", IF accepted /\ ~appStopping THEN "arranged" ELSE "unlocking")
        /\ coro' = [coro EXCEPT ![c] = IF accepted /\ ~appStopping THEN @ ELSE "done"]
        /\ UNCHANGED <<jobQueueVars, owner, nSuspend, appStopping>>

yield(w, c) ==
    /\ Resumes(w, c) /\ coro[c] = "asking"
    /\ Moves(w, "arranged", "unlocking")
    /\ coro' = [coro EXCEPT ![c] = "suspended"]
    /\ nSuspend' = nSuspend + 1
    /\ UNCHANGED <<jobQueueVars, owner, appStopping>>

(* The handler returns its answer.                                         *)
answer(w, c) ==
    /\ Resumes(w, c) /\ coro[c] = "answering"
    /\ Moves(w, "inside", "unlocking")
    /\ coro' = [coro EXCEPT ![c] = "done"]
    /\ UNCHANGED <<jobQueueVars, owner, nSuspend, appStopping>>

unlock(w, c) ==
    /\ Resumes(w, c) /\ owner[c] = w
    /\ Moves(w, "unlocking", "leave")
    /\ owner' = [owner EXCEPT ![c] = Nobody]
    /\ UNCHANGED <<jobQueueVars, coro, nSuspend, appStopping>>

(* updatePaths() and updateAll(): a request that was dropped is not found, *)
(* and none is served when the queue is stopping. Their other early        *)
(* returns leave the request to a later job: Path stands for the job that  *)
(* serves it.                                                              *)
updatePaths(w, c) ==
    /\ Runs(w, Path[c])
    /\ \A v \in Threads : ~(Resumes(v, c) /\ step[v] = "asked")
    /\ Moves(w, "enter", IF stopping \/ coro[c] = "done" THEN "leave" ELSE "serve")
    /\ UNCHANGED <<jobQueueVars, coro, owner, nSuspend, appStopping>>

(* The request's completion: post().                                       *)
post(w, c) ==
    /\ Runs(w, Path[c])
    /\ Moves(w, "serve", "posting")
    /\ wrap(Again[c])
    /\ UNCHANGED <<coro, owner, nSuspend, appStopping>>

posted(w, c) ==
    /\ Runs(w, Path[c])
    /\ fate[Again[c]] \notin {"new", "refused"} /\ Again[c] \notin adding
    /\ Moves(w, "posting", "leave")
    /\ UNCHANGED <<jobQueueVars, coro, owner, nSuspend, appStopping>>

(* ApplicationImp::signalStop()                                            *)
signalStop ==
    /\ ~appStopping
    /\ appStopping' = TRUE
    /\ UNCHANGED <<jobQueueVars, coro, owner, nSuspend, step>>

jobEnds(w) ==
    /\ at[w] = "body"
    /\ job[w] \in CoroJobs => step[w] = "leave"
    /\ step' = [step EXCEPT ![w] = "enter"]
    /\ doJob(w)
    /\ UNCHANGED <<coro, owner, nSuspend, appStopping>>
-----------------------------------------------------------------------------
coroStep(w, c) ==
    \/ resume(w, c) \/ lockAndContinue(w, c) \/ ask(w, c) \/ asked(w, c) \/ yield(w, c)
    \/ answer(w, c) \/ unlock(w, c) \/ updatePaths(w, c) \/ post(w, c) \/ posted(w, c)

(* The thread inside addJob() goes on.                                     *)
addStep(j) == (addRefCountedJob(j) \/ addJobReturns(j)) /\ UNCHANGED coroVars

threadStep(w) ==
    \/ workerStep(w) /\ UNCHANGED coroVars
    \/ \E c \in Coros : coroStep(w, c)
    \/ jobEnds(w)

(* Some thread that is inside the queue's code goes on.                    *)
runStep ==
    \/ \E j \in Jobs : addStep(j)
    \/ \E w \in Threads : threadStep(w)
    \/ stopStep /\ UNCHANGED coroVars

Next ==
    \/ \E j \in Jobs \ CoroJobs : wrap(j) /\ UNCHANGED coroVars
    \/ \E c \in Coros : postCoro(c) \/ postFirst(c) \/ expectEarlyExit(c)
    \/ signalStop
    \/ appStopping /\ stop /\ UNCHANGED coroVars
    \/ runStep

(* The operating system never suspends all the threads that can go on. It  *)
(* schedules each of them; with the finite Jobs this weaker demand does.   *)
Fairness == WF_vars(runStep)

Spec == Init /\ [][Next]_vars /\ Fairness
-----------------------------------------------------------------------------
(* The queue with its threads, counters and coroutines does only what the  *)
(* scheduler may do: no job is lost, run twice or accepted after the queue *)
(* closed, limits hold, and stop() returns only when nothing waits or runs.*)
ImplementsScheduler == Scheduler!SchedSafe

(* "The coroutine is now running in two threads" (JobQueue.h, race comment *)
(* at Coro::yield) does not happen although a resume job may run before    *)
(* the coroutine has yielded: Coro::mutex_ is released only after it did.  *)
(* nSuspend_, which goes up and down in different threads and below zero   *)
(* when a resume overtakes the yield, is the number of coroutines that are *)
(* suspended less the resumes under way: no early exit or refused post     *)
(* leaks a count.                                                          *)
CoroutinesAccounted ==
    /\ \A c \in Coros :
          Cardinality({w \in Threads : Resumes(w, c) /\ step[w] \in {"inside", "asked", "arranged"}})
              = (IF coro[c] \in {"asking", "answering"} THEN 1 ELSE 0)
    /\ nSuspend = Cardinality({c \in Coros : coro[c] \in {"created", "suspended"}})
                    - Cardinality({w \in Threads : step[w] = "locking"})

(* "Otherwise the application will hang on shutdown": stop() ends, and all *)
(* workers exit, whatever is queued, running or suspended when it begins.  *)
ShutdownEnds == stopping ~> (stopper = "gone")

(* The job that would have served the request gave up: the queue stops.    *)
Abandoned(c) == stopping /\ fate[Path[c]] = "done" /\ fate[Again[c]] = "new"

(* "A job posted will always run to completion. Coroutines that are        *)
(* suspended must be resumed, and run to completion" (JobQueue.h): each    *)
(* job the queue accepted finishes, deferred or not, also across a         *)
(* shutdown, and a suspended handler is resumed and completes, in a job    *)
(* or, when the queue refuses the job, in the thread that called post();   *)
(* only updatePaths() giving up leaves it suspended.                       *)
AcceptedFinishes ==
    /\ Scheduler!AcceptedFinish
    /\ \A c \in Coros : (coro[c] = "suspended") ~> (coro[c] = "done" \/ Abandoned(c))

(* "When the JobQueue stops, it waits for all jobs and coroutines to       *)
(* finish" (JobQueue.h), asserted as "no coros suspended" at the end of    *)
(* JobQueue::stop() (JobQueue.cpp:279).                                    *)
CoroutinesFinished == stopped => \A c \in Coros : coro[c] /= "suspended"
=============================================================================
