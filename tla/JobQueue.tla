------------------------------ MODULE JobQueue ------------------------------
(***************************************************************************)
(* The job queue and its pool of threads (JobQueue.cpp, Workers.cpp,       *)
(* ClosureCounter.h): posting, the limits of the types, the semaphore the  *)
(* workers wait on, and the shutdown: JobQueue::stop() and then ~Workers.  *)
(* A step is one critical section or one atomic operation.                 *)
(***************************************************************************)
EXTENDS Integers, FiniteSets

CONSTANTS
    Jobs,       \* the jobs somebody may post, each once
    TypeOf,     \* the type of a job: a greater type has priority
    Limit,      \* getJobLimit()
    Threads,    \* the workers
    NoJob

Types == {TypeOf[j] : j \in Jobs}

ASSUME JobQueueAssumption ==
    /\ IsFiniteSet(Jobs) /\ IsFiniteSet(Threads) /\ NoJob \notin Jobs
    /\ TypeOf \in [Jobs -> Nat] /\ Limit \in [Types -> Nat \ {0}]

VARIABLES
    fate,               \* what became of a job
    index,              \* jobIndex_ of a queued job
    lastJob,            \* lastJob_
    data,               \* jobData_: the jobs of a type waiting, running, deferred
    processCount,       \* processCount_
    stopping, stopped,  \* stopping_, stopped_
    adding,             \* the jobs whose addJob() has not returned: it holds a closure
    waitForClosures,    \* ClosureCounter::waitForClosures_
    count,              \* BasicSemaphore::count_
    activeCount, pauseCount, runningTaskCount, allPaused,  \* of Workers
    numberOfThreads,    \* numberOfThreads_
    told,               \* the workers whose destructor asked them to exit
    at,                 \* where a worker is in Worker::run()
    job,                \* the job a worker is processing
    stopper             \* where the thread that shuts the queue down is

counters == <<fate, index, lastJob, data, processCount>>
closing == <<stopping, stopped, adding, waitForClosures>>
pool == <<count, activeCount, pauseCount, runningTaskCount, allPaused, numberOfThreads, told>>
jobQueueVars == <<counters, closing, pool, at, job, stopper>>

JobQueueInit ==
    /\ fate = [j \in Jobs |-> "new"]
    /\ index = [j \in Jobs |-> 0]
    /\ lastJob = 0
    /\ data = [t \in Types |-> [waiting |-> 0, running |-> 0, deferred |-> 0]]
    /\ processCount = 0
    /\ stopping = FALSE /\ stopped = FALSE
    /\ adding = {} /\ waitForClosures = FALSE
    /\ count = 0 /\ activeCount = 0 /\ pauseCount = 0 /\ runningTaskCount = 0
    /\ allPaused = TRUE
    /\ numberOfThreads = Cardinality(Threads)
    /\ told = {}
    /\ at = [w \in Threads |-> "start"]
    /\ job = [w \in Threads |-> NoJob]
    /\ stopper = "up"

jobSet == {j \in Jobs : fate[j] = "queued"}

(* The closures that keep closureCount_ above zero.                        *)
Closures == adding \cup {j \in Jobs : fate[j] \in {"queued", "running"}}

(* allClosuresDoneCond_ is notified when the last closure is destroyed.    *)
NotifyClosuresDone ==
    stopper' = IF stopper = "joinAsleep" /\ waitForClosures /\ Closures' = {}
               THEN "join" ELSE stopper

-----------------------------------------------------------------------------
(* Posting a job.                                                          *)

(* Mutant: jobs are accepted until the queue has stopped.                  *)
wrapUntilStopped(j) ==
    /\ fate[j] = "new" /\ j \notin adding
    /\ \/ /\ stopped
          /\ fate' = [fate EXCEPT ![j] = "refused"]
          /\ UNCHANGED adding
       \/ /\ ~stopped
          /\ adding' = adding \cup {j}
          /\ UNCHANGED fate
    /\ UNCHANGED <<index, lastJob, data, processCount, stopping, stopped,
                   waitForClosures, pool, at, job, stopper>>

(* addJob(), ClosureCounter::wrap()                                        *)
wrap(j) ==
    /\ fate[j] = "new" /\ j \notin adding
    /\ \/ /\ waitForClosures
          /\ fate' = [fate EXCEPT ![j] = "refused"]
          /\ UNCHANGED adding
       \/ /\ ~waitForClosures
          /\ adding' = adding \cup {j}
          /\ UNCHANGED fate
    /\ UNCHANGED <<index, lastJob, data, processCount, stopping, stopped,
                   waitForClosures, pool, at, job, stopper>>

(* Mutant: one task too many is signalled.                                 *)
SignalledUpTo(t) == data[t].waiting + data[t].running <= Limit[t]

(* The state of the job's type after it is posted; TRUE if a worker is     *)
(* signalled, FALSE if the job is deferred.                                *)
Signalled(t) == data[t].waiting + data[t].running < Limit[t]

addRefCountedJob(j) ==
    /\ fate[j] = "new" /\ j \in adding
    /\ fate' = [fate EXCEPT ![j] = "queued"]
    /\ lastJob' = lastJob + 1
    /\ index' = [index EXCEPT ![j] = lastJob + 1]
    /\ LET t == TypeOf[j]
           signalled == Signalled(t)
       IN  /\ data' = [data EXCEPT ![t].waiting = @ + 1,
                                   ![t].deferred = IF signalled THEN @ ELSE @ + 1]
           /\ count' = IF signalled THEN count + 1 ELSE count
    /\ UNCHANGED <<processCount, closing, activeCount, pauseCount, runningTaskCount, allPaused,
                   numberOfThreads, told, at, job, stopper>>

(* addJob() returns and destroys its own closure.                          *)
addJobReturns(j) ==
    /\ j \in adding /\ fate[j] /= "new"
    /\ adding' = adding \ {j}
    /\ UNCHANGED <<counters, stopping, stopped, waitForClosures, pool, at, job>>
    /\ NotifyClosuresDone
-----------------------------------------------------------------------------
(* A worker: Worker::run() and JobQueue::processTask().                    *)

Goes(w, from, to) == at[w] = from /\ at' = [at EXCEPT ![w] = to]

activate(w) ==
    /\ Goes(w, "start", IF activeCount = 0 THEN "first" ELSE "idle")
    /\ activeCount' = activeCount + 1
    /\ UNCHANGED <<counters, closing, count, pauseCount, runningTaskCount, allPaused,
                   numberOfThreads, told, job, stopper>>

resetAllPaused(w) ==
    /\ Goes(w, "first", "idle")
    /\ allPaused' = FALSE
    /\ UNCHANGED <<counters, closing, count, activeCount, pauseCount, runningTaskCount,
                   numberOfThreads, told, job, stopper>>

(* semaphore_.wait()                                                       *)
acquireTask(w) ==
    /\ Goes(w, "idle", "woken")
    /\ count > 0
    /\ count' = count - 1
    /\ UNCHANGED <<counters, closing, activeCount, pauseCount, runningTaskCount, allPaused,
                   numberOfThreads, told, job, stopper>>

loadPauseCount(w) ==
    /\ Goes(w, "woken", IF pauseCount > 0 THEN "mayPause" ELSE "task")
    /\ UNCHANGED <<counters, closing, pool, job, stopper>>

(* With no pause left the decrement is undone and the worker has a task;   *)
(* the two are one step here, since the queue only pauses all its workers. *)
tryPause(w) ==
    /\ Goes(w, "mayPause", IF pauseCount >= 1 THEN "paused" ELSE "task")
    /\ pauseCount' = IF pauseCount >= 1 THEN pauseCount - 1 ELSE pauseCount
    /\ UNCHANGED <<counters, closing, count, activeCount, runningTaskCount, allPaused,
                   numberOfThreads, told, job, stopper>>

beginTask(w) ==
    /\ Goes(w, "task", "process")
    /\ runningTaskCount' = runningTaskCount + 1
    /\ UNCHANGED <<counters, closing, count, activeCount, pauseCount, allPaused,
                   numberOfThreads, told, job, stopper>>

(* The jobs of types that run below their limit.                           *)
Runnable == {j \in jobSet : data[TypeOf[j]].running < Limit[TypeOf[j]]}

(* Job::operator<                                                          *)
Before(i, j) == TypeOf[i] > TypeOf[j] \/ (TypeOf[i] = TypeOf[j] /\ index[i] < index[j])

(* The job found by getNextJob(); with none it would dereference end().    *)
getNextJob(w) ==
    \E j \in Runnable :
       /\ \A i \in Runnable \ {j} : Before(j, i)
       /\ Goes(w, "process", "body")
       /\ job' = [job EXCEPT ![w] = j]
       /\ fate' = [fate EXCEPT ![j] = "running"]
       /\ index' = [index EXCEPT ![j] = 0]
       /\ data' = [data EXCEPT ![TypeOf[j]].waiting = @ - 1, ![TypeOf[j]].running = @ + 1]
       /\ processCount' = processCount + 1
       /\ UNCHANGED <<lastJob, closing, pool, stopper>>

(* doJob() returns and the Job with its closure is destroyed.              *)
doJob(w) ==
    /\ Goes(w, "body", "finish")
    /\ fate' = [fate EXCEPT ![job[w]] = "done"]
    /\ UNCHANGED <<index, lastJob, data, processCount, stopping, stopped, adding,
                   waitForClosures, pool, job>>
    /\ NotifyClosuresDone

(* Mutant: a task is signalled although no job was deferred.               *)
finishJobSignals(w) ==
    LET t == TypeOf[job[w]]
        wakes == data[t].deferred > 0
    IN  /\ Goes(w, "finish", "finished")
        /\ data' = [data EXCEPT ![t].deferred = IF wakes THEN @ - 1 ELSE @,
                                ![t].running = @ - 1]
        /\ count' = count + 1
        /\ processCount' = processCount - 1
        /\ job' = [job EXCEPT ![w] = NoJob]
        /\ stopper' = IF stopper = "drainAsleep" /\ processCount = 1 /\ jobSet = {}
                      THEN "drain" ELSE stopper
        /\ UNCHANGED <<fate, index, lastJob, closing, activeCount, pauseCount,
                       runningTaskCount, allPaused, numberOfThreads, told>>

(* Mutant: stop() is not notified.                                         *)
finishJobSilent(w) ==
    LET t == TypeOf[job[w]]
        wakes == data[t].deferred > 0
    IN  /\ Goes(w, "finish", "finished")
        /\ data' = [data EXCEPT ![t].deferred = IF wakes THEN @ - 1 ELSE @,
                                ![t].running = @ - 1]
        /\ count' = IF wakes THEN count + 1 ELSE count
        /\ processCount' = processCount - 1
        /\ job' = [job EXCEPT ![w] = NoJob]
        /\ UNCHANGED stopper
        /\ UNCHANGED <<fate, index, lastJob, closing, activeCount, pauseCount,
                       runningTaskCount, allPaused, numberOfThreads, told>>

(* Mutant: the worker for a deferred job is not signalled.                 *)
finishJobForgets(w) ==
    LET t == TypeOf[job[w]]
        wakes == data[t].deferred > 0
    IN  /\ Goes(w, "finish", "finished")
        /\ data' = [data EXCEPT ![t].deferred = IF wakes THEN @ - 1 ELSE @,
                                ![t].running = @ - 1]
        /\ count' = count
        /\ processCount' = processCount - 1
        /\ job' = [job EXCEPT ![w] = NoJob]
        /\ stopper' = IF stopper = "drainAsleep" /\ processCount = 1 /\ jobSet = {}
                      THEN "drain" ELSE stopper
        /\ UNCHANGED <<fate, index, lastJob, closing, activeCount, pauseCount,
                       runningTaskCount, allPaused, numberOfThreads, told>>

finishJob(w) ==
    LET t == TypeOf[job[w]]
        wakes == data[t].deferred > 0
    IN  /\ Goes(w, "finish", "finished")
        /\ data' = [data EXCEPT ![t].deferred = IF wakes THEN @ - 1 ELSE @,
                                ![t].running = @ - 1]
        /\ count' = IF wakes THEN count + 1 ELSE count
        /\ processCount' = processCount - 1
        /\ job' = [job EXCEPT ![w] = NoJob]
        /\ stopper' = IF stopper = "drainAsleep" /\ processCount = 1 /\ jobSet = {}
                      THEN "drain" ELSE stopper
        /\ UNCHANGED <<fate, index, lastJob, closing, activeCount, pauseCount,
                       runningTaskCount, allPaused, numberOfThreads, told>>

endTask(w) ==
    /\ Goes(w, "finished", IF runningTaskCount = 1 THEN "notify" ELSE "idle")
    /\ runningTaskCount' = runningTaskCount - 1
    /\ UNCHANGED <<counters, closing, count, activeCount, pauseCount, allPaused,
                   numberOfThreads, told, job, stopper>>

WakePauser == stopper' = IF stopper = "pauseAsleep" THEN "pausing" ELSE stopper

notifyNoTasks(w) ==
    /\ Goes(w, "notify", "idle")
    /\ WakePauser
    /\ UNCHANGED <<counters, closing, pool, job>>

deactivate(w) ==
    /\ Goes(w, "paused", IF activeCount = 1 THEN "last" ELSE "parked")
    /\ activeCount' = activeCount - 1
    /\ UNCHANGED <<counters, closing, count, pauseCount, runningTaskCount, allPaused,
                   numberOfThreads, told, job, stopper>>

signalAllPaused(w) ==
    /\ Goes(w, "last", "parked")
    /\ allPaused' = TRUE
    /\ WakePauser
    /\ UNCHANGED <<counters, closing, count, activeCount, pauseCount, runningTaskCount,
                   numberOfThreads, told, job>>

exitThread(w) ==
    /\ w \in told
    /\ Goes(w, "parked", "exited")
    /\ UNCHANGED <<counters, closing, pool, job, stopper>>
-----------------------------------------------------------------------------
(* Shutting down.                                                          *)

(* JobQueue::stop(): no more jobs are accepted, in two steps.              *)
stop ==
    /\ stopper = "up"
    /\ stopping' = TRUE
    /\ stopper' = "close"
    /\ UNCHANGED <<counters, stopped, adding, waitForClosures, pool, at, job>>

(* ClosureCounter::join(), which checks and sleeps under its mutex.        *)
joinClosures ==
    /\ stopper \in {"close", "join"}
    /\ waitForClosures' = TRUE
    /\ stopper' = IF Closures = {} THEN "drain" ELSE "joinAsleep"
    /\ UNCHANGED <<counters, stopping, stopped, adding, pool, at, job>>

(* Mutant: the workers still inside processTask() are not waited for.      *)
drainJobsOnly ==
    /\ stopper = "drain"
    /\ stopped' = (jobSet = {})
    /\ stopper' = IF jobSet = {} THEN "resize" ELSE "drainAsleep"
    /\ UNCHANGED <<counters, stopping, adding, waitForClosures, pool, at, job>>

(* cv_.wait() and the end of stop()                                        *)
drain ==
    /\ stopper = "drain"
    /\ LET drained == processCount = 0 /\ jobSet = {}
       IN  /\ stopped' = drained
           /\ stopper' = IF drained THEN "resize" ELSE "drainAsleep"
    /\ UNCHANGED <<counters, stopping, adding, waitForClosures, pool, at, job>>

(* Workers::stop(), setNumberOfThreads(0): one pause at a time, the count  *)
(* of the threads to pause kept in numberOfThreads.                        *)
requestPause ==
    /\ stopper = "resize" /\ numberOfThreads > 0
    /\ numberOfThreads' = numberOfThreads - 1
    /\ stopper' = "signal"
    /\ pauseCount' = pauseCount + 1
    /\ UNCHANGED <<counters, closing, count, activeCount, runningTaskCount, allPaused,
                   told, at, job>>

signalPause ==
    /\ stopper = "signal"
    /\ count' = count + 1
    /\ stopper' = "resize"
    /\ UNCHANGED <<counters, closing, activeCount, pauseCount, runningTaskCount, allPaused,
                   numberOfThreads, told, at, job>>

awaitPaused ==
    /\ stopper = "pausing" \/ (stopper = "resize" /\ numberOfThreads = 0)
    /\ stopper' = IF allPaused /\ runningTaskCount = 0 THEN "delete" ELSE "pauseAsleep"
    /\ UNCHANGED <<counters, closing, pool, at, job>>

Exited == {w \in Threads : at[w] = "exited"}

(* deleteWorkers(), ~Worker(): one after the other, each joined.           *)
deleteWorker(w) ==
    /\ stopper = "delete" /\ w \notin told /\ told = Exited
    /\ told' = told \cup {w}
    /\ UNCHANGED <<counters, closing, count, activeCount, pauseCount, runningTaskCount,
                   allPaused, numberOfThreads, at, job, stopper>>

(* The queue's members may be destroyed.                                   *)
destroyed ==
    /\ stopper = "delete" /\ Exited = Threads
    /\ stopper' = "gone"
    /\ UNCHANGED <<counters, closing, pool, at, job>>
-----------------------------------------------------------------------------
(* A worker's steps other than those of the job it runs.                   *)
workerStep(w) ==
    \/ activate(w) \/ resetAllPaused(w) \/ acquireTask(w) \/ loadPauseCount(w)
    \/ tryPause(w) \/ beginTask(w) \/ getNextJob(w) \/ finishJob(w)
    \/ endTask(w) \/ notifyNoTasks(w) \/ deactivate(w) \/ signalAllPaused(w) \/ exitThread(w)

(* The steps of the stopping thread after it has begun to stop.            *)
stopStep ==
    \/ joinClosures \/ drain \/ requestPause \/ signalPause \/ awaitPaused
    \/ \E w \in Threads : deleteWorker(w)
    \/ destroyed

JobQueueNext ==
    \/ \E j \in Jobs : wrap(j) \/ addRefCountedJob(j) \/ addJobReturns(j)
    \/ \E w \in Threads : workerStep(w) \/ doJob(w)
    \/ stop
    \/ stopStep

JobQueueSpec == JobQueueInit /\ [][JobQueueNext]_jobQueueVars
-----------------------------------------------------------------------------
Holding(w) == at[w] \in {"body", "finish"}

Places ==
    {"start", "first", "idle", "woken", "mayPause", "task", "process", "body", "finish",
     "finished", "notify", "paused", "last", "parked", "exited"}

(* The counters of a type against the jobs themselves.                     *)
QueuedOf(t) == {j \in Jobs : fate[j] = "queued" /\ TypeOf[j] = t}
HoldersOf(t) == {w \in Threads : Holding(w) /\ TypeOf[job[w]] = t}

Balanced(t) ==
    /\ data[t].waiting = Cardinality(QueuedOf(t))
    /\ data[t].running = Cardinality(HoldersOf(t))
    /\ data[t].deferred <= data[t].waiting
    /\ data[t].waiting - data[t].deferred + data[t].running <= Limit[t]
    /\ data[t].deferred > 0 => data[t].waiting - data[t].deferred + data[t].running = Limit[t]

(* The counters of jobData_ say what is queued and what runs, whatever the *)
(* order in which posting, starting and finishing interleave; a type never *)
(* has more tasks signalled or running than its limit, and defers jobs     *)
(* only while all its slots are taken: a deferred job has a running or     *)
(* signalled one before it whose finishJob() will signal it.               *)
CountersMatch == \A t \in Types : Balanced(t)

(* getNextJob() "found next job" (JobQueue.cpp:315): however many workers  *)
(* were woken, as many jobs can run, so the iterator it dereferences is    *)
(* never end().                                                            *)
NextJobFound ==
    (\E w \in Threads : at[w] \in {"task", "process"}) => Runnable /= {}

(* Once stop() has returned every accepted job has run, addJob() has       *)
(* returned everywhere, and no worker is inside the queue's functions;     *)
(* once the queue is destroyed all workers have exited, and the pauses     *)
(* that made them exit left no signal behind.                              *)
NothingAfterStop ==
    /\ stopped => /\ Closures = {} /\ jobSet = {}
                  /\ \A w \in Threads : at[w] \notin {"task", "process", "body", "finish"}
    /\ stopper = "gone" => Exited = Threads /\ count = 0 /\ pauseCount = 0

(* The scheduler the queue implements: a job waits from the moment wrap()  *)
(* counts it, is active while a worker holds it, and is over when its slot *)
(* is given back.                                                          *)
Waiting == {j \in Jobs : fate[j] = "queued" \/ (fate[j] = "new" /\ j \in adding)}
Held == {job[w] : w \in {v \in Threads : Holding(v)}}
Over == {j \in Jobs : fate[j] = "done"} \ Held

Scheduler == INSTANCE JobScheduler WITH
    waiting <- Waiting, active <- Held, finished <- Over,
    closed <- waitForClosures, halted <- stopped
=============================================================================
