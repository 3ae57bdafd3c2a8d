----------------------------- MODULE CoroProofs -----------------------------
(***************************************************************************)
(* Proofs about the coroutines on the job queue (module Coro), for any     *)
(* number of coroutines, workers, jobs, types and limits: a coroutine runs *)
(* in one thread at a time, and nSuspend_ counts what it should.           *)
(***************************************************************************)
EXTENDS JobQueueProofs

(* How far a job of a coroutine is: not posted, accepted and not yet       *)
(* resuming ("enter"), where the worker that runs it is, or over.          *)
Unposted(j) == fate[j] = "new" /\ j \notin adding
Runner(j) == CHOOSE w \in Threads : Runs(w, j)

Progress(j) ==
    IF Unposted(j) THEN "unposted"
    ELSE IF fate[j] \in {"new", "queued"} THEN "enter"
    ELSE IF fate[j] = "running" THEN step[Runner(j)]
    ELSE fate[j]

(* The job that serves the request at p and the one that resumes the       *)
(* coroutine at a, before the coroutine is resumed.                        *)
Served(p, a) ==
    /\ p \in {"unposted", "enter", "refused", "serve", "posting", "locking", "leave", "done"}
    /\ p \in {"unposted", "enter", "refused", "serve"} => a = "unposted"
    /\ p = "posting" => a \in {"enter", "locking", "refused"}
    /\ p = "locking" => a = "refused"
    /\ p \in {"leave", "done"} => a \in {"unposted", "enter", "locking"}

(* A coroutine in state k and its jobs First at f, Path at p, Again at a.  *)
Protocol(k, f, p, a) ==
    /\ k = "none" => f = "unposted" /\ p = "unposted" /\ a = "unposted"
    /\ k = "created" => /\ f \in {"unposted", "enter", "locking", "refused"}
                        /\ p = "unposted" /\ a = "unposted"
    /\ k = "dropped" => f = "refused" /\ p = "unposted" /\ a = "unposted"
    /\ k = "asking" =>
          /\ f \in {"inside", "asked", "arranged"} /\ Served(p, a)
          /\ f = "inside" => p = "unposted"
          /\ f = "asked" => p \in {"unposted", "enter", "refused"}
          /\ f = "arranged" => p \notin {"unposted", "refused"}
    /\ k = "suspended" =>
          /\ f \in {"unlocking", "leave", "done"} /\ Served(p, a)
          /\ p \notin {"unposted", "refused"}
    /\ k = "answering" =>
          /\ f \in {"leave", "done"}
          /\ \/ p = "inside" /\ a = "refused"
             \/ p \in {"posting", "leave", "done"} /\ a = "inside"
    /\ k = "done" =>
          /\ f \in {"unlocking", "leave", "done"}
          /\ \/ p \in {"unposted", "enter", "refused", "leave", "done"} /\ a = "unposted"
             \/ p \in {"unlocking", "leave", "done"} /\ a = "refused"
             \/ p \in {"posting", "leave", "done"} /\ a \in {"unlocking", "leave", "done"}

CoroStates == {"none", "created", "dropped", "asking", "suspended", "answering", "done"}
Steps ==
    {"enter", "locking", "inside", "asked", "arranged", "unlocking", "leave", "serve", "posting"}
Acting == {"inside", "asked", "arranged"}
Owning == {"inside", "asked", "arranged", "unlocking"}

Tallied == {"created", "suspended"}
Yielded == {c \in Coros : coro[c] \in Tallied}
Locking == {w \in Threads : step[w] = "locking"}

CoroTypes ==
    /\ coro \in [Coros -> CoroStates] /\ step \in [Threads -> Steps]
    /\ owner \in [Coros -> Threads \cup {Nobody}]

Busy == \A w \in Threads : step[w] # "enter" => at[w] = "body" /\ job[w] \in CoroJobs
Locked == \A c \in Coros, w \in Threads : Resumes(w, c) /\ step[w] \in Owning => owner[c] = w
Follows(c) == Protocol(coro[c], Progress(First[c]), Progress(Path[c]), Progress(Again[c]))

CoroInv ==
    /\ CoroTypes /\ Busy /\ Locked
    /\ \A c \in Coros : Follows(c)
    /\ nSuspend = Cardinality(Yielded) - Cardinality(Locking)
-----------------------------------------------------------------------------
(* Who acts for a coroutine: in state "asking" its first job, in state     *)
(* "answering" one of the others, and nobody in any other state.           *)
LEMMA Actors ==
    ASSUME NEW k \in CoroStates, NEW f, NEW p, NEW a, Protocol(k, f, p, a)
    PROVE  /\ k = "asking" => f \in Acting /\ p \notin Acting /\ a \notin Acting
           /\ k = "answering" => /\ f \notin Acting
                                 /\ \/ p \in Acting /\ a \notin Acting
                                    \/ p \notin Acting /\ a \in Acting
           /\ k \notin {"asking", "answering"} =>
                 f \notin Acting /\ p \notin Acting /\ a \notin Acting
  BY DEF Protocol, Served, CoroStates, Acting
-----------------------------------------------------------------------------
(* The jobs of a coroutine are three, and no other coroutine's.            *)
LEMMA JobsOf ==
    ASSUME NEW c \in Coros
    PROVE  /\ First[c] \in Jobs /\ Path[c] \in Jobs /\ Again[c] \in Jobs
           /\ First[c] \in CoroJobs /\ Path[c] \in CoroJobs /\ Again[c] \in CoroJobs
           /\ First[c] /= Path[c] /\ First[c] /= Again[c] /\ Path[c] /= Again[c]
           /\ \A d \in Coros \ {c} :
                 {First[c], Path[c], Again[c]} \cap {First[d], Path[d], Again[d]} = {}
  <1>1. First[c] \in Jobs /\ Path[c] \in Jobs /\ Again[c] \in Jobs
    BY CoroAssumption
  <1>2. First[c] \in CoroJobs /\ Path[c] \in CoroJobs /\ Again[c] \in CoroJobs
    BY Zenon DEF CoroJobs
  <1>3. First[c] /= Path[c] /\ First[c] /= Again[c] /\ Path[c] /= Again[c]
    BY CoroAssumption, Zenon
  <1>4. ASSUME NEW d \in Coros \ {c}
        PROVE  {First[c], Path[c], Again[c]} \cap {First[d], Path[d], Again[d]} = {}
    <2>1. /\ First[c] /= Path[d] /\ First[c] /= Again[d] /\ Path[c] /= Again[d]
          /\ First[d] /= Path[c] /\ First[d] /= Again[c] /\ Path[d] /= Again[c]
          /\ First[c] /= First[d] /\ Path[c] /= Path[d] /\ Again[c] /= Again[d]
      BY CoroAssumption, Zenon
    <2>2. QED
      BY <2>1, Zenon
  <1>5. QED
    BY <1>1, <1>2, <1>3, <1>4, Zenon

(* A job that runs is where its worker is, and it has one worker.          *)
LEMMA ProgressRuns ==
    ASSUME QueueInv, NEW w \in Threads, NEW j \in Jobs, Runs(w, j)
    PROVE  fate[j] = "running" /\ Progress(j) = step[w] /\ \A v \in Threads : Runs(v, j) => v = w
  <1>1. fate[j] = "running"
    BY Zenon DEF Runs, QueueInv, Ownership
  <1>2. \A v \in Threads : Runs(v, j) => v = w
    BY Zenon DEF Runs, QueueInv, Ownership, Holding
  <1>3. Runner(j) = w
    BY <1>2, Zenon DEF Runner
  <1>4. QED
    BY <1>1, <1>2, <1>3, Zenon DEF Progress, Unposted

(* A job that is at a step of a worker is run by one that is there.        *)
LEMMA ProgressAt ==
    ASSUME QueueInv, NEW j \in Jobs, Progress(j) \in Steps, Progress(j) /= "enter"
    PROVE  \E w \in Threads : Runs(w, j) /\ step[w] = Progress(j)
  <1>1. fate[j] \in Fates
    BY Zenon DEF QueueInv, QueueTypes
  <1>2. fate[j] = "running"
    BY <1>1 DEF Progress, Fates, Steps
  <1>3. PICK w \in Threads : Runs(w, j)
    BY <1>2, Zenon DEF QueueInv, Ownership, Runs
  <1>4. QED
    BY <1>3, ProgressRuns, Zenon

(* The same after a step.                                                  *)
LEMMA ProgressRunsNext ==
    ASSUME QueueInv', NEW w \in Threads, NEW j \in Jobs, Runs(w, j)'
    PROVE  /\ fate'[j] = "running" /\ Progress(j)' = step'[w]
           /\ \A v \in Threads : Runs(v, j)' => v = w
  <1>1. fate'[j] = "running"
    BY Zenon DEF Runs, QueueInv, Ownership
  <1>2. \A u, v \in Threads : Holding(u)' /\ Holding(v)' /\ job'[u] = job'[v] => u = v
    BY Zenon DEF QueueInv, Ownership
  <1>3. \A v \in Threads : Runs(v, j)' => Holding(v)' /\ job'[v] = j
    BY Zenon DEF Runs, Holding
  <1>4. \A v \in Threads : Runs(v, j)' => v = w
    BY <1>2, <1>3, Zenon
  <1>5. Runner(j)' = w
    BY <1>4, Zenon DEF Runner
  <1>6. QED
    BY <1>1, <1>4, <1>5, Zenon DEF Progress, Unposted

(* A job moves on only when it is posted or its worker does.               *)
LEMMA ProgressStays ==
    ASSUME QueueInv, QueueInv', NEW j \in Jobs, Unposted(j)' <=> Unposted(j),
           \/ fate'[j] = fate[j]
           \/ fate[j] \in {"new", "queued"} /\ fate'[j] \in {"queued", "running"} /\ ~Unposted(j),
           \A w \in Threads : Runs(w, j) => Runs(w, j)' /\ step'[w] = step[w],
           \A w \in Threads : Runs(w, j)' /\ ~Runs(w, j) => step'[w] = "enter"
    PROVE  Progress(j)' = Progress(j)
  <1>1. fate[j] = "running" => \E v \in Threads : Runs(v, j)
    BY Zenon DEF Runs, QueueInv, Ownership
  <1>2. CASE fate'[j] = "running"
    <2>1. PICK w \in Threads : Runs(w, j)'
      BY <1>2, Zenon DEF QueueInv, Ownership, Runs
    <2>2. Progress(j)' = step'[w] /\ \A v \in Threads : Runs(v, j)' => v = w
      BY <2>1, ProgressRunsNext, Zenon
    <2>3. CASE Runs(w, j)
      BY <2>2, <2>3, ProgressRuns, Zenon
    <2>4. CASE ~Runs(w, j)
      <3>1. \A v \in Threads : ~Runs(v, j)
        BY <2>2, <2>4, Zenon
      <3>2. fate[j] /= "running"
        BY <1>1, <3>1, Zenon
      <3>3. fate[j] \in {"new", "queued"} /\ ~Unposted(j)
        BY <1>2, <3>2, Zenon
      <3>4. Progress(j) = "enter"
        BY <3>3, Zenon DEF Progress
      <3>5. QED
        BY <2>1, <2>2, <2>4, <3>4, Zenon
    <2>5. QED
      BY <2>3, <2>4, Zenon
  <1>3. CASE fate'[j] /= "running"
    <2>1. CASE fate'[j] = fate[j]
      BY <1>3, <2>1, Zenon DEF Progress
    <2>2. CASE fate[j] \in {"new", "queued"} /\ fate'[j] = "queued" /\ ~Unposted(j)
      BY <2>2, Zenon DEF Progress
    <2>3. QED
      BY <1>3, <2>1, <2>2, Zenon
  <1>4. QED
    BY <1>2, <1>3, Zenon
-----------------------------------------------------------------------------
(* The queue's own steps: a job goes on without passing a step of its      *)
(* coroutine.                                                              *)
GoesOn(j) ==
    /\ Unposted(j)' <=> Unposted(j)
    /\ \/ fate'[j] = fate[j]
       \/ fate[j] \in {"new", "queued"} /\ fate'[j] \in {"queued", "running"} /\ ~Unposted(j)

QueueStep ==
    /\ \A w \in Threads : at[w] = "body" => at'[w] = "body" /\ job'[w] = job[w]
    /\ \A j \in CoroJobs : GoesOn(j)

LEMMA CoroJobsAreJobs == CoroJobs \subseteq Jobs
  BY JobsOf, Zenon DEF CoroJobs

LEMMA QueueOnly ==
    ASSUME QueueInv, QueueInv', CoroInv, QueueStep, UNCHANGED <<coro, owner, nSuspend, step>>
    PROVE  CoroInv'
  <1>1. ASSUME NEW w \in Threads, NEW j
        PROVE  /\ Runs(w, j) => Runs(w, j)'
               /\ Runs(w, j)' /\ ~Runs(w, j) => at[w] /= "body"
    BY Zenon DEF QueueStep, Runs
  <1>2. \A w \in Threads : at[w] /= "body" => step[w] = "enter"
    BY Zenon DEF CoroInv, Busy
  <1>3. ASSUME NEW j \in CoroJobs PROVE Progress(j)' = Progress(j)
    <2>1. GoesOn(j) /\ j \in Jobs
      BY CoroJobsAreJobs, Zenon DEF QueueStep
    <2>2. \A w \in Threads : Runs(w, j) => Runs(w, j)' /\ step'[w] = step[w]
      BY <1>1, Zenon
    <2>3. \A w \in Threads : Runs(w, j)' /\ ~Runs(w, j) => step'[w] = "enter"
      BY <1>1, <1>2, Zenon
    <2>4. QED
      BY <2>1, <2>2, <2>3, ProgressStays, Zenon DEF GoesOn
  <1>4. \A c \in Coros : Follows(c)'
    BY <1>3, JobsOf, Zenon DEF CoroInv, Follows
  <1>5. Busy'
    BY Zenon DEF CoroInv, Busy, QueueStep
  <1>6. Locked'
    <2>1. ASSUME NEW c \in Coros, NEW w \in Threads, Resumes(w, c)', step[w] \in Owning
          PROVE  owner[c] = w
      <3>1. step[w] /= "enter"
        BY <2>1, Zenon DEF Owning
      <3>2. at[w] = "body"
        BY <1>2, <3>1, Zenon
      <3>3. Resumes(w, c)
        BY <1>1, <2>1, <3>2, Zenon DEF Resumes
      <3>4. QED
        BY <2>1, <3>3, Zenon DEF CoroInv, Locked
    <2>2. QED
      BY <2>1, Zenon DEF Locked
  <1>7. Yielded' = Yielded /\ Locking' = Locking /\ CoroTypes'
    BY Zenon DEF Yielded, Locking, CoroInv, CoroTypes
  <1>8. QED
    BY <1>4, <1>5, <1>6, <1>7, Zenon DEF CoroInv

LEMMA SameQueue ==
    ASSUME UNCHANGED <<fate, adding, at, job>>
    PROVE  QueueStep
  BY Zenon DEF QueueStep, GoesOn, Unposted

LEMMA WrapOther ==
    ASSUME QueueInv, NEW i \in Jobs \ CoroJobs, wrap(i)
    PROVE  QueueStep
  <1>1. fate \in [Jobs -> Fates]
    BY Zenon DEF QueueInv, QueueTypes
  <1>2. UNCHANGED <<at, job>>
    BY Zenon DEF wrap
  <1>3. ASSUME NEW j \in CoroJobs PROVE fate'[j] = fate[j] /\ (j \in adding' <=> j \in adding)
    <2>1. j \in Jobs /\ j /= i
      BY CoroJobsAreJobs, Zenon
    <2>2. QED
      BY <1>1, <2>1, Zenon DEF wrap
  <1>4. QED
    BY <1>2, <1>3, Zenon DEF QueueStep, GoesOn, Unposted

LEMMA AddOnly ==
    ASSUME QueueInv, NEW i \in Jobs, addRefCountedJob(i) \/ addJobReturns(i)
    PROVE  QueueStep
  <1>1. fate \in [Jobs -> Fates]
    BY Zenon DEF QueueInv, QueueTypes
  <1>2. UNCHANGED <<at, job>>
    BY Zenon DEF addRefCountedJob, addJobReturns
  <1>3. ASSUME NEW j \in CoroJobs PROVE GoesOn(j)
    <2>1. j \in Jobs
      BY CoroJobsAreJobs, Zenon
    <2>2. CASE addRefCountedJob(i)
      <3>1. fate[i] = "new" /\ i \in adding /\ fate'[i] = "queued" /\ adding' = adding
        BY <1>1, <2>2, Zenon DEF addRefCountedJob, closing
      <3>2. j /= i => fate'[j] = fate[j]
        BY <1>1, <2>1, <2>2, Zenon DEF addRefCountedJob
      <3>3. QED
        BY <3>1, <3>2, Zenon DEF GoesOn, Unposted
    <2>3. CASE addJobReturns(i)
      <3>1. fate' = fate /\ fate[i] /= "new" /\ adding' = adding \ {i}
        BY <2>3, Zenon DEF addJobReturns, counters
      <3>2. QED
        BY <3>1, Zenon DEF GoesOn, Unposted
    <2>4. QED
      BY <2>2, <2>3, Zenon
  <1>4. QED
    BY <1>2, <1>3, Zenon DEF QueueStep

LEMMA WorkerOnly ==
    ASSUME QueueInv, NEW w \in Threads, workerStep(w)
    PROVE  QueueStep
  <1>1. /\ fate \in [Jobs -> Fates] /\ at \in [Threads -> Places]
        /\ job \in [Threads -> Jobs \cup {NoJob}]
    BY Zenon DEF QueueInv, QueueTypes
  <1>2. CASE getNextJob(w)
    <2>1. PICK i \in Runnable :
             /\ at[w] = "process" /\ at' = [at EXCEPT ![w] = "body"]
             /\ job' = [job EXCEPT ![w] = i]
             /\ fate' = [fate EXCEPT ![i] = "running"] /\ adding' = adding
      BY <1>2, Zenon DEF getNextJob, Goes, closing
    <2>2. i \in Jobs /\ fate[i] = "queued"
      BY Zenon DEF Runnable, jobSet
    <2>3. \A v \in Threads : at[v] = "body" => v /= w /\ at'[v] = "body" /\ job'[v] = job[v]
      BY <1>1, <2>1, Zenon
    <2>4. ASSUME NEW j \in CoroJobs PROVE GoesOn(j)
      <3>1. j \in Jobs
        BY CoroJobsAreJobs, Zenon
      <3>2. j /= i => fate'[j] = fate[j]
        BY <1>1, <2>1, <3>1, Zenon
      <3>3. fate'[i] = "running"
        BY <1>1, <2>1, <2>2, Zenon
      <3>4. QED
        BY <2>1, <2>2, <3>2, <3>3, Zenon DEF GoesOn, Unposted
    <2>5. QED
      BY <2>3, <2>4, Zenon DEF QueueStep
  <1>3. CASE finishJob(w)
    <2>1. /\ at[w] = "finish" /\ at' = [at EXCEPT ![w] = "finished"]
          /\ job' = [job EXCEPT ![w] = NoJob] /\ UNCHANGED <<fate, adding>>
      BY <1>3, Zenon DEF finishJob, Goes, closing
    <2>2. \A v \in Threads : at[v] = "body" => v /= w /\ at'[v] = "body" /\ job'[v] = job[v]
      BY <1>1, <2>1, Zenon
    <2>3. QED
      BY <2>1, <2>2, Zenon DEF QueueStep, GoesOn, Unposted
  <1>4. CASE ~getNextJob(w) /\ ~finishJob(w)
    <2>1. UNCHANGED <<fate, adding, job>>
      BY <1>4, Zenon DEF workerStep, activate, resetAllPaused, acquireTask, loadPauseCount, tryPause,
                  beginTask, endTask, notifyNoTasks, deactivate, signalAllPaused, exitThread,
                  counters, closing
    <2>2. PICK to : at[w] /= "body" /\ at' = [at EXCEPT ![w] = to]
      BY <1>4, Zenon DEF workerStep, activate, resetAllPaused, acquireTask, loadPauseCount, tryPause,
                  beginTask, endTask, notifyNoTasks, deactivate, signalAllPaused, exitThread, Goes
    <2>3. \A v \in Threads : at[v] = "body" => v /= w /\ at'[v] = "body"
      BY <1>1, <2>2, Zenon
    <2>4. QED
      BY <2>1, <2>3, Zenon DEF QueueStep, GoesOn, Unposted
  <1>5. QED
    BY <1>2, <1>3, <1>4, Zenon

LEMMA StopOnly == ASSUME stop \/ stopStep PROVE QueueStep
  <1>1. UNCHANGED <<fate, adding, at, job>>
    BY Zenon DEF stop, stopStep, joinClosures, drain, requestPause, signalPause, awaitPaused,
           deleteWorker, destroyed, counters, closing
  <1>2. QED
    BY <1>1, SameQueue, Zenon
-----------------------------------------------------------------------------
(* The steps of a worker in a job of a coroutine.                          *)
JobsFor(c) == {First[c], Path[c], Again[c]}

SamePosting(j) == fate'[j] = fate[j] /\ (j \in adding' <=> j \in adding)

(* A worker runs a job of one coroutine.                                   *)
LEMMA OneCoro ==
    ASSUME NEW w, NEW c \in Coros, NEW d \in Coros, job[w] \in JobsFor(c), Resumes(w, d)
    PROVE  c = d
  <1>1. job[w] \in {First[d], Path[d], Again[d]}
    BY Zenon DEF Resumes, Runs
  <1>2. QED
    BY <1>1, JobsOf, Zenon DEF JobsFor

(* Its step moves the job it runs and no other.                            *)
LEMMA StepProgress ==
    ASSUME QueueInv, QueueInv', CoroTypes, NEW w \in Threads, NEW i \in Jobs, Runs(w, i),
           NEW s, step' = [step EXCEPT ![w] = s], UNCHANGED <<at, job>>
    PROVE  /\ Progress(i)' = s
           /\ \A j \in Jobs \ {i} : SamePosting(j) => Progress(j)' = Progress(j)
  <1>1. step'[w] = s /\ \A v \in Threads \ {w} : step'[v] = step[v]
    BY Zenon DEF CoroTypes
  <1>2. \A v, j : Runs(v, j)' <=> Runs(v, j)
    BY Zenon DEF Runs
  <1>3. Progress(i)' = s
    BY <1>1, <1>2, ProgressRunsNext, Zenon
  <1>4. ASSUME NEW j \in Jobs \ {i}, SamePosting(j) PROVE Progress(j)' = Progress(j)
    <2>1. \A v \in Threads : Runs(v, j) => v /= w
      BY Zenon DEF Runs
    <2>2. \A v \in Threads : Runs(v, j) => Runs(v, j)' /\ step'[v] = step[v]
      BY <1>1, <1>2, <2>1, Zenon
    <2>3. fate'[j] = fate[j] /\ (Unposted(j)' <=> Unposted(j))
      BY <1>4, Zenon DEF SamePosting, Unposted
    <2>4. QED
      BY <1>2, <2>2, <2>3, ProgressStays, Zenon
  <1>5. QED
    BY <1>3, <1>4, Zenon

(* The mutex of a coroutine is passed on, if at all, by its holder.        *)
LEMMA StepLocked ==
    ASSUME CoroInv, NEW w \in Threads, NEW c \in Coros, job[w] \in JobsFor(c),
           NEW s, step' = [step EXCEPT ![w] = s], UNCHANGED <<at, job>>,
           \A d \in Coros \ {c} : owner'[d] = owner[d],
           s \in Owning => owner'[c] = w,
           \A v \in Threads \ {w} : owner[c] = v => owner'[c] = v
    PROVE  Locked'
  <1>1. step'[w] = s /\ \A v \in Threads \ {w} : step'[v] = step[v]
    BY Zenon DEF CoroInv, CoroTypes
  <1>2. SUFFICES ASSUME NEW d \in Coros, NEW v \in Threads, Resumes(v, d)', step'[v] \in Owning
                 PROVE  owner'[d] = v
    BY Zenon DEF Locked
  <1>3. Resumes(v, d)
    BY <1>2, Zenon DEF Resumes, Runs
  <1>4. CASE v = w
    <2>1. d = c
      BY <1>3, <1>4, OneCoro, Zenon
    <2>2. QED
      BY <1>1, <1>2, <1>4, <2>1, Zenon
  <1>5. CASE v /= w
    <2>1. owner[d] = v
      BY <1>1, <1>2, <1>3, <1>5, Zenon DEF CoroInv, Locked
    <2>2. QED
      BY <1>5, <2>1, Zenon
  <1>6. QED
    BY <1>4, <1>5, Zenon

(* The coroutines whose yield is counted, and the resumes under way.       *)
LEMMA YieldedCount ==
    ASSUME CoroTypes
    PROVE  IsFiniteSet(Yielded) /\ Cardinality(Yielded) \in Nat
  <1>1. Yielded \subseteq Coros
    BY DEF Yielded
  <1>2. QED
    BY <1>1, CoroAssumption, FS_Subset, FS_CardinalityType

LEMMA LockingCount ==
    ASSUME CoroTypes
    PROVE  IsFiniteSet(Locking) /\ Cardinality(Locking) \in Nat
  <1>1. Locking \subseteq Threads
    BY DEF Locking
  <1>2. QED
    BY <1>1, JobQueueAssumption, FS_Subset, FS_CardinalityType

LEMMA YieldedChange ==
    ASSUME CoroTypes, NEW c \in Coros, NEW k, coro' = [coro EXCEPT ![c] = k]
    PROVE  /\ (k \in Tallied <=> coro[c] \in Tallied) => Yielded' = Yielded
           /\ k \in Tallied /\ coro[c] \notin Tallied =>
                 Cardinality(Yielded') = Cardinality(Yielded) + 1
           /\ k \notin Tallied /\ coro[c] \in Tallied =>
                 Cardinality(Yielded') = Cardinality(Yielded) - 1
  <1>1. coro'[c] = k /\ \A d \in Coros \ {c} : coro'[d] = coro[d]
    BY Zenon DEF CoroTypes
  <1>2. (k \in Tallied <=> coro[c] \in Tallied) => Yielded' = Yielded
    BY <1>1, Zenon DEF Yielded
  <1>3. ASSUME k \in Tallied, coro[c] \notin Tallied
        PROVE  Cardinality(Yielded') = Cardinality(Yielded) + 1
    <2>1. c \notin Yielded /\ Yielded' = Yielded \cup {c}
      BY <1>1, <1>3, Zenon DEF Yielded
    <2>2. QED
      BY <2>1, YieldedCount, FS_AddElement, Zenon
  <1>4. ASSUME k \notin Tallied, coro[c] \in Tallied
        PROVE  Cardinality(Yielded') = Cardinality(Yielded) - 1
    <2>1. c \in Yielded /\ Yielded' = Yielded \ {c}
      BY <1>1, <1>4, Zenon DEF Yielded
    <2>2. QED
      BY <2>1, YieldedCount, FS_RemoveElement, Zenon
  <1>5. QED
    BY <1>2, <1>3, <1>4, Zenon

LEMMA LockingChange ==
    ASSUME CoroTypes, NEW w \in Threads, NEW s, step' = [step EXCEPT ![w] = s]
    PROVE  /\ (s = "locking" <=> step[w] = "locking") => Locking' = Locking
           /\ s = "locking" /\ step[w] /= "locking" =>
                 Cardinality(Locking') = Cardinality(Locking) + 1
           /\ s /= "locking" /\ step[w] = "locking" =>
                 Cardinality(Locking') = Cardinality(Locking) - 1
  <1>1. step'[w] = s /\ \A v \in Threads \ {w} : step'[v] = step[v]
    BY Zenon DEF CoroTypes
  <1>2. (s = "locking" <=> step[w] = "locking") => Locking' = Locking
    BY <1>1, Zenon DEF Locking
  <1>3. ASSUME s = "locking", step[w] /= "locking"
        PROVE  Cardinality(Locking') = Cardinality(Locking) + 1
    <2>1. w \notin Locking /\ Locking' = Locking \cup {w}
      BY <1>1, <1>3, Zenon DEF Locking
    <2>2. QED
      BY <2>1, LockingCount, FS_AddElement, Zenon
  <1>4. ASSUME s /= "locking", step[w] = "locking"
        PROVE  Cardinality(Locking') = Cardinality(Locking) - 1
    <2>1. w \in Locking /\ Locking' = Locking \ {w}
      BY <1>1, <1>4, Zenon DEF Locking
    <2>2. QED
      BY <2>1, LockingCount, FS_RemoveElement, Zenon
  <1>5. QED
    BY <1>2, <1>3, <1>4, Zenon

(* What remains to be shown of a step of a worker in a coroutine's job.    *)
LEMMA StepKeeps ==
    ASSUME QueueInv, QueueInv', CoroInv, NEW w \in Threads, NEW c \in Coros,
           NEW i \in JobsFor(c), Runs(w, i),
           NEW s \in Steps, step' = [step EXCEPT ![w] = s], UNCHANGED <<at, job>>,
           NEW k \in CoroStates, coro' = [coro EXCEPT ![c] = k],
           owner' \in [Coros -> Threads \cup {Nobody}],
           \A d \in Coros \ {c} : owner'[d] = owner[d],
           s \in Owning => owner'[c] = w,
           \A v \in Threads \ {w} : owner[c] = v => owner'[c] = v,
           \A d \in Coros \ {c} : \A j \in JobsFor(d) : SamePosting(j),
           Follows(c)', nSuspend' = Cardinality(Yielded') - Cardinality(Locking')
    PROVE  CoroInv'
  <1>1. job[w] = i /\ at[w] = "body"
    BY Zenon DEF Runs
  <1>2. CoroTypes /\ Busy
    BY Zenon DEF CoroInv
  <1>3. CoroTypes'
    BY <1>2, Zenon DEF CoroTypes
  <1>4. step'[w] = s /\ (\A v \in Threads \ {w} : step'[v] = step[v])
    BY <1>2, Zenon DEF CoroTypes
  <1>5. i \in CoroJobs /\ i \in Jobs
    BY JobsOf, Zenon DEF JobsFor
  <1>6. Busy'
    BY <1>1, <1>2, <1>4, <1>5, Zenon DEF Busy
  <1>7. Locked'
    BY <1>1, StepLocked, Zenon
  <1>8. ASSUME NEW d \in Coros \ {c} PROVE Follows(d)'
    <2>1. \A j \in JobsFor(d) : j \in Jobs \ {i} /\ SamePosting(j)
      BY JobsOf, Zenon DEF JobsFor
    <2>2. \A j \in JobsFor(d) : Progress(j)' = Progress(j)
      BY <1>2, <1>5, <2>1, StepProgress, Zenon
    <2>3. coro'[d] = coro[d]
      BY <1>2, Zenon DEF CoroTypes
    <2>4. QED
      BY <2>2, <2>3, Zenon DEF CoroInv, Follows, JobsFor
  <1>9. QED
    BY <1>3, <1>6, <1>7, <1>8, Zenon DEF CoroInv

(* One or none. *)
One(b) == IF b THEN 1 ELSE 0

(* nSuspend_ follows the coroutine and the worker that move.               *)
LEMMA CountMoves ==
    ASSUME CoroInv, NEW w \in Threads, NEW c \in Coros, NEW s, step' = [step EXCEPT ![w] = s],
           NEW k, coro' = [coro EXCEPT ![c] = k],
           nSuspend' = nSuspend + One(k \in Tallied) - One(coro[c] \in Tallied)
                         - One(s = "locking") + One(step[w] = "locking")
    PROVE  nSuspend' = Cardinality(Yielded') - Cardinality(Locking')
  <1>1. CoroTypes /\ nSuspend = Cardinality(Yielded) - Cardinality(Locking)
    BY Zenon DEF CoroInv
  <1>2. PICK y, l \in Nat : y = Cardinality(Yielded) /\ l = Cardinality(Locking)
    BY <1>1, YieldedCount, LockingCount, Zenon
  <1>3. PICK y1, l1 : y1 = Cardinality(Yielded') /\ l1 = Cardinality(Locking')
    OBVIOUS
  <1>4. /\ (k \in Tallied <=> coro[c] \in Tallied) => y1 = y
        /\ k \in Tallied /\ coro[c] \notin Tallied => y1 = y + 1
        /\ k \notin Tallied /\ coro[c] \in Tallied => y1 = y - 1
    BY <1>1, <1>2, <1>3, YieldedChange, Zenon
  <1>5. /\ (s = "locking" <=> step[w] = "locking") => l1 = l
        /\ s = "locking" /\ step[w] /= "locking" => l1 = l + 1
        /\ s /= "locking" /\ step[w] = "locking" => l1 = l - 1
    BY <1>1, <1>2, <1>3, LockingChange, Zenon
  <1>6. y1 = y + One(k \in Tallied) - One(coro[c] \in Tallied)
    BY <1>4 DEF One
  <1>7. l1 = l + One(s = "locking") - One(step[w] = "locking")
    BY <1>5 DEF One
  <1>8. One(k \in Tallied) \in Int /\ One(coro[c] \in Tallied) \in Int
        /\ One(s = "locking") \in Int /\ One(step[w] = "locking") \in Int
    BY DEF One
  <1>9. nSuspend = y - l
    BY <1>1, <1>2
  <1>10. nSuspend' = y1 - l1
    BY <1>6, <1>7, <1>8, <1>9
  <1>11. QED
    BY <1>3, <1>10

(* wrap() posts one job.                                                   *)
LEMMA WrapProgress ==
    ASSUME QueueInv, NEW j \in Jobs, wrap(j)
    PROVE  /\ Progress(j) = "unposted" /\ Progress(j)' \in {"enter", "refused"}
           /\ \A i \in Jobs \ {j} : SamePosting(i)
           /\ UNCHANGED <<at, job>>
  <1>1. fate \in [Jobs -> Fates]
    BY Zenon DEF QueueInv, QueueTypes
  <1>2. Progress(j) = "unposted" /\ UNCHANGED <<at, job>>
    BY Zenon DEF wrap, Progress, Unposted
  <1>3. fate'[j] = "refused" \/ (fate'[j] = "new" /\ j \in adding')
    BY <1>1, Zenon DEF wrap
  <1>4. Progress(j)' \in {"enter", "refused"}
    BY <1>3 DEF Progress, Unposted
  <1>5. \A i \in Jobs \ {j} : SamePosting(i)
    BY <1>1, Zenon DEF wrap, SamePosting
  <1>6. QED
    BY <1>2, <1>4, <1>5, Zenon

(* A step of a worker that posts nothing.                                  *)
LEMMA Moved ==
    ASSUME QueueInv, QueueInv', CoroInv, NEW w \in Threads, NEW c \in Coros,
           NEW i \in JobsFor(c), Runs(w, i),
           NEW s \in Steps, step' = [step EXCEPT ![w] = s],
           NEW k \in CoroStates, coro' = [coro EXCEPT ![c] = k],
           UNCHANGED <<fate, adding, at, job>>,
           owner' \in [Coros -> Threads \cup {Nobody}],
           \A d \in Coros \ {c} : owner'[d] = owner[d],
           s \in Owning => owner'[c] = w,
           \A v \in Threads \ {w} : owner[c] = v => owner'[c] = v,
           i = First[c] => Protocol(k, s, Progress(Path[c]), Progress(Again[c])),
           i = Path[c] => Protocol(k, Progress(First[c]), s, Progress(Again[c])),
           i = Again[c] => Protocol(k, Progress(First[c]), Progress(Path[c]), s),
           nSuspend' = nSuspend + One(k \in Tallied) - One(coro[c] \in Tallied)
                         - One(s = "locking") + One(step[w] = "locking")
    PROVE  CoroInv'
  <1>1. \A j : SamePosting(j)
    BY Zenon DEF SamePosting
  <1>2. i \in Jobs /\ CoroTypes
    BY JobsOf, Zenon DEF JobsFor, CoroInv
  <1>3. /\ Progress(i)' = s
        /\ \A j \in JobsFor(c) \ {i} : Progress(j)' = Progress(j)
    BY <1>1, <1>2, JobsOf, StepProgress, Zenon DEF JobsFor
  <1>4. coro'[c] = k
    BY <1>2, Zenon DEF CoroTypes
  <1>5. Follows(c)'
    <2>1. CASE i = First[c]
      BY <1>3, <1>4, <2>1, JobsOf, Zenon DEF Follows, JobsFor
    <2>2. CASE i = Path[c]
      BY <1>3, <1>4, <2>2, JobsOf, Zenon DEF Follows, JobsFor
    <2>3. CASE i = Again[c]
      BY <1>3, <1>4, <2>3, JobsOf, Zenon DEF Follows, JobsFor
    <2>4. QED
      BY <2>1, <2>2, <2>3, Zenon DEF JobsFor
  <1>6. nSuspend' = Cardinality(Yielded') - Cardinality(Locking')
    BY CountMoves, Zenon
  <1>7. QED
    BY <1>1, <1>5, <1>6, StepKeeps, Zenon

(* ... and leaves the mutex with its holder.                               *)
LEMMA MovedSameOwner ==
    ASSUME QueueInv, QueueInv', CoroInv, NEW w \in Threads, NEW c \in Coros,
           NEW i \in JobsFor(c), Runs(w, i),
           NEW s \in Steps, step' = [step EXCEPT ![w] = s],
           NEW k \in CoroStates, coro' = [coro EXCEPT ![c] = k],
           UNCHANGED <<fate, adding, at, job, owner>>,
           s \in Owning => step[w] \in Owning,
           i = First[c] => Protocol(k, s, Progress(Path[c]), Progress(Again[c])),
           i = Path[c] => Protocol(k, Progress(First[c]), s, Progress(Again[c])),
           i = Again[c] => Protocol(k, Progress(First[c]), Progress(Path[c]), s),
           nSuspend' = nSuspend + One(k \in Tallied) - One(coro[c] \in Tallied)
                         - One(s = "locking") + One(step[w] = "locking")
    PROVE  CoroInv'
  <1>1. Resumes(w, c)
    BY Zenon DEF Resumes, JobsFor
  <1>2. s \in Owning => owner'[c] = w
    BY <1>1, Zenon DEF CoroInv, Locked
  <1>3. owner' \in [Coros -> Threads \cup {Nobody}]
    BY Zenon DEF CoroInv, CoroTypes
  <1>4. QED
    BY <1>2, <1>3, Moved, Zenon

LEMMA SameState == ASSUME CoroInv, NEW c \in Coros PROVE coro = [coro EXCEPT ![c] = coro[c]]
  BY Zenon DEF CoroInv, CoroTypes

(* The state of a coroutine before a step of one of its workers.           *)
LEMMA StateOf ==
    ASSUME QueueInv, CoroInv, NEW w \in Threads, NEW c \in Coros, NEW i \in JobsFor(c), Runs(w, i)
    PROVE  /\ coro[c] \in CoroStates /\ step[w] \in Steps
           /\ Protocol(coro[c], Progress(First[c]), Progress(Path[c]), Progress(Again[c]))
           /\ i = First[c] => Progress(First[c]) = step[w]
           /\ i = Path[c] => Progress(Path[c]) = step[w]
           /\ i = Again[c] => Progress(Again[c]) = step[w]
           /\ nSuspend \in Int
  <1>1. CoroTypes /\ Follows(c)
    BY Zenon DEF CoroInv
  <1>2. coro[c] \in CoroStates /\ step[w] \in Steps
    BY <1>1, Zenon DEF CoroTypes
  <1>3. nSuspend \in Int
    <2>1. nSuspend = Cardinality(Yielded) - Cardinality(Locking)
      BY Zenon DEF CoroInv
    <2>2. Cardinality(Yielded) \in Nat /\ Cardinality(Locking) \in Nat
      BY <1>1, YieldedCount, LockingCount, Zenon
    <2>3. QED
      BY <2>1, <2>2
  <1>4. Progress(i) = step[w]
    <2>1. i \in Jobs
      BY JobsOf, Zenon DEF JobsFor
    <2>2. QED
      BY <2>1, ProgressRuns, Zenon
  <1>5. Protocol(coro[c], Progress(First[c]), Progress(Path[c]), Progress(Again[c]))
    BY <1>1, Zenon DEF Follows
  <1>6. /\ i = First[c] => Progress(First[c]) = step[w]
        /\ i = Path[c] => Progress(Path[c]) = step[w]
        /\ i = Again[c] => Progress(Again[c]) = step[w]
    BY <1>4, Zenon
  <1>7. QED
    BY <1>2, <1>3, <1>5, <1>6, Zenon

LEMMA ResumeInv ==
    ASSUME QueueInv, QueueInv', CoroInv, NEW w \in Threads, NEW c \in Coros, resume(w, c)
    PROVE  CoroInv'
  <1>1. PICK i \in JobsFor(c) : Runs(w, i) /\ (i = Path[c] => fate[Again[c]] = "refused")
    BY JobsOf, Zenon DEF resume, JobsFor
  <1>2. /\ i = Path[c] => step[w] = "posting"
        /\ i /= Path[c] => step[w] = "enter"
        /\ step' = [step EXCEPT ![w] = "locking"] /\ coro' = coro /\ nSuspend' = nSuspend - 1
        /\ UNCHANGED <<fate, adding, at, job, owner>>
    BY <1>1, Zenon DEF resume, Moves, Runs, jobQueueVars, counters, closing
  <1>3. /\ coro[c] \in CoroStates
        /\ Protocol(coro[c], Progress(First[c]), Progress(Path[c]), Progress(Again[c]))
        /\ i = First[c] => Progress(First[c]) = step[w]
        /\ i = Path[c] => Progress(Path[c]) = step[w]
        /\ i = Again[c] => Progress(Again[c]) = step[w]
    BY <1>1, StateOf, Zenon
  <1>4. First[c] /= Path[c] /\ Again[c] /= Path[c]
    BY JobsOf, Zenon
  <1>5. i = First[c] => Protocol(coro[c], "locking", Progress(Path[c]), Progress(Again[c]))
    <2>1. i = First[c] => Progress(First[c]) = "enter"
      BY <1>2, <1>3, <1>4, Zenon
    <2>2. QED
      BY <1>3, <2>1 DEF Protocol, Served, CoroStates, Owning
  <1>6. i = Path[c] => Protocol(coro[c], Progress(First[c]), "locking", Progress(Again[c]))
    <2>1. fate[Again[c]] = "refused" => Progress(Again[c]) = "refused"
      BY DEF Progress, Unposted
    <2>2. i = Path[c] => Progress(Path[c]) = "posting"
      BY <1>2, <1>3, Zenon
    <2>3. QED
      BY <1>1, <1>3, <2>1, <2>2 DEF Protocol, Served, CoroStates, Owning
  <1>7. i = Again[c] => Protocol(coro[c], Progress(First[c]), Progress(Path[c]), "locking")
    <2>1. i = Again[c] => Progress(Again[c]) = "enter"
      BY <1>2, <1>3, <1>4, Zenon
    <2>2. QED
      BY <1>3, <2>1 DEF Protocol, Served, CoroStates, Owning
  <1>8. nSuspend' = nSuspend + One(coro[c] \in Tallied) - One(coro[c] \in Tallied)
                         - One("locking" = "locking") + One(step[w] = "locking")
    BY <1>1, <1>2, <1>4, StateOf DEF One
  <1>9. "locking" \in Steps /\ "locking" \notin Owning
    BY DEF Steps, Owning
  <1>10. coro' = [coro EXCEPT ![c] = coro[c]] /\ coro[c] \in CoroStates
    BY <1>2, <1>3, SameState, Zenon
  <1>11. QED
    BY <1>1, <1>2, <1>5, <1>6, <1>7, <1>8, <1>9, <1>10, MovedSameOwner, Zenon

LEMMA LockInv ==
    ASSUME QueueInv, QueueInv', CoroInv, NEW w \in Threads, NEW c \in Coros, lockAndContinue(w, c)
    PROVE  CoroInv'
  <1>1. PICK i \in JobsFor(c) : Runs(w, i)
    BY Zenon DEF lockAndContinue, Resumes, JobsFor
  <1>2. /\ owner[c] = Nobody /\ step[w] = "locking"
        /\ owner' = [owner EXCEPT ![c] = w] /\ nSuspend' = nSuspend
        /\ UNCHANGED <<fate, adding, at, job>>
    BY Zenon DEF lockAndContinue, Moves, jobQueueVars, counters, closing
  <1>3. Progress(First[c]) \notin Owning
    <2>1. ASSUME Progress(First[c]) \in Owning PROVE FALSE
      <3>1. Progress(First[c]) \in Steps /\ Progress(First[c]) /= "enter"
        BY <2>1 DEF Owning, Steps
      <3>2. PICK v \in Threads : Runs(v, First[c]) /\ step[v] = Progress(First[c])
        BY <3>1, JobsOf, ProgressAt, Zenon
      <3>3. owner[c] = v
        BY <2>1, <3>2, Zenon DEF CoroInv, Locked, Resumes
      <3>4. QED
        BY <1>2, <3>3, CoroAssumption, Zenon
    <2>2. QED
      BY <2>1, Zenon
  <1>4. /\ coro[c] \in CoroStates
        /\ Protocol(coro[c], Progress(First[c]), Progress(Path[c]), Progress(Again[c]))
        /\ i = First[c] => Progress(First[c]) = "locking"
        /\ i = Path[c] => Progress(Path[c]) = "locking"
        /\ i = Again[c] => Progress(Again[c]) = "locking"
    BY <1>1, <1>2, StateOf, Zenon
  <1>5. PICK k \in {"asking", "answering"} :
           /\ coro[c] \in Tallied /\ coro' = [coro EXCEPT ![c] = k]
           /\ step' = [step EXCEPT ![w] = "inside"]
           /\ i = First[c] => Protocol(k, "inside", Progress(Path[c]), Progress(Again[c]))
           /\ i = Path[c] => Protocol(k, Progress(First[c]), "inside", Progress(Again[c]))
           /\ i = Again[c] => Protocol(k, Progress(First[c]), Progress(Path[c]), "inside")
    <2>1. CASE i = First[c]
      <3>1. coro[c] = "created" /\ Protocol("asking", "inside", Progress(Path[c]), Progress(Again[c]))
        BY <1>4, <2>1 DEF Protocol, Served, CoroStates, Owning
      <3>2. coro' = [coro EXCEPT ![c] = "asking"] /\ step' = [step EXCEPT ![w] = "inside"]
        BY <3>1 DEF lockAndContinue, Moves
      <3>3. First[c] /= Path[c] /\ First[c] /= Again[c] /\ coro[c] \in Tallied
        BY <3>1, JobsOf, Zenon DEF Tallied
      <3>4. QED
        BY <2>1, <3>1, <3>2, <3>3, Zenon
    <2>2. CASE i \in {Path[c], Again[c]}
      <3>1. /\ coro[c] = "suspended"
            /\ i = Path[c] => Protocol("answering", Progress(First[c]), "inside", Progress(Again[c]))
            /\ i = Again[c] => Protocol("answering", Progress(First[c]), Progress(Path[c]), "inside")
        <4>1. CASE i = Path[c]
          BY <1>3, <1>4, <4>1, JobsOf DEF Protocol, Served, CoroStates, Owning
        <4>2. CASE i = Again[c]
          BY <1>3, <1>4, <4>2, JobsOf DEF Protocol, Served, CoroStates, Owning
        <4>3. QED
          BY <2>2, <4>1, <4>2, Zenon
      <3>2. coro' = [coro EXCEPT ![c] = "answering"] /\ step' = [step EXCEPT ![w] = "inside"]
        BY <3>1 DEF lockAndContinue, Moves
      <3>3. First[c] /= Path[c] /\ First[c] /= Again[c] /\ coro[c] \in Tallied
        BY <3>1, JobsOf, Zenon DEF Tallied
      <3>4. QED
        BY <2>2, <3>1, <3>2, <3>3, Zenon
    <2>3. QED
      BY <2>1, <2>2, Zenon DEF JobsFor
  <1>6. /\ k \in CoroStates /\ k \notin Tallied /\ "inside" \in Steps
    BY DEF CoroStates, Tallied, Steps
  <1>7. nSuspend' = nSuspend + One(k \in Tallied) - One(coro[c] \in Tallied)
                         - One("inside" = "locking") + One(step[w] = "locking")
    BY <1>1, <1>2, <1>5, <1>6, StateOf DEF One
  <1>8. owner \in [Coros -> Threads \cup {Nobody}]
    BY Zenon DEF CoroInv, CoroTypes
  <1>9. /\ owner' \in [Coros -> Threads \cup {Nobody}] /\ owner'[c] = w
        /\ \A d \in Coros \ {c} : owner'[d] = owner[d]
    BY <1>2, <1>8, Zenon
  <1>10. \A v \in Threads \ {w} : owner[c] = v => owner'[c] = v
    BY <1>2, CoroAssumption, Zenon
  <1>11. QED
    BY <1>1, <1>2, <1>5, <1>6, <1>7, <1>9, <1>10, Moved, Zenon

(* In state "asking" the first job acts, in state "answering" another.     *)
LEMMA WhoActs ==
    ASSUME QueueInv, CoroInv, NEW w \in Threads, NEW c \in Coros, NEW i \in JobsFor(c), Runs(w, i),
           step[w] \in Acting
    PROVE  /\ coro[c] = "asking" => i = First[c]
           /\ coro[c] = "answering" => i /= First[c]
  <1>1. /\ coro[c] \in CoroStates
        /\ Protocol(coro[c], Progress(First[c]), Progress(Path[c]), Progress(Again[c]))
        /\ i = First[c] => Progress(First[c]) = step[w]
        /\ i = Path[c] => Progress(Path[c]) = step[w]
        /\ i = Again[c] => Progress(Again[c]) = step[w]
    BY StateOf, Zenon
  <1>2. i = First[c] \/ i = Path[c] \/ i = Again[c]
    BY Zenon DEF JobsFor
  <1>3. /\ coro[c] = "asking" => Progress(Path[c]) \notin Acting /\ Progress(Again[c]) \notin Acting
        /\ coro[c] = "answering" => Progress(First[c]) \notin Acting
    BY <1>1, Actors, Zenon
  <1>4. QED
    BY <1>1, <1>2, <1>3, Zenon

LEMMA AskedInv ==
    ASSUME QueueInv, QueueInv', CoroInv, NEW w \in Threads, NEW c \in Coros, asked(w, c)
    PROVE  CoroInv'
  <1>1. PICK i \in JobsFor(c) : Runs(w, i)
    BY Zenon DEF asked, Resumes, JobsFor
  <1>2. /\ coro[c] = "asking" /\ step[w] = "asked" /\ nSuspend' = nSuspend
        /\ UNCHANGED <<fate, adding, at, job, owner>>
    BY Zenon DEF asked, Moves, jobQueueVars, counters, closing
  <1>3. i = First[c]
    BY <1>1, <1>2, WhoActs, Zenon DEF Acting
  <1>4. /\ Protocol("asking", "asked", Progress(Path[c]), Progress(Again[c]))
        /\ nSuspend \in Int
    BY <1>1, <1>2, <1>3, StateOf, Zenon
  <1>5. PICK k \in {"asking", "done"}, s \in {"arranged", "unlocking"} :
           /\ coro' = [coro EXCEPT ![c] = k] /\ step' = [step EXCEPT ![w] = s]
           /\ Protocol(k, s, Progress(Path[c]), Progress(Again[c]))
    <2>1. CASE fate[Path[c]] \notin {"new", "refused"} /\ ~appStopping
      <3>1. coro' = [coro EXCEPT ![c] = "asking"] /\ step' = [step EXCEPT ![w] = "arranged"]
        BY <1>2, <2>1 DEF asked, Moves
      <3>2. Progress(Path[c]) \notin {"unposted", "refused"}
        <4>1. Progress(Path[c]) \in {"unposted", "enter", "refused"}
          BY <1>4 DEF Protocol
        <4>2. Path[c] \in Jobs
          BY JobsOf, Zenon
        <4>3. fate[Path[c]] \in {"queued", "running", "done"}
          BY <2>1, <4>2 DEF QueueInv, QueueTypes, Fates
        <4>4. CASE fate[Path[c]] = "running"
          <5>1. PICK v \in Threads : Runs(v, Path[c])
            BY <4>2, <4>4, Zenon DEF QueueInv, Ownership, Runs
          <5>2. Progress(Path[c]) = step[v] /\ step[v] \in Steps
            BY <4>2, <5>1, ProgressRuns, Zenon DEF CoroInv, CoroTypes
          <5>3. QED
            BY <5>2 DEF Steps
        <4>5. CASE fate[Path[c]] /= "running"
          BY <4>3, <4>5 DEF Progress, Unposted
        <4>6. QED
          BY <4>4, <4>5, Zenon
      <3>3. Protocol("asking", "arranged", Progress(Path[c]), Progress(Again[c]))
        BY <1>4, <3>2 DEF Protocol
      <3>4. QED
        BY <3>1, <3>3, Zenon
    <2>2. CASE ~(fate[Path[c]] \notin {"new", "refused"} /\ ~appStopping)
      <3>1. coro' = [coro EXCEPT ![c] = "done"] /\ step' = [step EXCEPT ![w] = "unlocking"]
        BY <1>2, <2>2 DEF asked, Moves
      <3>2. Protocol("done", "unlocking", Progress(Path[c]), Progress(Again[c]))
        BY <1>4 DEF Protocol, Served
      <3>3. QED
        BY <3>1, <3>2, Zenon
    <2>3. QED
      BY <2>1, <2>2, Zenon
  <1>6. /\ k \in CoroStates /\ s \in Steps /\ step[w] \in Owning
        /\ k \notin Tallied /\ coro[c] \notin Tallied /\ s /= "locking" /\ step[w] /= "locking"
    BY <1>2 DEF CoroStates, Steps, Owning, Tallied
  <1>7. nSuspend' = nSuspend + One(k \in Tallied) - One(coro[c] \in Tallied)
                         - One(s = "locking") + One(step[w] = "locking")
    BY <1>2, <1>4, <1>6 DEF One
  <1>8. First[c] /= Path[c] /\ First[c] /= Again[c]
    BY JobsOf, Zenon
  <1>9. QED
    BY <1>1, <1>2, <1>3, <1>5, <1>6, <1>7, <1>8, MovedSameOwner, Zenon

LEMMA YieldInv ==
    ASSUME QueueInv, QueueInv', CoroInv, NEW w \in Threads, NEW c \in Coros, yield(w, c)
    PROVE  CoroInv'
  <1>1. PICK i \in JobsFor(c) : Runs(w, i)
    BY Zenon DEF yield, Resumes, JobsFor
  <1>2. /\ coro[c] = "asking" /\ step[w] = "arranged" /\ nSuspend' = nSuspend + 1
        /\ coro' = [coro EXCEPT ![c] = "suspended"] /\ step' = [step EXCEPT ![w] = "unlocking"]
        /\ UNCHANGED <<fate, adding, at, job, owner>>
    BY Zenon DEF yield, Moves, jobQueueVars, counters, closing
  <1>3. i = First[c]
    BY <1>1, <1>2, WhoActs, Zenon DEF Acting
  <1>4. /\ Protocol("asking", "arranged", Progress(Path[c]), Progress(Again[c]))
        /\ nSuspend \in Int
    BY <1>1, <1>2, <1>3, StateOf, Zenon
  <1>5. Protocol("suspended", "unlocking", Progress(Path[c]), Progress(Again[c]))
    BY <1>4 DEF Protocol, Served
  <1>6. /\ "suspended" \in CoroStates /\ "unlocking" \in Steps /\ step[w] \in Owning
        /\ "suspended" \in Tallied /\ coro[c] \notin Tallied
    BY <1>2 DEF CoroStates, Steps, Owning, Tallied
  <1>7. nSuspend' = nSuspend + One("suspended" \in Tallied) - One(coro[c] \in Tallied)
                         - One("unlocking" = "locking") + One(step[w] = "locking")
    BY <1>2, <1>4, <1>6 DEF One
  <1>8. First[c] /= Path[c] /\ First[c] /= Again[c]
    BY JobsOf, Zenon
  <1>9. QED
    BY <1>1, <1>2, <1>3, <1>5, <1>6, <1>7, <1>8, MovedSameOwner, Zenon

LEMMA AnswerInv ==
    ASSUME QueueInv, QueueInv', CoroInv, NEW w \in Threads, NEW c \in Coros, answer(w, c)
    PROVE  CoroInv'
  <1>1. PICK i \in JobsFor(c) : Runs(w, i)
    BY Zenon DEF answer, Resumes, JobsFor
  <1>2. /\ coro[c] = "answering" /\ step[w] = "inside" /\ nSuspend' = nSuspend
        /\ coro' = [coro EXCEPT ![c] = "done"] /\ step' = [step EXCEPT ![w] = "unlocking"]
        /\ UNCHANGED <<fate, adding, at, job, owner>>
    BY Zenon DEF answer, Moves, jobQueueVars, counters, closing
  <1>3. i /= First[c]
    BY <1>1, <1>2, WhoActs, Zenon DEF Acting
  <1>4. /\ Protocol("answering", Progress(First[c]), Progress(Path[c]), Progress(Again[c]))
        /\ i = Path[c] => Progress(Path[c]) = "inside"
        /\ i = Again[c] => Progress(Again[c]) = "inside"
        /\ nSuspend \in Int
    BY <1>1, <1>2, StateOf, Zenon
  <1>5. i = Path[c] => Protocol("done", Progress(First[c]), "unlocking", Progress(Again[c]))
    BY <1>4 DEF Protocol
  <1>6. i = Again[c] => Protocol("done", Progress(First[c]), Progress(Path[c]), "unlocking")
    BY <1>4 DEF Protocol
  <1>7. /\ "done" \in CoroStates /\ "unlocking" \in Steps /\ step[w] \in Owning
        /\ "done" \notin Tallied /\ coro[c] \notin Tallied
    BY <1>2 DEF CoroStates, Steps, Owning, Tallied
  <1>8. nSuspend' = nSuspend + One("done" \in Tallied) - One(coro[c] \in Tallied)
                         - One("unlocking" = "locking") + One(step[w] = "locking")
    BY <1>2, <1>4, <1>7 DEF One
  <1>9. QED
    BY <1>1, <1>2, <1>3, <1>5, <1>6, <1>7, <1>8, MovedSameOwner, Zenon

LEMMA UnlockInv ==
    ASSUME QueueInv, QueueInv', CoroInv, NEW w \in Threads, NEW c \in Coros, unlock(w, c)
    PROVE  CoroInv'
  <1>1. PICK i \in JobsFor(c) : Runs(w, i)
    BY Zenon DEF unlock, Resumes, JobsFor
  <1>2. /\ owner[c] = w /\ step[w] = "unlocking" /\ nSuspend' = nSuspend /\ coro' = coro
        /\ step' = [step EXCEPT ![w] = "leave"] /\ owner' = [owner EXCEPT ![c] = Nobody]
        /\ UNCHANGED <<fate, adding, at, job>>
    BY Zenon DEF unlock, Moves, jobQueueVars, counters, closing
  <1>3. /\ coro[c] \in CoroStates /\ nSuspend \in Int
        /\ Protocol(coro[c], Progress(First[c]), Progress(Path[c]), Progress(Again[c]))
        /\ i = First[c] => Progress(First[c]) = "unlocking"
        /\ i = Path[c] => Progress(Path[c]) = "unlocking"
        /\ i = Again[c] => Progress(Again[c]) = "unlocking"
    BY <1>1, <1>2, StateOf, Zenon
  <1>4. i = First[c] => Protocol(coro[c], "leave", Progress(Path[c]), Progress(Again[c]))
    BY <1>3 DEF Protocol, Served, CoroStates
  <1>5. i = Path[c] => Protocol(coro[c], Progress(First[c]), "leave", Progress(Again[c]))
    BY <1>3 DEF Protocol, Served, CoroStates
  <1>6. i = Again[c] => Protocol(coro[c], Progress(First[c]), Progress(Path[c]), "leave")
    BY <1>3 DEF Protocol, Served, CoroStates
  <1>7. "leave" \in Steps /\ "leave" \notin Owning
    BY DEF Steps, Owning
  <1>8. nSuspend' = nSuspend + One(coro[c] \in Tallied) - One(coro[c] \in Tallied)
                         - One("leave" = "locking") + One(step[w] = "locking")
    BY <1>2, <1>3 DEF One
  <1>9. owner \in [Coros -> Threads \cup {Nobody}]
    BY Zenon DEF CoroInv, CoroTypes
  <1>10. /\ owner' \in [Coros -> Threads \cup {Nobody}]
         /\ \A d \in Coros \ {c} : owner'[d] = owner[d]
    BY <1>2, <1>9, Zenon
  <1>11. \A v \in Threads \ {w} : owner[c] = v => owner'[c] = v
    BY <1>2, Zenon
  <1>12. coro' = [coro EXCEPT ![c] = coro[c]]
    BY <1>2, SameState, Zenon
  <1>13. QED
    BY <1>1, <1>2, <1>3, <1>4, <1>5, <1>6, <1>7, <1>8, <1>10, <1>11, <1>12, Moved, Zenon

LEMMA UpdateInv ==
    ASSUME QueueInv, QueueInv', CoroInv, NEW w \in Threads, NEW c \in Coros, updatePaths(w, c)
    PROVE  CoroInv'
  <1>1. PICK i \in JobsFor(c) : Runs(w, i) /\ i = Path[c]
    BY Zenon DEF updatePaths, JobsFor
  <1>2. step[w] = "enter" /\ UNCHANGED <<fate, adding, at, job, owner>>
    BY Zenon DEF updatePaths, Moves, jobQueueVars, counters, closing
  <1>3. nSuspend' = nSuspend /\ coro' = coro
    BY Zenon DEF updatePaths
  <1>4. /\ coro[c] \in CoroStates /\ nSuspend \in Int
        /\ Protocol(coro[c], Progress(First[c]), "enter", Progress(Again[c]))
    BY <1>1, <1>2, StateOf, Zenon
  <1>5. Progress(First[c]) /= "asked"
    <2>1. ASSUME Progress(First[c]) = "asked" PROVE FALSE
      <3>1. Progress(First[c]) \in Steps /\ Progress(First[c]) /= "enter"
        BY <2>1 DEF Steps
      <3>2. PICK v \in Threads : Runs(v, First[c]) /\ step[v] = Progress(First[c])
        BY <3>1, JobsOf, ProgressAt, Zenon
      <3>3. QED
        BY <2>1, <3>2, Zenon DEF updatePaths, Resumes
    <2>2. QED
      BY <2>1, Zenon
  <1>6. PICK s \in {"leave", "serve"} :
           /\ step' = [step EXCEPT ![w] = s]
           /\ Protocol(coro[c], Progress(First[c]), s, Progress(Again[c]))
    <2>1. CASE stopping \/ coro[c] = "done"
      <3>1. step' = [step EXCEPT ![w] = "leave"]
        BY <2>1 DEF updatePaths, Moves
      <3>2. Protocol(coro[c], Progress(First[c]), "leave", Progress(Again[c]))
        BY <1>4, <1>5 DEF Protocol, Served, CoroStates
      <3>3. QED
        BY <3>1, <3>2, Zenon
    <2>2. CASE ~(stopping \/ coro[c] = "done")
      <3>1. step' = [step EXCEPT ![w] = "serve"]
        BY <2>2 DEF updatePaths, Moves
      <3>2. Protocol(coro[c], Progress(First[c]), "serve", Progress(Again[c]))
        BY <1>4, <1>5, <2>2 DEF Protocol, Served, CoroStates
      <3>3. QED
        BY <3>1, <3>2, Zenon
    <2>3. QED
      BY <2>1, <2>2, Zenon
  <1>7. s \in Steps /\ s \notin Owning /\ s /= "locking"
    BY DEF Steps, Owning
  <1>8. nSuspend' = nSuspend + One(coro[c] \in Tallied) - One(coro[c] \in Tallied)
                         - One(s = "locking") + One(step[w] = "locking")
    BY <1>2, <1>3, <1>4, <1>7 DEF One
  <1>9. First[c] /= Path[c] /\ Path[c] /= Again[c]
    BY JobsOf, Zenon
  <1>10. coro' = [coro EXCEPT ![c] = coro[c]]
    BY <1>3, SameState, Zenon
  <1>11. QED
    BY <1>1, <1>2, <1>4, <1>6, <1>7, <1>8, <1>9, <1>10, MovedSameOwner, Zenon

LEMMA PostedInv ==
    ASSUME QueueInv, QueueInv', CoroInv, NEW w \in Threads, NEW c \in Coros, posted(w, c)
    PROVE  CoroInv'
  <1>1. PICK i \in JobsFor(c) : Runs(w, i) /\ i = Path[c]
    BY Zenon DEF posted, JobsFor
  <1>2. nSuspend' = nSuspend /\ coro' = coro
    BY Zenon DEF posted
  <1>3. /\ step[w] = "posting"
        /\ step' = [step EXCEPT ![w] = "leave"] /\ fate[Again[c]] \notin {"new", "refused"}
        /\ UNCHANGED <<fate, adding, at, job, owner>>
    BY Zenon DEF posted, Moves, jobQueueVars, counters, closing
  <1>4. /\ coro[c] \in CoroStates /\ nSuspend \in Int
        /\ Protocol(coro[c], Progress(First[c]), "posting", Progress(Again[c]))
    BY <1>1, <1>3, StateOf, Zenon
  <1>5. Progress(Again[c]) /= "refused"
    <2>1. Again[c] \in Jobs
      BY JobsOf, Zenon
    <2>2. CASE fate[Again[c]] = "running"
      <3>1. PICK v \in Threads : Runs(v, Again[c])
        BY <2>1, <2>2, Zenon DEF QueueInv, Ownership, Runs
      <3>2. Progress(Again[c]) = step[v] /\ step[v] \in Steps
        BY <2>1, <3>1, ProgressRuns, Zenon DEF CoroInv, CoroTypes
      <3>3. QED
        BY <3>2 DEF Steps
    <2>3. CASE fate[Again[c]] /= "running"
      BY <1>3, <2>3 DEF Progress, Unposted
    <2>4. QED
      BY <2>2, <2>3, Zenon
  <1>6. Protocol(coro[c], Progress(First[c]), "leave", Progress(Again[c]))
    BY <1>4, <1>5 DEF Protocol, Served, CoroStates
  <1>7. "leave" \in Steps /\ "leave" \notin Owning
    BY DEF Steps, Owning
  <1>8. nSuspend' = nSuspend + One(coro[c] \in Tallied) - One(coro[c] \in Tallied)
                         - One("leave" = "locking") + One(step[w] = "locking")
    BY <1>2, <1>3, <1>4 DEF One
  <1>9. First[c] /= Path[c] /\ Path[c] /= Again[c]
    BY JobsOf, Zenon
  <1>10. coro' = [coro EXCEPT ![c] = coro[c]]
    BY <1>2, SameState, Zenon
  <1>11. QED
    BY <1>1, <1>3, <1>4, <1>6, <1>7, <1>8, <1>9, <1>10, MovedSameOwner, Zenon

LEMMA AskInv ==
    ASSUME QueueInv, QueueInv', CoroInv, NEW w \in Threads, NEW c \in Coros, ask(w, c)
    PROVE  CoroInv'
  <1>1. PICK i \in JobsFor(c) : Runs(w, i)
    BY Zenon DEF ask, Resumes, JobsFor
  <1>2. /\ coro[c] = "asking" /\ step[w] = "inside" /\ nSuspend' = nSuspend /\ coro' = coro
        /\ step' = [step EXCEPT ![w] = "asked"] /\ owner' = owner
    BY Zenon DEF ask, Moves
  <1>3. i = First[c] /\ Runs(w, First[c])
    BY <1>1, <1>2, WhoActs, Zenon DEF Acting
  <1>4. /\ Protocol("asking", "inside", Progress(Path[c]), Progress(Again[c]))
        /\ nSuspend \in Int
    BY <1>1, <1>2, <1>3, StateOf, Zenon
  <1>5. /\ First[c] \in Jobs /\ Path[c] \in Jobs /\ Again[c] \in Jobs
        /\ First[c] /= Path[c] /\ First[c] /= Again[c] /\ Path[c] /= Again[c]
    BY JobsOf, Zenon
  <1>6. /\ UNCHANGED <<at, job>> /\ \A j \in Jobs \ {Path[c]} : SamePosting(j)
        /\ SamePosting(Path[c]) \/ Progress(Path[c])' \in {"enter", "refused"}
    <2>1. CASE appStopping
      <3>1. UNCHANGED <<fate, adding, at, job>>
        BY <2>1, Zenon DEF ask, jobQueueVars, counters, closing
      <3>2. QED
        BY <3>1, Zenon DEF SamePosting
    <2>2. CASE ~appStopping
      <3>1. wrap(Path[c])
        BY <2>2, Zenon DEF ask
      <3>2. QED
        BY <1>5, <3>1, WrapProgress, Zenon
    <2>3. QED
      BY <2>1, <2>2, Zenon
  <1>7. /\ Progress(First[c])' = "asked"
        /\ \A j \in Jobs \ {First[c]} : SamePosting(j) => Progress(j)' = Progress(j)
    <2>1. CoroTypes
      BY Zenon DEF CoroInv
    <2>2. QED
      BY <1>2, <1>3, <1>5, <1>6, <2>1, StepProgress, Zenon
  <1>8. Follows(c)'
    <2>1. Progress(Again[c])' = Progress(Again[c])
      BY <1>5, <1>6, <1>7, Zenon
    <2>2. Progress(Path[c])' = Progress(Path[c]) \/ Progress(Path[c])' \in {"enter", "refused"}
      BY <1>5, <1>6, <1>7, Zenon
    <2>3. PICK p : p = Progress(Path[c])'
      OBVIOUS
    <2>4. Protocol("asking", "asked", p, Progress(Again[c]))
      BY <1>4, <2>2, <2>3 DEF Protocol, Served
    <2>5. coro'[c] = "asking"
      BY <1>2, Zenon
    <2>6. QED
      BY <1>7, <2>1, <2>3, <2>4, <2>5, Zenon DEF Follows
  <1>9. \A d \in Coros \ {c} : \A j \in JobsFor(d) : SamePosting(j)
    <2>1. \A d \in Coros \ {c} : \A j \in JobsFor(d) : j \in Jobs \ {Path[c]}
      BY JobsOf, Zenon DEF JobsFor
    <2>2. QED
      BY <1>6, <2>1, Zenon
  <1>10. coro' = [coro EXCEPT ![c] = "asking"]
    BY <1>2, SameState, Zenon
  <1>11. nSuspend' = Cardinality(Yielded') - Cardinality(Locking')
    <2>1. "asking" \notin Tallied /\ coro[c] \notin Tallied
      BY <1>2 DEF Tallied
    <2>2. nSuspend' = nSuspend + One("asking" \in Tallied) - One(coro[c] \in Tallied)
                         - One("asked" = "locking") + One(step[w] = "locking")
      BY <1>2, <1>4, <2>1 DEF One
    <2>3. step' = [step EXCEPT ![w] = "asked"]
      BY <1>2, Zenon
    <2>4. QED
      BY <1>10, <2>2, <2>3, CountMoves, Zenon
  <1>12. "asked" \in Steps /\ "asking" \in CoroStates /\ step[w] \in Owning
    BY <1>2 DEF Steps, CoroStates, Owning
  <1>13. owner' \in [Coros -> Threads \cup {Nobody}] /\ owner'[c] = w
    BY <1>2, <1>3, <1>12, Zenon DEF CoroInv, CoroTypes, Locked, Resumes
  <1>14. QED
    BY <1>1, <1>2, <1>6, <1>8, <1>9, <1>10, <1>11, <1>12, <1>13, StepKeeps, Zenon

LEMMA PostInv ==
    ASSUME QueueInv, QueueInv', CoroInv, NEW w \in Threads, NEW c \in Coros, post(w, c)
    PROVE  CoroInv'
  <1>1. PICK i \in JobsFor(c) : Runs(w, i) /\ i = Path[c]
    BY Zenon DEF post, JobsFor
  <1>2. /\ step[w] = "serve" /\ nSuspend' = nSuspend /\ coro' = coro
        /\ step' = [step EXCEPT ![w] = "posting"] /\ owner' = owner /\ wrap(Again[c])
    BY Zenon DEF post, Moves
  <1>3. /\ coro[c] \in CoroStates /\ nSuspend \in Int
        /\ Protocol(coro[c], Progress(First[c]), "serve", Progress(Again[c]))
    BY <1>1, <1>2, StateOf, Zenon
  <1>4. /\ First[c] \in Jobs /\ Path[c] \in Jobs /\ Again[c] \in Jobs
        /\ First[c] /= Path[c] /\ First[c] /= Again[c] /\ Path[c] /= Again[c]
    BY JobsOf, Zenon
  <1>5. /\ UNCHANGED <<at, job>> /\ \A j \in Jobs \ {Again[c]} : SamePosting(j)
        /\ Progress(Again[c])' \in {"enter", "refused"}
    BY <1>2, <1>4, WrapProgress, Zenon
  <1>6. /\ Progress(Path[c])' = "posting"
        /\ \A j \in Jobs \ {Path[c]} : SamePosting(j) => Progress(j)' = Progress(j)
    <2>1. CoroTypes /\ Runs(w, Path[c])
      BY <1>1, Zenon DEF CoroInv
    <2>2. QED
      BY <1>2, <1>4, <1>5, <2>1, StepProgress, Zenon
  <1>7. Follows(c)'
    <2>1. Progress(First[c])' = Progress(First[c])
      BY <1>4, <1>5, <1>6, Zenon
    <2>2. PICK a : a = Progress(Again[c])'
      OBVIOUS
    <2>3. Protocol(coro[c], Progress(First[c]), "posting", a)
      BY <1>3, <1>5, <2>2 DEF Protocol, Served, CoroStates
    <2>4. QED
      BY <1>2, <1>6, <2>1, <2>2, <2>3, Zenon DEF Follows
  <1>8. \A d \in Coros \ {c} : \A j \in JobsFor(d) : SamePosting(j)
    <2>1. \A d \in Coros \ {c} : \A j \in JobsFor(d) : j \in Jobs \ {Again[c]}
      BY JobsOf, Zenon DEF JobsFor
    <2>2. QED
      BY <1>5, <2>1, Zenon
  <1>9. coro' = [coro EXCEPT ![c] = coro[c]]
    BY <1>2, SameState, Zenon
  <1>10. nSuspend' = Cardinality(Yielded') - Cardinality(Locking')
    <2>1. nSuspend' = nSuspend + One(coro[c] \in Tallied) - One(coro[c] \in Tallied)
                         - One("posting" = "locking") + One(step[w] = "locking")
      BY <1>2, <1>3 DEF One
    <2>2. step' = [step EXCEPT ![w] = "posting"]
      BY <1>2, Zenon
    <2>3. QED
      BY <1>9, <2>1, <2>2, CountMoves, Zenon
  <1>11. "posting" \in Steps /\ "posting" \notin Owning
    BY DEF Steps, Owning
  <1>12. owner' \in [Coros -> Threads \cup {Nobody}]
    BY <1>2, Zenon DEF CoroInv, CoroTypes
  <1>13. QED
    BY <1>1, <1>2, <1>3, <1>5, <1>7, <1>8, <1>9, <1>10, <1>11, <1>12, StepKeeps, Zenon

(* The three steps of the thread that starts a coroutine.                  *)
LEMMA StartInv ==
    ASSUME QueueInv, QueueInv', CoroInv, NEW c \in Coros,
           postCoro(c) \/ postFirst(c) \/ expectEarlyExit(c)
    PROVE  CoroInv'
  <1>1. /\ CoroTypes /\ Busy /\ Locked /\ (\A d \in Coros : Follows(d))
        /\ nSuspend = Cardinality(Yielded) - Cardinality(Locking)
    BY Zenon DEF CoroInv
  <1>2. /\ First[c] \in Jobs /\ Path[c] \in Jobs /\ Again[c] \in Jobs
        /\ First[c] /= Path[c] /\ First[c] /= Again[c]
    BY JobsOf, Zenon
  <1>3. UNCHANGED <<at, job, owner, step>>
    <2>1. CASE postCoro(c)
      BY <2>1, Zenon DEF postCoro, jobQueueVars
    <2>2. CASE postFirst(c)
      BY <2>2, Zenon DEF postFirst, wrap, coroVars
    <2>3. CASE expectEarlyExit(c)
      BY <2>3, Zenon DEF expectEarlyExit, jobQueueVars
    <2>4. QED
      BY <2>1, <2>2, <2>3, Zenon
  <1>4. Busy' /\ Locked' /\ Locking' = Locking
    BY <1>1, <1>3, Zenon DEF Busy, Locked, Resumes, Runs, Locking
  <1>5. ASSUME NEW j \in Jobs, SamePosting(j) PROVE Progress(j)' = Progress(j)
    <2>1. \A v \in Threads : Runs(v, j) <=> Runs(v, j)'
      BY <1>3, Zenon DEF Runs
    <2>2. fate'[j] = fate[j] /\ (Unposted(j)' <=> Unposted(j))
      BY <1>5, Zenon DEF SamePosting, Unposted
    <2>3. QED
      BY <1>3, <2>1, <2>2, ProgressStays, Zenon
  <1>6. PICK y, l \in Nat : y = Cardinality(Yielded) /\ l = Cardinality(Locking)
    BY <1>1, YieldedCount, LockingCount, Zenon
  <1>7. Protocol(coro[c], Progress(First[c]), Progress(Path[c]), Progress(Again[c]))
    BY <1>1, Zenon DEF Follows
  <1>8. CASE postFirst(c)
    <2>1. /\ wrap(First[c]) /\ coro[c] = "created" /\ UNCHANGED <<coro, nSuspend>>
      BY <1>8, Zenon DEF postFirst, coroVars
    <2>2. /\ Progress(First[c]) = "unposted" /\ Progress(First[c])' \in {"enter", "refused"}
          /\ \A j \in Jobs \ {First[c]} : SamePosting(j)
      BY <1>2, <2>1, WrapProgress, Zenon
    <2>3. Progress(Path[c])' = Progress(Path[c]) /\ Progress(Again[c])' = Progress(Again[c])
      BY <1>2, <1>5, <2>2, Zenon
    <2>4. PICK f : f = Progress(First[c])'
      OBVIOUS
    <2>5. Protocol("created", f, Progress(Path[c]), Progress(Again[c]))
      BY <1>7, <2>1, <2>2, <2>4 DEF Protocol
    <2>6. Follows(c)'
      BY <2>1, <2>3, <2>4, <2>5, Zenon DEF Follows
    <2>7. ASSUME NEW d \in Coros \ {c} PROVE Follows(d)'
      <3>1. \A j \in JobsFor(d) : j \in Jobs \ {First[c]}
        BY JobsOf, Zenon DEF JobsFor
      <3>2. \A j \in JobsFor(d) : Progress(j)' = Progress(j)
        BY <1>5, <2>2, <3>1, Zenon
      <3>3. QED
        BY <1>1, <2>1, <3>2, Zenon DEF Follows, JobsFor
    <2>8. CoroTypes' /\ Yielded' = Yielded
      BY <1>1, <1>3, <2>1, Zenon DEF CoroTypes, Yielded
    <2>9. QED
      BY <1>1, <1>4, <2>1, <2>6, <2>7, <2>8, Zenon DEF CoroInv
  <1>9. CASE postCoro(c) \/ expectEarlyExit(c)
    <2>1. UNCHANGED <<fate, adding>>
      BY <1>9, Zenon DEF postCoro, expectEarlyExit, jobQueueVars, counters, closing
    <2>2. \A j \in Jobs : Progress(j)' = Progress(j)
      BY <1>5, <2>1, Zenon DEF SamePosting
    <2>3. PICK k \in {"created", "dropped"} :
             /\ coro' = [coro EXCEPT ![c] = k]
             /\ Protocol(k, Progress(First[c]), Progress(Path[c]), Progress(Again[c]))
             /\ nSuspend' = Cardinality(Yielded') - l
      <3>1. CASE postCoro(c)
        <4>1. /\ coro[c] = "none" /\ coro' = [coro EXCEPT ![c] = "created"]
              /\ nSuspend' = nSuspend + 1
          BY <3>1, Zenon DEF postCoro
        <4>2. Protocol("created", Progress(First[c]), Progress(Path[c]), Progress(Again[c]))
          BY <1>7, <4>1 DEF Protocol
        <4>3. "created" \in Tallied /\ coro[c] \notin Tallied
          BY <4>1 DEF Tallied
        <4>4. Cardinality(Yielded') = y + 1
          BY <1>1, <1>6, <4>1, <4>3, YieldedChange, Zenon
        <4>5. nSuspend' = Cardinality(Yielded') - l
          BY <1>1, <1>6, <4>1, <4>4
        <4>6. QED
          BY <4>1, <4>2, <4>5, Zenon
      <3>2. CASE expectEarlyExit(c)
        <4>1. /\ coro[c] = "created" /\ coro' = [coro EXCEPT ![c] = "dropped"]
              /\ nSuspend' = nSuspend - 1 /\ fate[First[c]] = "refused"
          BY <3>2, Zenon DEF expectEarlyExit
        <4>2. Progress(First[c]) = "refused"
          BY <4>1 DEF Progress, Unposted
        <4>3. Protocol("dropped", Progress(First[c]), Progress(Path[c]), Progress(Again[c]))
          BY <1>7, <4>1, <4>2 DEF Protocol
        <4>4. "dropped" \notin Tallied /\ coro[c] \in Tallied
          BY <4>1 DEF Tallied
        <4>5. Cardinality(Yielded') = y - 1
          BY <1>1, <1>6, <4>1, <4>4, YieldedChange, Zenon
        <4>6. nSuspend' = Cardinality(Yielded') - l
          BY <1>1, <1>6, <4>1, <4>5
        <4>7. QED
          BY <4>1, <4>3, <4>6, Zenon
      <3>3. QED
        BY <1>9, <3>1, <3>2, Zenon
    <2>4. k \in CoroStates
      BY DEF CoroStates
    <2>5. CoroTypes' /\ coro'[c] = k /\ \A d \in Coros \ {c} : coro'[d] = coro[d]
      BY <1>1, <1>3, <2>3, <2>4, Zenon DEF CoroTypes
    <2>6. \A d \in Coros : Follows(d)'
      <3>1. Follows(c)'
        BY <1>2, <2>2, <2>3, <2>5, Zenon DEF Follows
      <3>2. ASSUME NEW d \in Coros \ {c} PROVE Follows(d)'
        <4>1. Follows(d) /\ coro'[d] = coro[d]
          BY <1>1, <2>5, Zenon
        <4>2. First[d] \in Jobs /\ Path[d] \in Jobs /\ Again[d] \in Jobs
          BY JobsOf, Zenon
        <4>3. QED
          BY <2>2, <4>1, <4>2, Zenon DEF Follows
      <3>3. QED
        BY <3>1, <3>2, Zenon
    <2>7. QED
      BY <1>4, <1>6, <2>3, <2>5, <2>6, Zenon DEF CoroInv
  <1>10. QED
    BY <1>8, <1>9, Zenon

(* The end of a job, whether it is one of a coroutine or not.              *)
LEMMA EndInv ==
    ASSUME QueueInv, QueueInv', CoroInv, NEW w \in Threads, jobEnds(w)
    PROVE  CoroInv'
  <1>1. /\ CoroTypes /\ Busy /\ Locked /\ (\A d \in Coros : Follows(d))
        /\ nSuspend = Cardinality(Yielded) - Cardinality(Locking)
    BY Zenon DEF CoroInv
  <1>2. /\ at[w] = "body" /\ at' = [at EXCEPT ![w] = "finish"] /\ job' = job /\ adding' = adding
        /\ fate' = [fate EXCEPT ![job[w]] = "done"]
        /\ job[w] \in CoroJobs => step[w] = "leave"
        /\ step' = [step EXCEPT ![w] = "enter"]
        /\ UNCHANGED <<coro, owner, nSuspend>>
    BY Zenon DEF jobEnds, doJob, Goes
  <1>3. PICK i \in Jobs : i = job[w] /\ Runs(w, i)
    <2>1. at[w] = "body" => job[w] \in Jobs
      BY Zenon DEF QueueInv, Ownership
    <2>2. QED
      BY <1>2, <2>1, Zenon DEF Runs
  <1>4. /\ fate \in [Jobs -> Fates] /\ at \in [Threads -> Places] /\ step \in [Threads -> Steps]
    BY <1>1, Zenon DEF QueueInv, QueueTypes, CoroTypes
  <1>5. /\ step'[w] = "enter" /\ (\A v \in Threads \ {w} : step'[v] = step[v] /\ at'[v] = at[v])
        /\ at'[w] = "finish" /\ fate'[i] = "done" /\ (\A j \in Jobs \ {i} : fate'[j] = fate[j])
    BY <1>2, <1>3, <1>4, Zenon
  <1>6. \A v \in Threads, j \in Jobs : Runs(v, j)' <=> Runs(v, j) /\ v /= w
    BY <1>2, <1>5, Zenon DEF Runs
  <1>7. ASSUME NEW j \in Jobs \ {i} PROVE Progress(j)' = Progress(j)
    <2>1. \A v \in Threads : Runs(v, j) => v /= w
      BY <1>3, Zenon DEF Runs
    <2>2. \A v \in Threads : Runs(v, j) => Runs(v, j)' /\ step'[v] = step[v]
      BY <1>5, <1>6, <2>1, Zenon
    <2>3. \A v \in Threads : Runs(v, j)' => Runs(v, j)
      BY <1>6, Zenon
    <2>4. fate'[j] = fate[j] /\ (Unposted(j)' <=> Unposted(j))
      BY <1>2, <1>5, Zenon DEF Unposted
    <2>5. QED
      BY <2>2, <2>3, <2>4, ProgressStays, Zenon
  <1>8. Progress(i)' = "done" /\ Progress(i) = step[w]
    <2>1. Progress(i)' = "done"
      BY <1>5 DEF Progress, Unposted
    <2>2. QED
      BY <1>3, <2>1, ProgressRuns, Zenon
  <1>9. ASSUME NEW c \in Coros PROVE Follows(c)'
    <2>1. /\ coro[c] \in CoroStates /\ coro'[c] = coro[c]
          /\ Protocol(coro[c], Progress(First[c]), Progress(Path[c]), Progress(Again[c]))
      BY <1>1, <1>2, Zenon DEF CoroTypes, Follows
    <2>2. /\ First[c] \in Jobs /\ Path[c] \in Jobs /\ Again[c] \in Jobs
          /\ First[c] \in CoroJobs /\ Path[c] \in CoroJobs /\ Again[c] \in CoroJobs
          /\ First[c] /= Path[c] /\ First[c] /= Again[c] /\ Path[c] /= Again[c]
      BY JobsOf, Zenon
    <2>3. ASSUME NEW j \in JobsFor(c)
          PROVE  \/ Progress(j)' = Progress(j)
                 \/ Progress(j) = "leave" /\ Progress(j)' = "done"
      <3>1. j \in Jobs /\ j \in CoroJobs
        BY <2>2, Zenon DEF JobsFor
      <3>2. j = i => step[w] = "leave"
        BY <1>2, <1>3, <3>1, Zenon
      <3>3. QED
        BY <1>7, <1>8, <3>1, <3>2, Zenon
    <2>4. PICK f, p, a : f = Progress(First[c])' /\ p = Progress(Path[c])' /\ a = Progress(Again[c])'
      OBVIOUS
    <2>5. /\ f = Progress(First[c]) \/ (Progress(First[c]) = "leave" /\ f = "done")
          /\ p = Progress(Path[c]) \/ (Progress(Path[c]) = "leave" /\ p = "done")
          /\ a = Progress(Again[c]) \/ (Progress(Again[c]) = "leave" /\ a = "done")
      BY <2>3, <2>4, Zenon DEF JobsFor
    <2>6. Protocol(coro[c], f, Progress(Path[c]), Progress(Again[c]))
      BY <2>1, <2>5 DEF Protocol, Served, CoroStates
    <2>7. Protocol(coro[c], f, p, Progress(Again[c]))
      BY <2>1, <2>5, <2>6 DEF Protocol, Served, CoroStates
    <2>8. Protocol(coro[c], f, p, a)
      BY <2>1, <2>5, <2>7 DEF Protocol, Served, CoroStates
    <2>9. QED
      BY <2>1, <2>4, <2>8, Zenon DEF Follows
  <1>10. Busy'
    BY <1>1, <1>2, <1>5, Zenon DEF Busy
  <1>11. Locked'
    <2>1. SUFFICES ASSUME NEW c \in Coros, NEW v \in Threads, Resumes(v, c)', step'[v] \in Owning
                   PROVE  owner[c] = v
      BY <1>2, Zenon DEF Locked
    <2>2. Resumes(v, c) /\ v /= w
      BY <1>6, <2>1, JobsOf, Zenon DEF Resumes
    <2>3. QED
      BY <1>1, <1>5, <2>1, <2>2, Zenon DEF Locked
  <1>12. CoroTypes' /\ Yielded' = Yielded
    <2>1. "enter" \in Steps
      BY DEF Steps
    <2>2. QED
      BY <1>1, <1>2, <2>1, Zenon DEF CoroTypes, Yielded
  <1>13. Locking' = Locking
    <2>1. step[w] \in {"leave", "enter"}
      BY <1>1, <1>2, Zenon DEF Busy
    <2>2. step[w] /= "locking" /\ "enter" /= "locking"
      BY <2>1
    <2>3. QED
      BY <1>5, <2>2, Zenon DEF Locking
  <1>14. QED
    BY <1>1, <1>2, <1>9, <1>10, <1>11, <1>12, <1>13, Zenon DEF CoroInv
-----------------------------------------------------------------------------
LEMMA InitCoro == ASSUME Init PROVE CoroInv
  <1>1. /\ coro = [c \in Coros |-> "none"] /\ owner = [c \in Coros |-> Nobody] /\ nSuspend = 0
        /\ step = [w \in Threads |-> "enter"]
        /\ fate = [j \in Jobs |-> "new"] /\ adding = {}
    BY Zenon DEF Init, JobQueueInit
  <1>2. CoroTypes
    <2>1. "none" \in CoroStates /\ "enter" \in Steps
      BY DEF CoroStates, Steps
    <2>2. QED
      BY <1>1, <2>1, Zenon DEF CoroTypes
  <1>3. \A w \in Threads : step[w] = "enter"
    BY <1>1, Zenon
  <1>4. Busy
    BY <1>3, Zenon DEF Busy
  <1>5. Locked
    <2>1. "enter" \notin Owning
      BY DEF Owning
    <2>2. QED
      BY <1>3, <2>1, Zenon DEF Locked
  <1>6. ASSUME NEW c \in Coros PROVE Follows(c)
    <2>1. \A j \in Jobs : Progress(j) = "unposted"
      BY <1>1, Zenon DEF Progress, Unposted
    <2>2. /\ Progress(First[c]) = "unposted" /\ Progress(Path[c]) = "unposted"
          /\ Progress(Again[c]) = "unposted" /\ coro[c] = "none"
      BY <1>1, <2>1, JobsOf, Zenon
    <2>3. QED
      BY <2>2 DEF Follows, Protocol
  <1>7. Yielded = {} /\ Locking = {}
    <2>1. \A c \in Coros : coro[c] \notin Tallied
      BY <1>1 DEF Tallied
    <2>2. \A w \in Threads : step[w] /= "locking"
      BY <1>3
    <2>3. QED
      BY <2>1, <2>2, Zenon DEF Yielded, Locking
  <1>8. nSuspend = Cardinality(Yielded) - Cardinality(Locking)
    BY <1>1, <1>7, FS_EmptySet
  <1>9. QED
    BY <1>2, <1>4, <1>5, <1>6, <1>8, Zenon DEF CoroInv

LEMMA CoroNext == ASSUME QueueInv, QueueInv', CoroInv, [Next]_vars PROVE CoroInv'
  <1>1. CASE \E j \in Jobs \ CoroJobs : wrap(j) /\ UNCHANGED coroVars
    BY <1>1, WrapOther, QueueOnly, Zenon DEF coroVars
  <1>2. CASE \E c \in Coros : postCoro(c) \/ postFirst(c) \/ expectEarlyExit(c)
    BY <1>2, StartInv, Zenon
  <1>3. CASE signalStop
    <2>1. UNCHANGED <<fate, adding, at, job>> /\ UNCHANGED <<coro, owner, nSuspend, step>>
      BY <1>3, Zenon DEF signalStop, jobQueueVars, counters, closing
    <2>2. QED
      BY <2>1, SameQueue, QueueOnly, Zenon
  <1>4. CASE appStopping /\ stop /\ UNCHANGED coroVars
    BY <1>4, StopOnly, QueueOnly, Zenon DEF coroVars
  <1>5. CASE runStep
    <2>1. CASE \E j \in Jobs : addStep(j)
      BY <2>1, AddOnly, QueueOnly, Zenon DEF addStep, coroVars
    <2>2. ASSUME NEW w \in Threads, threadStep(w) PROVE CoroInv'
      <3>1. CASE workerStep(w) /\ UNCHANGED coroVars
        BY <3>1, WorkerOnly, QueueOnly, Zenon DEF coroVars
      <3>2. ASSUME NEW c \in Coros, coroStep(w, c) PROVE CoroInv'
        BY <3>2, ResumeInv, LockInv, AskInv, AskedInv, YieldInv, AnswerInv, UnlockInv, UpdateInv,
           PostInv, PostedInv, Zenon DEF coroStep
      <3>3. CASE jobEnds(w)
        BY <3>3, EndInv, Zenon
      <3>4. QED
        BY <2>2, <3>1, <3>2, <3>3, Zenon DEF threadStep
    <2>3. CASE stopStep /\ UNCHANGED coroVars
      BY <2>3, StopOnly, QueueOnly, Zenon DEF coroVars
    <2>4. QED
      BY <1>5, <2>1, <2>2, <2>3, Zenon DEF runStep
  <1>6. CASE UNCHANGED vars
    <2>1. UNCHANGED <<fate, adding, at, job>> /\ UNCHANGED <<coro, owner, nSuspend, step>>
      BY <1>6, Zenon DEF vars, coroVars, jobQueueVars, counters, closing
    <2>2. QED
      BY <2>1, SameQueue, QueueOnly, Zenon
  <1>7. QED
    BY <1>1, <1>2, <1>3, <1>4, <1>5, <1>6, Zenon DEF Next

(* Whoever acts for a coroutine is the one worker that runs its acting job.*)
LEMMA OneActor ==
    ASSUME QueueInv, CoroInv, NEW c \in Coros
    PROVE  Cardinality({w \in Threads : Resumes(w, c) /\ step[w] \in {"inside", "asked", "arranged"}})
               = (IF coro[c] \in {"asking", "answering"} THEN 1 ELSE 0)
  <1> DEFINE A == {w \in Threads : Resumes(w, c) /\ step[w] \in {"inside", "asked", "arranged"}}
  <1>1. /\ coro[c] \in CoroStates
        /\ Protocol(coro[c], Progress(First[c]), Progress(Path[c]), Progress(Again[c]))
    BY Zenon DEF CoroInv, CoroTypes, Follows
  <1>2. /\ First[c] \in Jobs /\ Path[c] \in Jobs /\ Again[c] \in Jobs
    BY JobsOf, Zenon
  <1>3. A = {w \in Threads : \E j \in JobsFor(c) : Runs(w, j) /\ Progress(j) \in Acting}
    <2>1. \A w \in Threads, j \in JobsFor(c) : Runs(w, j) => Progress(j) = step[w]
      BY <1>2, ProgressRuns, Zenon DEF JobsFor
    <2>2. \A w \in Threads : Resumes(w, c) <=> \E j \in JobsFor(c) : Runs(w, j)
      BY Zenon DEF Resumes, JobsFor
    <2>3. QED
      BY <2>1, <2>2, Zenon DEF Acting
  <1>4. CASE coro[c] \in {"asking", "answering"}
    <2>1. PICK j \in JobsFor(c) :
             Progress(j) \in Acting /\ \A i \in JobsFor(c) \ {j} : Progress(i) \notin Acting
      <3>1. \/ /\ Progress(First[c]) \in Acting /\ Progress(Path[c]) \notin Acting
               /\ Progress(Again[c]) \notin Acting
            \/ /\ Progress(First[c]) \notin Acting /\ Progress(Path[c]) \in Acting
               /\ Progress(Again[c]) \notin Acting
            \/ /\ Progress(First[c]) \notin Acting /\ Progress(Path[c]) \notin Acting
               /\ Progress(Again[c]) \in Acting
        BY <1>1, <1>4, Actors, Zenon
      <3>2. QED
        BY <3>1, Zenon DEF JobsFor
    <2>2. j \in Jobs
      BY <1>2, Zenon DEF JobsFor
    <2>3. PICK w \in Threads : Runs(w, j)
      <3>1. Progress(j) \in Steps /\ Progress(j) /= "enter"
        BY <2>1 DEF Acting, Steps
      <3>2. QED
        BY <2>2, <3>1, ProgressAt, Zenon
    <2>4. \A v \in Threads : Runs(v, j) => v = w
      BY <2>2, <2>3, ProgressRuns, Zenon
    <2>5. A = {w}
      BY <1>3, <2>1, <2>3, <2>4, Zenon
    <2>6. QED
      BY <1>4, <2>5, FS_Singleton, Zenon
  <1>5. CASE coro[c] \notin {"asking", "answering"}
    <2>1. \A j \in JobsFor(c) : Progress(j) \notin Acting
      BY <1>1, <1>5, Actors, Zenon DEF JobsFor
    <2>2. A = {}
      BY <1>3, <2>1, Zenon
    <2>3. QED
      BY <1>5, <2>2, FS_EmptySet, Zenon
  <1>6. QED
    BY <1>4, <1>5, Zenon

LEMMA CoroInvariance == Spec => [](QueueInv /\ CoroInv)
  <1>1. Init => CoroInv
    BY InitCoro, Zenon
  <1>2. QueueInv /\ QueueInv' /\ CoroInv /\ [Next]_vars => CoroInv'
    BY CoroNext, Zenon
  <1>3. QED
    BY <1>1, <1>2, Invariance, PTL DEF Spec

(* A coroutine never runs in two threads, however its yield and the resume *)
(* posted for it interleave, and nSuspend_ is always the number of         *)
(* suspended coroutines less the resumes under way: early exits and posts  *)
(* the queue refuses leak no count.  For any number of coroutines, workers *)
(* and jobs.                                                               *)
THEOREM CoroutinesAlwaysAccounted == Spec => []CoroutinesAccounted
  <1>1. QueueInv /\ CoroInv => CoroutinesAccounted
    <2>1. SUFFICES ASSUME QueueInv, CoroInv PROVE CoroutinesAccounted
      OBVIOUS
    <2>2. nSuspend = Cardinality({c \in Coros : coro[c] \in {"created", "suspended"}})
                       - Cardinality({w \in Threads : step[w] = "locking"})
      BY <2>1, Zenon DEF CoroInv, Yielded, Locking, Tallied
    <2>3. QED
      BY <2>1, <2>2, OneActor, Zenon DEF CoroutinesAccounted
  <1>2. QED
    BY <1>1, CoroInvariance, PTL
=============================================================================
