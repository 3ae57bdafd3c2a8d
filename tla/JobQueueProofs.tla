--------------------------- MODULE JobQueueProofs ---------------------------
(***************************************************************************)
(* Proofs about the job queue (modules JobQueue and Coro), for any number  *)
(* of workers, jobs, types and limits: its counters, its semaphore, and    *)
(* that it refines JobScheduler.                                           *)
(***************************************************************************)
EXTENDS Coro, FiniteSetTheorems, TLAPS

(* Where the stopping thread is after JobQueue::stop() has returned.       *)
AfterStop == {"resize", "signal", "pausing", "pauseAsleep", "delete", "gone"}

Fates == {"new", "queued", "running", "done", "refused"}

Holders == {w \in Threads : Holding(w)}

Counts == [waiting : Int, running : Int, deferred : Nat]

QueueTypes ==
    /\ fate \in [Jobs -> Fates] /\ adding \in SUBSET Jobs
    /\ data \in [Types -> Counts]
    /\ at \in [Threads -> Places] /\ job \in [Threads -> Jobs \cup {NoJob}]
    /\ processCount \in Int
    /\ waitForClosures \in BOOLEAN /\ stopped \in BOOLEAN

(* A running job is held by the one worker that runs it, a finished one by *)
(* the worker that has yet to call finishJob() at most.                    *)
Ownership ==
    /\ \A w \in Threads : at[w] = "body" => job[w] \in Jobs /\ fate[job[w]] = "running"
    /\ \A w \in Threads : at[w] = "finish" => job[w] \in Jobs /\ fate[job[w]] = "done"
    /\ \A v, w \in Threads : Holding(v) /\ Holding(w) /\ job[v] = job[w] => v = w
    /\ \A j \in Jobs : fate[j] = "running" => \E w \in Threads : at[w] = "body" /\ job[w] = j

(* join() leaves no closure behind it, and after stop() no job is held.    *)
Stages ==
    /\ stopper \in AfterStop \cup {"drain", "drainAsleep"} => waitForClosures /\ Closures = {}
    /\ stopper \in AfterStop => Holders = {}
    /\ stopped => stopper \in AfterStop

(* The invariant that is inductive.                                        *)
QueueInv ==
    QueueTypes /\ Ownership /\ Stages /\ CountersMatch /\ processCount = Cardinality(Holders)
-----------------------------------------------------------------------------
(* The sets that are counted are finite.                                   *)
LEMMA CountedFinite ==
    ASSUME NEW t
    PROVE  /\ IsFiniteSet(QueuedOf(t)) /\ IsFiniteSet(HoldersOf(t)) /\ IsFiniteSet(Holders)
           /\ Cardinality(QueuedOf(t)) \in Nat /\ Cardinality(HoldersOf(t)) \in Nat
           /\ Cardinality(Holders) \in Nat
  <1>1. QueuedOf(t) \in SUBSET Jobs /\ HoldersOf(t) \in SUBSET Threads /\ Holders \in SUBSET Threads
    BY DEF QueuedOf, HoldersOf, Holders
  <1>2. IsFiniteSet(QueuedOf(t)) /\ IsFiniteSet(HoldersOf(t)) /\ IsFiniteSet(Holders)
    BY <1>1, FS_Subset, JobQueueAssumption
  <1>3. QED
    BY <1>2, FS_CardinalityType

(* The type of a job is a type with a positive limit.                      *)
LEMMA TypeOfJob ==
    ASSUME NEW j \in Jobs
    PROVE  TypeOf[j] \in Types /\ Limit[TypeOf[j]] \in Nat \ {0}
  BY JobQueueAssumption DEF Types

(* A step that starts or ends no job and leaves the stopping thread        *)
(* before or after the same stage keeps the invariant.                     *)
LEMMA OtherSteps ==
    ASSUME QueueInv, UNCHANGED <<fate, data, processCount, adding, job>>,
           at' \in [Threads -> Places],
           \A w \in Threads : at'[w] = at[w] \/ ~(Holding(w) \/ Holding(w)'),
           Stages', waitForClosures' \in BOOLEAN, stopped' \in BOOLEAN
    PROVE  QueueInv'
  <1>1. \A w \in Threads : Holding(w)' = Holding(w)
    BY DEF Holding
  <1>2. \A w \in Threads : (at[w] = "body") = (at'[w] = "body") /\ (at[w] = "finish") = (at'[w] = "finish")
    BY DEF Holding
  <1>3. Ownership'
    BY <1>1, <1>2 DEF QueueInv, Ownership
  <1>4. Holders' = Holders
    BY <1>1 DEF Holders
  <1>5. \A t \in Types : QueuedOf(t)' = QueuedOf(t) /\ HoldersOf(t)' = HoldersOf(t)
    BY <1>1 DEF QueuedOf, HoldersOf
  <1>6. CountersMatch'
    BY <1>5 DEF QueueInv, CountersMatch, Balanced
  <1>7. QED
    BY <1>3, <1>4, <1>6 DEF QueueInv, QueueTypes

(* A type whose counters and jobs a step does not touch stays balanced.    *)
LEMMA OtherTypes ==
    ASSUME QueueInv, NEW u \in Types, data'[u] = data[u],
           QueuedOf(u)' = QueuedOf(u), HoldersOf(u)' = HoldersOf(u)
    PROVE  Balanced(u)'
  <1>1. Balanced(u)
    BY DEF QueueInv, CountersMatch
  <1>2. QED
    BY <1>1 DEF Balanced

(* The counters of a type as numbers: w jobs wait, d of them deferred, and *)
(* r run, under a limit of l.  How the three steps that count keep the     *)
(* limit, and defer only at the limit.                                     *)
Slotted(w, r, d, l) == d <= w /\ w - d + r <= l /\ (d > 0 => w - d + r = l)

LEMMA SlottedSteps ==
    ASSUME NEW w \in Nat, NEW r \in Nat, NEW d \in Nat, NEW l \in Nat, Slotted(w, r, d, l)
    PROVE  /\ w + r < l => Slotted(w + 1, r, d, l)
           /\ ~(w + r < l) => Slotted(w + 1, r, d + 1, l)
           /\ w > 0 /\ r < l => Slotted(w - 1, r + 1, d, l)
           /\ Slotted(w, r - 1, IF d > 0 THEN d - 1 ELSE d, l)
  BY DEF Slotted

(* A job of a type may run exactly when not all that wait are deferred.    *)
LEMMA FreeSlot ==
    ASSUME NEW w \in Nat, NEW r \in Nat, NEW d \in Nat, NEW l \in Nat, Slotted(w, r, d, l)
    PROVE  w /= 0 /\ r < l <=> w - d > 0
  BY DEF Slotted

LEMMA BalancedIs ==
    ASSUME NEW t \in Types
    PROVE  Balanced(t) <=> /\ data[t].waiting = Cardinality(QueuedOf(t))
                           /\ data[t].running = Cardinality(HoldersOf(t))
                           /\ Slotted(data[t].waiting, data[t].running, data[t].deferred, Limit[t])
  BY DEF Balanced, Slotted

(* What is known of the counters of a type.                                *)
LEMMA TypeCounters ==
    ASSUME QueueInv, NEW t \in Types
    PROVE  /\ data[t].waiting \in Nat /\ data[t].running \in Nat /\ data[t].deferred \in Nat
           /\ data[t].waiting = Cardinality(QueuedOf(t))
           /\ data[t].running = Cardinality(HoldersOf(t))
           /\ Slotted(data[t].waiting, data[t].running, data[t].deferred, Limit[t])
  <1>1. Balanced(t)
    BY DEF QueueInv, CountersMatch
  <1>2. data[t].deferred \in Nat
    BY DEF QueueInv, QueueTypes, Counts
  <1>3. QED
    BY <1>1, <1>2, CountedFinite, BalancedIs

(* What the three steps that count do to the counters of a type.           *)
LEMMA CountAdded ==
    ASSUME data \in [Types -> Counts], NEW t \in Types, NEW i \in {0, 1},
           data' = [data EXCEPT ![t].waiting = @ + 1, ![t].deferred = @ + i]
    PROVE  /\ data'[t].waiting = data[t].waiting + 1 /\ data'[t].running = data[t].running
           /\ data'[t].deferred = data[t].deferred + i
           /\ (\A u \in Types \ {t} : data'[u] = data[u]) /\ data' \in [Types -> Counts]
  <1>1. data[t] \in Counts
    OBVIOUS
  <1>2. data'[t] = [waiting |-> data[t].waiting + 1, running |-> data[t].running,
                    deferred |-> data[t].deferred + i]
    BY <1>1 DEF Counts
  <1>3. data'[t] \in Counts
    BY <1>1, <1>2 DEF Counts
  <1>4. \A u \in Types \ {t} : data'[u] = data[u]
    OBVIOUS
  <1>5. \A u \in Types : data'[u] \in Counts
    BY <1>3, <1>4, Zenon
  <1>6. data' = [u \in Types |-> data'[u]]
    BY Zenon
  <1>7. data' \in [Types -> Counts]
    BY <1>5, <1>6, Zenon
  <1>8. /\ data'[t].waiting = data[t].waiting + 1 /\ data'[t].running = data[t].running
        /\ data'[t].deferred = data[t].deferred + i
    BY <1>2
  <1>9. QED
    BY <1>4, <1>7, <1>8, Zenon

LEMMA CountTaken ==
    ASSUME data \in [Types -> Counts], NEW t \in Types,
           data' = [data EXCEPT ![t].waiting = @ - 1, ![t].running = @ + 1]
    PROVE  /\ data'[t].waiting = data[t].waiting - 1 /\ data'[t].running = data[t].running + 1
           /\ data'[t].deferred = data[t].deferred
           /\ (\A u \in Types \ {t} : data'[u] = data[u]) /\ data' \in [Types -> Counts]
  <1>1. data[t] \in Counts
    OBVIOUS
  <1>2. data'[t] = [waiting |-> data[t].waiting - 1, running |-> data[t].running + 1,
                    deferred |-> data[t].deferred]
    BY <1>1 DEF Counts
  <1>3. data'[t] \in Counts
    BY <1>1, <1>2 DEF Counts
  <1>4. \A u \in Types \ {t} : data'[u] = data[u]
    OBVIOUS
  <1>5. \A u \in Types : data'[u] \in Counts
    BY <1>3, <1>4, Zenon
  <1>6. data' = [u \in Types |-> data'[u]]
    BY Zenon
  <1>7. data' \in [Types -> Counts]
    BY <1>5, <1>6, Zenon
  <1>8. /\ data'[t].waiting = data[t].waiting - 1 /\ data'[t].running = data[t].running + 1
        /\ data'[t].deferred = data[t].deferred
    BY <1>2
  <1>9. QED
    BY <1>4, <1>7, <1>8, Zenon

LEMMA CountFinished ==
    ASSUME data \in [Types -> Counts], NEW t \in Types,
           data' = [data EXCEPT ![t].deferred = IF data[t].deferred > 0 THEN @ - 1 ELSE @,
                                ![t].running = @ - 1]
    PROVE  /\ data'[t].waiting = data[t].waiting /\ data'[t].running = data[t].running - 1
           /\ data'[t].deferred = IF data[t].deferred > 0 THEN data[t].deferred - 1 ELSE data[t].deferred
           /\ (\A u \in Types \ {t} : data'[u] = data[u]) /\ data' \in [Types -> Counts]
  <1>1. data[t] \in Counts
    OBVIOUS
  <1>2. data'[t] = [waiting |-> data[t].waiting, running |-> data[t].running - 1,
                    deferred |-> IF data[t].deferred > 0 THEN data[t].deferred - 1 ELSE data[t].deferred]
    BY <1>1 DEF Counts
  <1>3. data'[t] \in Counts
    BY <1>1, <1>2 DEF Counts
  <1>4. \A u \in Types \ {t} : data'[u] = data[u]
    OBVIOUS
  <1>5. \A u \in Types : data'[u] \in Counts
    BY <1>3, <1>4, Zenon
  <1>6. data' = [u \in Types |-> data'[u]]
    BY Zenon
  <1>7. data' \in [Types -> Counts]
    BY <1>5, <1>6, Zenon
  <1>8. /\ data'[t].waiting = data[t].waiting /\ data'[t].running = data[t].running - 1
        /\ data'[t].deferred = IF data[t].deferred > 0 THEN data[t].deferred - 1 ELSE data[t].deferred
    BY <1>2
  <1>9. QED
    BY <1>4, <1>7, <1>8, Zenon
-----------------------------------------------------------------------------
(* The initial state satisfies the invariant.                              *)
LEMMA InitInv == ASSUME JobQueueInit PROVE QueueInv
  <1>1. \A t \in Types : QueuedOf(t) = {} /\ HoldersOf(t) = {}
    BY DEF JobQueueInit, QueuedOf, HoldersOf, Holding
  <1>2. Holders = {}
    BY DEF JobQueueInit, Holders, Holding
  <1>3. CountersMatch
    <2>1. ASSUME NEW t \in Types
          PROVE  data[t].waiting = 0 /\ data[t].running = 0 /\ data[t].deferred = 0 /\ 0 <= Limit[t]
      BY JobQueueAssumption DEF JobQueueInit
    <2>2. Cardinality({}) = 0
      BY FS_EmptySet
    <2>3. QED
      BY <1>1, <2>1, <2>2 DEF CountersMatch, Balanced
  <1>4. Ownership
    BY DEF JobQueueInit, Ownership, Holding
  <1>5. Stages
    BY DEF JobQueueInit, Stages, AfterStop
  <1>6. QueueTypes
    <2>1. data \in [Types -> Counts]
      <3>1. [waiting |-> 0, running |-> 0, deferred |-> 0] \in Counts
        BY DEF Counts
      <3>2. QED
        BY <3>1, Zenon DEF JobQueueInit
    <2>2. fate \in [Jobs -> Fates]
      BY DEF JobQueueInit, Fates
    <2>3. at \in [Threads -> Places]
      BY DEF JobQueueInit, Places
    <2>4. job \in [Threads -> Jobs \cup {NoJob}]
      BY DEF JobQueueInit
    <2>5. adding \in SUBSET Jobs /\ processCount \in Int
      BY DEF JobQueueInit
    <2>6. waitForClosures \in BOOLEAN /\ stopped \in BOOLEAN
      BY Zenon DEF JobQueueInit
    <2>7. QED
      BY <2>1, <2>2, <2>3, <2>4, <2>5, <2>6 DEF QueueTypes
  <1>7. QED
    BY <1>2, <1>3, <1>4, <1>5, <1>6, FS_EmptySet DEF QueueInv, JobQueueInit

(* addJob() only counts a closure, which it may not do after join().       *)
LEMMA WrapInv == ASSUME QueueInv, NEW j \in Jobs, wrap(j) PROVE QueueInv'
  <1> USE DEF wrap
  <1>1. QueueTypes'
    BY DEF QueueInv, QueueTypes, Fates, pool
  <1>2. Ownership'
    <2>1. \A k \in Jobs : (fate[k] = "running") = (fate'[k] = "running")
                          /\ (fate[k] = "done") = (fate'[k] = "done")
      BY DEF QueueInv, QueueTypes
    <2>2. QED
      BY <2>1 DEF QueueInv, Ownership, Holding
  <1>3. \A t \in Types : QueuedOf(t)' = QueuedOf(t) /\ HoldersOf(t)' = HoldersOf(t)
    <2>1. \A k \in Jobs : (fate[k] = "queued") = (fate'[k] = "queued")
      BY DEF QueueInv, QueueTypes
    <2>2. QED
      BY <2>1 DEF QueuedOf, HoldersOf, Holding
  <1>4. Holders' = Holders
    BY DEF Holders, Holding
  <1>5. CountersMatch'
    BY <1>3 DEF QueueInv, CountersMatch, Balanced
  <1>6. Stages'
    <2>1. \A k \in Jobs : (fate[k] \in {"queued", "running"}) = (fate'[k] \in {"queued", "running"})
      BY DEF QueueInv, QueueTypes
    <2>2. waitForClosures => Closures' = Closures
      BY <2>1 DEF Closures
    <2>3. QED
      BY <1>4, <2>2 DEF QueueInv, Stages
  <1>7. QED
    BY <1>1, <1>2, <1>4, <1>5, <1>6 DEF QueueInv

(* The counters of the posted job's type, and no others, change.           *)
LEMMA AddCounts ==
    ASSUME QueueInv, NEW j \in Jobs, addRefCountedJob(j)
    PROVE  LET t == TypeOf[j]
           IN  /\ data'[t].waiting = data[t].waiting + 1
               /\ data'[t].running = data[t].running
               /\ data'[t].deferred = IF Signalled(t) THEN data[t].deferred ELSE data[t].deferred + 1
               /\ \A u \in Types \ {t} : data'[u] = data[u]
               /\ data' \in [Types -> Counts]
  <1> DEFINE t == TypeOf[j]
  <1>0. t \in Types
    BY TypeOfJob
  <1>1. /\ data' = [data EXCEPT ![t].waiting = @ + 1,
                                ![t].deferred = IF Signalled(t) THEN @ ELSE @ + 1]
        /\ data \in [Types -> Counts]
    BY DEF addRefCountedJob, QueueInv, QueueTypes
  <1>2. CASE Signalled(t)
    <2>1. data' = [data EXCEPT ![t].waiting = @ + 1, ![t].deferred = @ + 0]
      <3>1. data[t].deferred + 0 = data[t].deferred
        BY <1>0, TypeCounters
      <3>2. QED
        BY <1>1, <1>2, <3>1, Zenon
    <2>2. data'[t].deferred = data[t].deferred + 0
      BY <1>0, <1>1, <2>1, CountAdded, Zenon
    <2>3. data[t].deferred + 0 = data[t].deferred
      BY <1>0, TypeCounters
    <2>4. QED
      BY <1>0, <1>1, <1>2, <2>1, <2>2, <2>3, CountAdded, Zenon
  <1>3. CASE ~Signalled(t)
    <2>1. data' = [data EXCEPT ![t].waiting = @ + 1, ![t].deferred = @ + 1]
      BY <1>1, <1>3, Zenon
    <2>2. QED
      BY <1>0, <1>1, <1>3, <2>1, CountAdded, Zenon
  <1>4. QED
    BY <1>2, <1>3

(* A posted job is counted with its type, and signalled or deferred.       *)
LEMMA AddInv == ASSUME QueueInv, NEW j \in Jobs, addRefCountedJob(j) PROVE QueueInv'
  <1> DEFINE t == TypeOf[j]
  <1>0. t \in Types /\ Limit[t] \in Nat \ {0}
    BY TypeOfJob
  <1>1. /\ fate[j] = "new" /\ j \in adding
        /\ fate' = [fate EXCEPT ![j] = "queued"]
        /\ UNCHANGED <<processCount, adding, waitForClosures, stopped, at, job, stopper>>
    BY DEF addRefCountedJob, closing
  <1>2. /\ data'[t].waiting = data[t].waiting + 1
        /\ data'[t].running = data[t].running
        /\ data'[t].deferred = IF Signalled(t) THEN data[t].deferred ELSE data[t].deferred + 1
        /\ \A u \in Types \ {t} : data'[u] = data[u]
        /\ data' \in [Types -> Counts]
    BY AddCounts, Zenon
  <1>3. QueueTypes'
    BY <1>1, <1>2 DEF QueueInv, QueueTypes, Fates
  <1>4. Ownership'
    <2>1. \A k \in Jobs : (fate[k] = "running") = (fate'[k] = "running")
                          /\ (fate[k] = "done") = (fate'[k] = "done")
      BY <1>1 DEF QueueInv, QueueTypes
    <2>2. QED
      BY <1>1, <2>1 DEF QueueInv, Ownership, Holding
  <1>5. Holders' = Holders /\ \A u \in Types : HoldersOf(u)' = HoldersOf(u)
    BY <1>1 DEF Holders, HoldersOf, Holding
  <1>6. j \notin QueuedOf(t) /\ QueuedOf(t)' = QueuedOf(t) \cup {j}
    BY <1>1 DEF QueueInv, QueueTypes, QueuedOf
  <1>7. \A u \in Types \ {t} : QueuedOf(u)' = QueuedOf(u)
    BY <1>1 DEF QueueInv, QueueTypes, QueuedOf
  <1>8. Cardinality(QueuedOf(t)') = Cardinality(QueuedOf(t)) + 1
    BY <1>6, CountedFinite, FS_AddElement, ZenonT(30)
  <1>9. CountersMatch'
    <2>1. ASSUME NEW u \in Types \ {t} PROVE Balanced(u)'
      <3>1. data'[u] = data[u] /\ QueuedOf(u)' = QueuedOf(u) /\ HoldersOf(u)' = HoldersOf(u)
        BY <1>2, <1>5, <1>7, Zenon
      <3>2. QED
        BY <3>1, OtherTypes, Zenon
    <2>2. Balanced(t)'
      <3> DEFINE d == data[t]
      <3>1. /\ data'[t].waiting = Cardinality(QueuedOf(t)')
            /\ data'[t].running = Cardinality(HoldersOf(t)')
        <4>1. d.waiting = Cardinality(QueuedOf(t)) /\ d.running = Cardinality(HoldersOf(t))
          BY <1>0, TypeCounters
        <4>2. HoldersOf(t)' = HoldersOf(t)
          BY <1>0, <1>5, Zenon
        <4>3. QED
          BY <1>2, <1>8, <4>1, <4>2, Zenon
      <3>2. Slotted(data'[t].waiting, data'[t].running, data'[t].deferred, Limit[t])
        <4>1. /\ d.waiting \in Nat /\ d.running \in Nat /\ d.deferred \in Nat /\ Limit[t] \in Nat
              /\ Slotted(d.waiting, d.running, d.deferred, Limit[t])
          BY <1>0, TypeCounters
        <4>2. CASE Signalled(t)
          <5>1. d.waiting + d.running < Limit[t]
            BY <4>2 DEF Signalled
          <5>2. Slotted(d.waiting + 1, d.running, d.deferred, Limit[t])
            BY <4>1, <5>1, SlottedSteps, Zenon
          <5>3. data'[t].deferred = d.deferred
            BY <1>2, <4>2, Zenon
          <5>4. QED
            BY <1>2, <5>2, <5>3, Zenon
        <4>3. CASE ~Signalled(t)
          <5>1. ~(d.waiting + d.running < Limit[t])
            BY <4>3 DEF Signalled
          <5>2. Slotted(d.waiting + 1, d.running, d.deferred + 1, Limit[t])
            BY <4>1, <5>1, SlottedSteps, Zenon
          <5>3. data'[t].deferred = d.deferred + 1
            BY <1>2, <4>3, Zenon
          <5>4. QED
            BY <1>2, <5>2, <5>3, Zenon
        <4>4. QED
          BY <4>2, <4>3
      <3>3. QED
        BY <1>0, <3>1, <3>2 DEF Balanced, Slotted
    <2>3. QED
      BY <2>1, <2>2 DEF CountersMatch
  <1>10. Stages'
    <2>1. j \in Closures
      BY <1>1 DEF Closures
    <2>2. QED
      BY <1>1, <1>5, <2>1 DEF QueueInv, Stages
  <1>11. QED
    BY <1>1, <1>3, <1>4, <1>5, <1>9, <1>10 DEF QueueInv

(* addJob() gives its closure up.                                          *)
LEMMA ReturnInv == ASSUME QueueInv, NEW j \in Jobs, addJobReturns(j) PROVE QueueInv'
  <1>1. /\ UNCHANGED <<fate, data, processCount, waitForClosures, stopped, at, job>>
        /\ adding' = adding \ {j}
        /\ stopper' = stopper \/ stopper' = "join"
    BY DEF addJobReturns, counters, NotifyClosuresDone
  <1>2. QueueTypes'
    BY <1>1 DEF QueueInv, QueueTypes
  <1>3. Ownership' /\ Holders' = Holders
    BY <1>1 DEF QueueInv, Ownership, Holders, Holding
  <1>4. CountersMatch'
    BY <1>1 DEF QueueInv, CountersMatch, Balanced, QueuedOf, HoldersOf, Holding
  <1>5. Stages'
    <2>1. Closures' \subseteq Closures
      BY <1>1 DEF Closures
    <2>2. stopper' = stopper \/ (stopper = "joinAsleep" /\ stopper' = "join")
      BY DEF addJobReturns, NotifyClosuresDone
    <2>3. QED
      BY <1>1, <1>3, <2>1, <2>2 DEF QueueInv, Stages, AfterStop
  <1>6. QED
    BY <1>1, <1>2, <1>3, <1>4, <1>5 DEF QueueInv

(* getNextJob() moves a job from the waiting to the running ones of a type *)
(* that has a slot free.                                                   *)
LEMMA TakeInv == ASSUME QueueInv, NEW w \in Threads, getNextJob(w) PROVE QueueInv'
  <1>1. PICK j \in Runnable :
           /\ Goes(w, "process", "body")
           /\ job' = [job EXCEPT ![w] = j]
           /\ fate' = [fate EXCEPT ![j] = "running"]
           /\ data' = [data EXCEPT ![TypeOf[j]].waiting = @ - 1, ![TypeOf[j]].running = @ + 1]
           /\ processCount' = processCount + 1
           /\ UNCHANGED <<stopped, adding, waitForClosures, stopper>>
    BY ZenonT(30) DEF getNextJob, closing
  <1>2. j \in Jobs /\ fate[j] = "queued" /\ data[TypeOf[j]].running < Limit[TypeOf[j]]
    BY DEF Runnable, jobSet
  <1> DEFINE t == TypeOf[j]
  <1>3. t \in Types /\ Limit[t] \in Nat \ {0}
    BY <1>2, TypeOfJob
  <1>4. /\ at[w] = "process" /\ at'[w] = "body" /\ job'[w] = j /\ fate'[j] = "running"
        /\ \A v \in Threads \ {w} : at'[v] = at[v] /\ job'[v] = job[v]
        /\ \A k \in Jobs \ {j} : fate'[k] = fate[k]
    BY <1>1, <1>2 DEF Goes, QueueInv, QueueTypes
  <1>5. /\ data'[t].waiting = data[t].waiting - 1
        /\ data'[t].running = data[t].running + 1
        /\ data'[t].deferred = data[t].deferred
        /\ \A u \in Types \ {t} : data'[u] = data[u]
        /\ data' \in [Types -> Counts]
    <2>1. data \in [Types -> Counts]
      BY DEF QueueInv, QueueTypes
    <2>2. QED
      BY <1>1, <1>3, <2>1, CountTaken, Zenon
  <1>6. QueueTypes'
    <2>1. /\ at' \in [Threads -> Places] /\ job' \in [Threads -> Jobs \cup {NoJob}]
          /\ fate' \in [Jobs -> Fates]
      BY <1>1, <1>2, SMTT(30) DEF QueueInv, QueueTypes, Fates, Goes, Places
    <2>2. processCount' \in Int
      BY <1>1 DEF QueueInv, QueueTypes
    <2>3. QED
      BY <1>1, <1>5, <2>1, <2>2, Zenon DEF QueueInv, QueueTypes
  <1>7. ~Holding(w) /\ Holding(w)' /\ \A v \in Threads \ {w} : Holding(v)' = Holding(v)
    BY <1>4 DEF Holding
  <1>8. \A v \in Threads : Holding(v) => job[v] \in Jobs /\ job[v] /= j
    BY <1>2 DEF QueueInv, Ownership, Holding
  <1>9. Ownership'
    <2>1. \A v \in Threads : at'[v] = "body" => job'[v] \in Jobs /\ fate'[job'[v]] = "running"
      BY <1>2, <1>4, <1>8 DEF QueueInv, Ownership, Holding
    <2>2. \A v \in Threads : at'[v] = "finish" => job'[v] \in Jobs /\ fate'[job'[v]] = "done"
      BY <1>2, <1>4, <1>8 DEF QueueInv, Ownership, Holding
    <2>3. \A u, v \in Threads : Holding(u)' /\ Holding(v)' /\ job'[u] = job'[v] => u = v
      <3>1. ASSUME NEW u \in Threads, NEW v \in Threads, Holding(u)', Holding(v)',
                   job'[u] = job'[v]
            PROVE  u = v
        <4>1. \A x, y \in Threads : Holding(x) /\ Holding(y) /\ job[x] = job[y] => x = y
          BY Zenon DEF QueueInv, Ownership
        <4>2. \A x \in Threads : x # w /\ Holding(x)' => Holding(x) /\ job'[x] = job[x] /\ job[x] # j
          BY <1>4, <1>7, <1>8
        <4>3. CASE u = w
          BY <1>4, <3>1, <4>2, <4>3, Zenon
        <4>4. CASE v = w
          BY <1>4, <3>1, <4>2, <4>4, Zenon
        <4>5. CASE u # w /\ v # w
          BY <3>1, <4>1, <4>2, <4>5, Zenon
        <4>6. QED
          BY <4>3, <4>4, <4>5, Zenon
      <3>2. QED
        BY <3>1, Zenon
    <2>4. ASSUME NEW k \in Jobs, fate'[k] = "running"
          PROVE  \E v \in Threads : at'[v] = "body" /\ job'[v] = k
      <3>1. CASE k = j
        BY <3>1, <1>4
      <3>2. CASE k /= j
        <4>1. PICK v \in Threads : at[v] = "body" /\ job[v] = k
          BY <1>4, <2>4, <3>2 DEF QueueInv, Ownership
        <4>2. v /= w
          BY <1>4, <4>1
        <4>3. QED
          BY <1>4, <4>1, <4>2
      <3>3. QED
        BY <3>1, <3>2
    <2>5. QED
      BY <2>1, <2>2, <2>3, <2>4 DEF Ownership
  <1>10. Holders' = Holders \cup {w} /\ w \notin Holders
    BY <1>7 DEF Holders
  <1>11. /\ HoldersOf(t)' = HoldersOf(t) \cup {w} /\ w \notin HoldersOf(t)
         /\ \A u \in Types \ {t} : HoldersOf(u)' = HoldersOf(u)
    BY <1>4, <1>7 DEF HoldersOf
  <1>12. /\ QueuedOf(t)' = QueuedOf(t) \ {j} /\ j \in QueuedOf(t)
         /\ \A u \in Types \ {t} : QueuedOf(u)' = QueuedOf(u)
    BY <1>2, <1>4 DEF QueuedOf
  <1>13. /\ Cardinality(Holders') = Cardinality(Holders) + 1
         /\ Cardinality(HoldersOf(t)') = Cardinality(HoldersOf(t)) + 1
         /\ Cardinality(QueuedOf(t)') = Cardinality(QueuedOf(t)) - 1
         /\ Cardinality(QueuedOf(t)) > 0
    <2>1. Cardinality(Holders') = Cardinality(Holders) + 1
      BY <1>10, CountedFinite, FS_AddElement
    <2>2. Cardinality(HoldersOf(t)') = Cardinality(HoldersOf(t)) + 1
      BY <1>11, CountedFinite, FS_AddElement, ZenonT(30)
    <2>3. Cardinality(QueuedOf(t)') = Cardinality(QueuedOf(t)) - 1
      BY <1>12, CountedFinite, FS_RemoveElement, ZenonT(30)
    <2>4. Cardinality(QueuedOf(t)) > 0
      BY <1>12, CountedFinite, FS_EmptySet
    <2>5. QED
      BY <2>1, <2>2, <2>3, <2>4
  <1>14. CountersMatch'
    <2>1. ASSUME NEW u \in Types \ {t} PROVE Balanced(u)'
      <3>1. data'[u] = data[u] /\ QueuedOf(u)' = QueuedOf(u) /\ HoldersOf(u)' = HoldersOf(u)
        BY <1>5, <1>11, <1>12, Zenon
      <3>2. QED
        BY <3>1, OtherTypes, Zenon
    <2>2. Balanced(t)'
      <3> DEFINE d == data[t]
      <3>1. /\ d.waiting = Cardinality(QueuedOf(t)) /\ d.running = Cardinality(HoldersOf(t))
            /\ d.waiting \in Nat /\ d.running \in Nat /\ d.deferred \in Nat /\ Limit[t] \in Nat
            /\ Slotted(d.waiting, d.running, d.deferred, Limit[t])
        BY <1>3, TypeCounters
      <3>2. d.running < Limit[t] /\ d.waiting > 0
        BY <1>2, <1>13, <3>1
      <3>3. /\ data'[t].waiting = Cardinality(QueuedOf(t)')
            /\ data'[t].running = Cardinality(HoldersOf(t)')
        BY <1>5, <1>13, <3>1, Zenon
      <3>4. Slotted(d.waiting - 1, d.running + 1, d.deferred, Limit[t])
        BY <3>1, <3>2, SlottedSteps, Zenon
      <3>5. Slotted(data'[t].waiting, data'[t].running, data'[t].deferred, Limit[t])
        BY <1>5, <3>4, Zenon
      <3>6. QED
        BY <3>3, <3>5 DEF Balanced, Slotted
    <2>3. QED
      BY <2>1, <2>2 DEF CountersMatch
  <1>15. Stages'
    <2>1. j \in Closures
      BY <1>2 DEF Closures
    <2>2. QED
      BY <1>1, <2>1 DEF QueueInv, Stages, AfterStop
  <1>16. QED
    BY <1>1, <1>6, <1>9, <1>13, <1>14, <1>15, SMTT(30) DEF QueueInv

(* The end of a job's body: its worker still holds its slot.               *)
LEMMA DoneInv == ASSUME QueueInv, NEW w \in Threads, doJob(w) PROVE QueueInv'
  <1>1. /\ at[w] = "body" /\ at' = [at EXCEPT ![w] = "finish"]
        /\ fate' = [fate EXCEPT ![job[w]] = "done"]
        /\ UNCHANGED <<data, processCount, stopped, adding, waitForClosures, job>>
        /\ stopper' = stopper \/ (stopper = "joinAsleep" /\ stopper' = "join")
    BY DEF doJob, Goes, NotifyClosuresDone
  <1>2. job[w] \in Jobs /\ fate[job[w]] = "running"
    BY <1>1 DEF QueueInv, Ownership
  <1>3. /\ at'[w] = "finish" /\ fate'[job[w]] = "done"
        /\ \A v \in Threads \ {w} : at'[v] = at[v]
        /\ \A k \in Jobs \ {job[w]} : fate'[k] = fate[k]
    BY <1>1, <1>2 DEF QueueInv, QueueTypes
  <1>4. QueueTypes'
    BY <1>1, <1>2 DEF QueueInv, QueueTypes, Fates, Places
  <1>5. \A v \in Threads : Holding(v)' = Holding(v)
    BY <1>1, <1>3 DEF Holding
  <1>6. \A v \in Threads \ {w} : Holding(v) => job[v] \in Jobs /\ job[v] /= job[w]
    BY <1>1 DEF QueueInv, Ownership, Holding
  <1>7. Ownership'
    <2>0. /\ \A v \in Threads : at[v] = "body" => job[v] \in Jobs /\ fate[job[v]] = "running"
          /\ \A v \in Threads : at[v] = "finish" => job[v] \in Jobs /\ fate[job[v]] = "done"
          /\ \A v \in Threads : job'[v] = job[v]
      BY <1>1, Zenon DEF QueueInv, Ownership
    <2>1. \A v \in Threads : at'[v] = "body" => job'[v] \in Jobs /\ fate'[job'[v]] = "running"
      <3>1. SUFFICES ASSUME NEW v \in Threads, at'[v] = "body"
                     PROVE  job[v] \in Jobs /\ fate'[job[v]] = "running"
        BY <2>0, Zenon
      <3>2. v /= w
        BY <1>3, <3>1
      <3>3. at[v] = "body"
        BY <1>3, <3>1, <3>2, Zenon
      <3>4. job[v] \in Jobs \ {job[w]}
        BY <1>6, <3>2, <3>3 DEF Holding
      <3>5. QED
        BY <1>3, <2>0, <3>3, <3>4, Zenon
    <2>2. \A v \in Threads : at'[v] = "finish" => job'[v] \in Jobs /\ fate'[job'[v]] = "done"
      <3>1. SUFFICES ASSUME NEW v \in Threads, at'[v] = "finish"
                     PROVE  job[v] \in Jobs /\ fate'[job[v]] = "done"
        BY <2>0, Zenon
      <3>2. CASE v = w
        BY <1>2, <1>3, <3>2, Zenon
      <3>3. CASE v /= w
        <4>1. at[v] = "finish"
          BY <1>3, <3>1, <3>3, Zenon
        <4>2. job[v] \in Jobs \ {job[w]}
          BY <1>6, <3>3, <4>1 DEF Holding
        <4>3. QED
          BY <1>3, <2>0, <4>1, <4>2, Zenon
      <3>4. QED
        BY <3>2, <3>3, Zenon
    <2>3. \A u, v \in Threads : Holding(u)' /\ Holding(v)' /\ job'[u] = job'[v] => u = v
      BY <1>1, <1>5 DEF QueueInv, Ownership
    <2>4. ASSUME NEW k \in Jobs, fate'[k] = "running"
          PROVE  \E v \in Threads : at'[v] = "body" /\ job'[v] = k
      <3>1. k /= job[w] /\ fate[k] = "running"
        BY <1>2, <1>3, <2>4
      <3>2. PICK v \in Threads : at[v] = "body" /\ job[v] = k
        BY <3>1 DEF QueueInv, Ownership
      <3>3. QED
        BY <1>1, <1>3, <3>1, <3>2
    <2>5. QED
      BY <2>1, <2>2, <2>3, <2>4 DEF Ownership
  <1>8. Holders' = Holders
    BY <1>5 DEF Holders
  <1>9. \A t \in Types : QueuedOf(t)' = QueuedOf(t) /\ HoldersOf(t)' = HoldersOf(t)
    <2>1. \A k \in Jobs : (fate'[k] = "queued") = (fate[k] = "queued")
      BY <1>2, <1>3, SMTT(30)
    <2>2. QED
      BY <1>1, <1>5, <2>1 DEF QueuedOf, HoldersOf
  <1>10. CountersMatch'
    BY <1>1, <1>9 DEF QueueInv, CountersMatch, Balanced
  <1>11. Stages'
    <2>1. job[w] \in Closures
      BY <1>2 DEF Closures
    <2>2. QED
      BY <1>1, <1>8, <2>1 DEF QueueInv, Stages, AfterStop
  <1>12. QED
    BY <1>1, <1>4, <1>7, <1>8, <1>10, <1>11 DEF QueueInv

(* finishJob() gives the slot back, or hands it to a deferred job.         *)
LEMMA FinishInv == ASSUME QueueInv, NEW w \in Threads, finishJob(w) PROVE QueueInv'
  <1>0. PICK t : t = TypeOf[job[w]]
    OBVIOUS
  <1>1. /\ at[w] = "finish" /\ at' = [at EXCEPT ![w] = "finished"]
        /\ processCount' = processCount - 1
        /\ job' = [job EXCEPT ![w] = NoJob]
        /\ UNCHANGED <<fate, stopped, adding, waitForClosures>>
        /\ stopper' = stopper \/ (stopper = "drainAsleep" /\ stopper' = "drain")
    BY DEF finishJob, Goes, closing
  <1>2. job[w] \in Jobs /\ fate[job[w]] = "done"
    BY <1>1 DEF QueueInv, Ownership
  <1>3. t \in Types /\ Limit[t] \in Nat \ {0}
    BY <1>0, <1>2, TypeOfJob
  <1>4. /\ at'[w] = "finished" /\ job'[w] = NoJob
        /\ \A v \in Threads \ {w} : at'[v] = at[v] /\ job'[v] = job[v]
    BY <1>1 DEF QueueInv, QueueTypes
  <1>5. /\ data'[t].waiting = data[t].waiting
        /\ data'[t].running = data[t].running - 1
        /\ data'[t].deferred = IF data[t].deferred > 0 THEN data[t].deferred - 1
                                                       ELSE data[t].deferred
        /\ \A u \in Types \ {t} : data'[u] = data[u]
        /\ data' \in [Types -> Counts]
    <2>1. data' = [data EXCEPT ![t].deferred = IF data[t].deferred > 0 THEN @ - 1 ELSE @,
                               ![t].running = @ - 1]
      BY <1>0 DEF finishJob
    <2>2. data \in [Types -> Counts]
      BY DEF QueueInv, QueueTypes
    <2>3. QED
      BY <1>3, <2>1, <2>2, CountFinished, Zenon
  <1>6. QueueTypes'
    BY <1>1, <1>5 DEF QueueInv, QueueTypes, Places
  <1>7. Holding(w) /\ ~Holding(w)' /\ \A v \in Threads \ {w} : Holding(v)' = Holding(v)
    BY <1>1, <1>4, SMTT(30) DEF Holding
  <1>8. Ownership'
    <2>1. fate' = fate /\ at'[w] # "body" /\ at'[w] # "finish" /\ at[w] # "body"
      BY <1>1, <1>4
    <2>2. QED
      <3>1. /\ \A v \in Threads : at'[v] = "body" => job'[v] \in Jobs /\ fate'[job'[v]] = "running"
            /\ \A v \in Threads : at'[v] = "finish" => job'[v] \in Jobs /\ fate'[job'[v]] = "done"
        <4>1. /\ \A v \in Threads : at[v] = "body" => job[v] \in Jobs /\ fate[job[v]] = "running"
              /\ \A v \in Threads : at[v] = "finish" => job[v] \in Jobs /\ fate[job[v]] = "done"
          BY Zenon DEF QueueInv, Ownership
        <4>2. ASSUME NEW v \in Threads, at'[v] = "body" \/ at'[v] = "finish"
              PROVE  at'[v] = at[v] /\ job'[v] = job[v]
          BY <1>4, <2>1, <4>2, Zenon
        <4>3. QED
          BY <2>1, <4>1, <4>2
      <3>2. \A u, v \in Threads : Holding(u)' /\ Holding(v)' /\ job'[u] = job'[v] => u = v
        <4>1. \A x, y \in Threads : Holding(x) /\ Holding(y) /\ job[x] = job[y] => x = y
          BY Zenon DEF QueueInv, Ownership
        <4>2. \A x \in Threads : Holding(x)' => Holding(x) /\ job'[x] = job[x]
          BY <1>4, <1>7
        <4>3. QED
          BY <4>1, <4>2, Zenon
      <3>3. ASSUME NEW k \in Jobs, fate'[k] = "running"
            PROVE  \E v \in Threads : at'[v] = "body" /\ job'[v] = k
        <4>1. PICK v \in Threads : at[v] = "body" /\ job[v] = k
          BY <2>1, <3>3, Zenon DEF QueueInv, Ownership
        <4>2. QED
          BY <1>4, <2>1, <4>1, Zenon
      <3>4. QED
        BY <3>1, <3>2, <3>3, Zenon DEF Ownership
  <1>9. Holders' = Holders \ {w} /\ w \in Holders
    BY <1>7, SMTT(30) DEF Holders
  <1>10. /\ HoldersOf(t)' = HoldersOf(t) \ {w} /\ w \in HoldersOf(t)
         /\ \A u \in Types \ {t} : HoldersOf(u)' = HoldersOf(u)
    BY <1>0, <1>4, <1>7 DEF HoldersOf
  <1>11. \A u \in Types : QueuedOf(u)' = QueuedOf(u)
    BY <1>1 DEF QueuedOf
  <1>12. Cardinality(Holders') = Cardinality(Holders) - 1
    BY <1>9, CountedFinite, FS_RemoveElement
  <1>13. Cardinality(HoldersOf(t)') = Cardinality(HoldersOf(t)) - 1
    BY <1>10, CountedFinite, FS_RemoveElement, ZenonT(30)
  <1>14. CountersMatch'
    <2>1. ASSUME NEW u \in Types \ {t} PROVE Balanced(u)'
      <3>1. data'[u] = data[u] /\ QueuedOf(u)' = QueuedOf(u) /\ HoldersOf(u)' = HoldersOf(u)
        BY <1>5, <1>10, <1>11, Zenon
      <3>2. QED
        BY <3>1, OtherTypes, Zenon
    <2>2. Balanced(t)'
      <3> DEFINE d == data[t]
      <3>1. /\ d.waiting = Cardinality(QueuedOf(t)) /\ d.running = Cardinality(HoldersOf(t))
            /\ d.waiting \in Nat /\ d.running \in Nat /\ d.deferred \in Nat /\ Limit[t] \in Nat
            /\ Slotted(d.waiting, d.running, d.deferred, Limit[t])
        BY <1>3, TypeCounters
      <3>2. /\ data'[t].waiting = Cardinality(QueuedOf(t)')
            /\ data'[t].running = Cardinality(HoldersOf(t)')
        BY <1>3, <1>5, <1>11, <1>13, <3>1, Zenon
      <3>3. Slotted(d.waiting, d.running - 1, IF d.deferred > 0 THEN d.deferred - 1 ELSE d.deferred,
                    Limit[t])
        BY <3>1, SlottedSteps, Zenon
      <3>4. Slotted(data'[t].waiting, data'[t].running, data'[t].deferred, Limit[t])
        BY <1>5, <3>3, Zenon
      <3>5. QED
        BY <3>2, <3>4 DEF Balanced, Slotted
    <2>3. QED
      BY <2>1, <2>2 DEF CountersMatch
  <1>15. Stages'
    BY <1>1, <1>9, SMTT(30) DEF QueueInv, Stages, AfterStop, Closures
  <1>16. QED
    BY <1>1, <1>6, <1>8, <1>12, <1>14, <1>15 DEF QueueInv

(* A worker moves between places where it holds no job.                    *)
LEMMA MoveInv ==
    ASSUME QueueInv, NEW w \in Threads, NEW from \in Places \ {"body", "finish"},
           NEW to \in Places \ {"body", "finish"}, Goes(w, from, to),
           UNCHANGED <<fate, data, processCount, adding, job, waitForClosures, stopped>>,
           stopper' = stopper \/ (stopper \in AfterStop /\ stopper' \in AfterStop)
    PROVE  QueueInv'
  <1>1. /\ at' \in [Threads -> Places] /\ at[w] = from /\ at'[w] = to
        /\ \A v \in Threads \ {w} : at'[v] = at[v]
    BY DEF Goes, QueueInv, QueueTypes
  <1>2. \A v \in Threads : at'[v] = at[v] \/ ~(Holding(v) \/ Holding(v)')
    BY <1>1 DEF Holding
  <1>3. Holders' = Holders
    BY <1>1 DEF Holders, Holding
  <1>4. Stages'
    BY <1>3 DEF QueueInv, Stages, Closures
  <1>5. QED
    BY <1>1, <1>2, <1>4, OtherSteps DEF QueueInv, QueueTypes

(* Every step of a worker other than the end of a job's body.              *)
LEMMA WorkerInv == ASSUME QueueInv, NEW w \in Threads, workerStep(w) PROVE QueueInv'
  <1> DEFINE Still == UNCHANGED <<fate, data, processCount, adding, job, waitForClosures, stopped>>
             Free == Places \ {"body", "finish"}
  <1> USE DEF counters, closing, pool
  <1>1. CASE getNextJob(w)
    BY <1>1, TakeInv
  <1>2. CASE finishJob(w)
    BY <1>2, FinishInv
  <1>3. CASE activate(w)
    <2>1. \E to \in Free : Goes(w, "start", to)
      BY <1>3 DEF activate, Places
    <2>2. Still /\ stopper' = stopper
      BY <1>3 DEF activate
    <2>3. QED
      BY <2>1, <2>2, MoveInv DEF Places
  <1>4. CASE resetAllPaused(w)
    <2>1. Goes(w, "first", "idle") /\ Still /\ stopper' = stopper
      BY <1>4 DEF resetAllPaused
    <2>2. QED
      BY <2>1, MoveInv DEF Places
  <1>5. CASE acquireTask(w)
    <2>1. Goes(w, "idle", "woken") /\ Still /\ stopper' = stopper
      BY <1>5 DEF acquireTask
    <2>2. QED
      BY <2>1, MoveInv DEF Places
  <1>6. CASE loadPauseCount(w)
    <2>1. \E to \in Free : Goes(w, "woken", to)
      BY <1>6 DEF loadPauseCount, Places
    <2>2. Still /\ stopper' = stopper
      BY <1>6 DEF loadPauseCount
    <2>3. QED
      BY <2>1, <2>2, MoveInv DEF Places
  <1>7. CASE tryPause(w)
    <2>1. \E to \in Free : Goes(w, "mayPause", to)
      BY <1>7 DEF tryPause, Places
    <2>2. Still /\ stopper' = stopper
      BY <1>7 DEF tryPause
    <2>3. QED
      BY <2>1, <2>2, MoveInv DEF Places
  <1>8. CASE beginTask(w)
    <2>1. Goes(w, "task", "process") /\ Still /\ stopper' = stopper
      BY <1>8 DEF beginTask
    <2>2. QED
      BY <2>1, MoveInv DEF Places
  <1>9. CASE endTask(w)
    <2>1. \E to \in Free : Goes(w, "finished", to)
      BY <1>9 DEF endTask, Places
    <2>2. Still /\ stopper' = stopper
      BY <1>9 DEF endTask
    <2>3. QED
      BY <2>1, <2>2, MoveInv DEF Places
  <1>10. CASE notifyNoTasks(w)
    <2>1. Goes(w, "notify", "idle") /\ Still
      BY <1>10 DEF notifyNoTasks
    <2>2. stopper' = stopper \/ (stopper \in AfterStop /\ stopper' \in AfterStop)
      BY <1>10 DEF notifyNoTasks, WakePauser, AfterStop
    <2>3. QED
      BY <2>1, <2>2, MoveInv DEF Places
  <1>11. CASE deactivate(w)
    <2>1. \E to \in Free : Goes(w, "paused", to)
      BY <1>11 DEF deactivate, Places
    <2>2. Still /\ stopper' = stopper
      BY <1>11 DEF deactivate
    <2>3. QED
      BY <2>1, <2>2, MoveInv DEF Places
  <1>12. CASE signalAllPaused(w)
    <2>1. Goes(w, "last", "parked") /\ Still
      BY <1>12 DEF signalAllPaused
    <2>2. stopper' = stopper \/ (stopper \in AfterStop /\ stopper' \in AfterStop)
      BY <1>12 DEF signalAllPaused, WakePauser, AfterStop
    <2>3. QED
      BY <2>1, <2>2, MoveInv DEF Places
  <1>13. CASE exitThread(w)
    <2>1. Goes(w, "parked", "exited") /\ Still /\ stopper' = stopper
      BY <1>13 DEF exitThread
    <2>2. QED
      BY <2>1, MoveInv DEF Places
  <1>14. QED
    BY <1>1, <1>2, <1>3, <1>4, <1>5, <1>6, <1>7, <1>8, <1>9, <1>10, <1>11, <1>12, <1>13, SMTT(30)
       DEF workerStep

(* The stopping thread advances to a stage only when it holds.             *)
LEMMA StopInv == ASSUME QueueInv, stop \/ stopStep PROVE QueueInv'
  <1>1. UNCHANGED <<fate, data, processCount, adding, job, at>>
    BY DEF stop, stopStep, joinClosures, drain, requestPause, signalPause, awaitPaused,
           deleteWorker, destroyed, counters, closing
  <1>2. Holders' = Holders /\ Closures' = Closures
    BY <1>1 DEF Holders, Holding, Closures
  <1>3. /\ Stages' /\ waitForClosures' \in BOOLEAN /\ stopped' \in BOOLEAN
    <2>1. CASE stop
      BY <1>2, <2>1 DEF stop, QueueInv, QueueTypes, Stages, AfterStop
    <2>2. CASE joinClosures
      BY <1>2, <2>2 DEF joinClosures, QueueInv, QueueTypes, Stages, AfterStop
    <2>3. CASE drain
      <3>1. processCount = 0 => Holders = {}
        BY CountedFinite, FS_EmptySet, ZenonT(30) DEF QueueInv
      <3>2. QED
        BY <1>2, <2>3, <3>1 DEF drain, QueueInv, QueueTypes, Stages, AfterStop
    <2>4. CASE requestPause \/ signalPause \/ awaitPaused \/ destroyed
      <3>1. stopper \in AfterStop /\ stopper' \in AfterStop /\ UNCHANGED <<waitForClosures, stopped>>
        BY <2>4 DEF requestPause, signalPause, awaitPaused, destroyed, AfterStop, closing
      <3>2. QED
        BY <1>2, <3>1 DEF QueueInv, QueueTypes, Stages
    <2>5. CASE \E w \in Threads : deleteWorker(w)
      BY <1>2, <2>5 DEF deleteWorker, closing, QueueInv, QueueTypes, Stages
    <2>6. QED
      BY <2>1, <2>2, <2>3, <2>4, <2>5 DEF stopStep
  <1>4. QED
    BY <1>1, <1>3, OtherSteps, ZenonT(30) DEF QueueInv, QueueTypes

(* The invariant is inductive.                                             *)
LEMMA NextInv == ASSUME QueueInv, [JobQueueNext]_jobQueueVars PROVE QueueInv'
  <1>1. CASE UNCHANGED jobQueueVars
    <2>1. UNCHANGED <<fate, data, processCount, adding, job, at, stopper, waitForClosures, stopped>>
      BY <1>1 DEF jobQueueVars, counters, closing
    <2>2. Stages'
      BY <2>1 DEF QueueInv, Stages, Holders, Holding, Closures
    <2>3. QED
      BY <2>1, <2>2, OtherSteps DEF QueueInv, QueueTypes
  <1>2. QED
    BY <1>1, WrapInv, AddInv, ReturnInv, WorkerInv, DoneInv, StopInv DEF JobQueueNext
-----------------------------------------------------------------------------
(* With coroutines in the jobs the queue takes the steps of a queue whose  *)
(* jobs are opaque, or none.                                               *)
LEMMA CoroStepIsQueueStep == ASSUME [Next]_vars PROVE [JobQueueNext]_jobQueueVars
  <1>1. CASE \E j \in Jobs \ CoroJobs : wrap(j) /\ UNCHANGED coroVars
    BY <1>1 DEF JobQueueNext
  <1>2. CASE \E c \in Coros : postCoro(c) \/ postFirst(c) \/ expectEarlyExit(c)
    <2>1. (\E c \in Coros : wrap(First[c])) \/ UNCHANGED jobQueueVars
      BY <1>2 DEF postCoro, postFirst, expectEarlyExit
    <2>2. QED
      BY <2>1, CoroAssumption, SMTT(30) DEF JobQueueNext
  <1>3. CASE signalStop
    BY <1>3 DEF signalStop
  <1>4. CASE appStopping /\ stop /\ UNCHANGED coroVars
    BY <1>4 DEF JobQueueNext
  <1>5. CASE runStep
    <2>1. CASE \E j \in Jobs : addStep(j)
      BY <2>1 DEF addStep, JobQueueNext
    <2>2. ASSUME NEW w \in Threads, threadStep(w) PROVE [JobQueueNext]_jobQueueVars
      <3>1. CASE workerStep(w) /\ UNCHANGED coroVars
        BY <3>1 DEF JobQueueNext
      <3>2. ASSUME NEW c \in Coros, coroStep(w, c) PROVE [JobQueueNext]_jobQueueVars
        <4>1. wrap(Path[c]) \/ wrap(Again[c]) \/ UNCHANGED jobQueueVars
          BY <3>2 DEF coroStep, resume, lockAndContinue, ask, asked, yield, answer, unlock,
                      updatePaths, post, posted
        <4>2. QED
          BY <4>1, CoroAssumption DEF JobQueueNext
      <3>3. CASE jobEnds(w)
        BY <3>3 DEF jobEnds, JobQueueNext
      <3>4. QED
        BY <2>2, <3>1, <3>2, <3>3 DEF threadStep
    <2>3. CASE stopStep /\ UNCHANGED coroVars
      BY <2>3 DEF JobQueueNext
    <2>4. QED
      BY <1>5, <2>1, <2>2, <2>3 DEF runStep
  <1>6. CASE UNCHANGED vars
    BY <1>6 DEF vars
  <1>7. QED
    BY <1>1, <1>2, <1>3, <1>4, <1>5, <1>6 DEF Next

(* The invariant holds in every state of the queue with its coroutines.    *)
LEMMA Invariance == Spec => []QueueInv
  <1>1. Init => QueueInv
    BY InitInv DEF Init
  <1>2. QueueInv /\ [Next]_vars => QueueInv'
    BY CoroStepIsQueueStep, NextInv
  <1>3. QED
    BY <1>1, <1>2, PTL DEF Spec

(* The counters of jobData_ always say what is queued and what runs, the   *)
(* limit of a type is never exceeded, and a job is deferred only while the *)
(* slots of its type are taken, for any number of workers, jobs and types. *)
THEOREM CountersAlwaysMatch == Spec => []CountersMatch
  <1>1. QueueInv => CountersMatch
    BY DEF QueueInv
  <1>2. QED
    BY <1>1, Invariance, PTL
-----------------------------------------------------------------------------
(* The semaphore: its signals stand for a job that may run or, once the    *)
(* queue has stopped, for a worker to pause.                               *)
At(P) == {w \in Threads : at[w] \in P}
N(P) == Cardinality(At(P))

(* The workers that took a signal for a job, for a pause, and those that   *)
(* have paused.                                                            *)
Woken == {"woken", "task", "process"}
Pausing == {"woken", "mayPause"}
Parked == {"paused", "last", "parked", "exited"}

(* The jobs of a type that were signalled and not taken, and one element   *)
(* for each of them.                                                       *)
Open(t) == data[t].waiting - data[t].deferred
Slots == {s \in Types \X Nat : 1 <= s[2] /\ s[2] <= Open(s[1])}

(* Until stop() returns each signal is matched by a job of a type below    *)
(* its limit, and no worker pauses; from then on each is matched by a      *)
(* pause that a worker is to take.                                         *)
Serving ==
    /\ pauseCount = 0 /\ numberOfThreads = Cardinality(Threads)
    /\ At(Parked) = {} /\ At({"mayPause"}) = {}
    /\ count + N(Woken) = Cardinality(Slots)

Resizing ==
    /\ At({"task", "process"}) = {}
    /\ count + N(Pausing) + (IF stopper = "signal" THEN 1 ELSE 0) = pauseCount
    /\ numberOfThreads + pauseCount + N(Parked) = Cardinality(Threads)

TokenInv ==
    /\ count \in Nat /\ pauseCount \in Nat /\ numberOfThreads \in Nat
    /\ IsFiniteSet(Slots)
    /\ stopper \notin AfterStop => Serving
    /\ stopper \in AfterStop => Resizing
    /\ stopper = "gone" => Exited = Threads
-----------------------------------------------------------------------------
LEMMA Counted ==
    ASSUME NEW P
    PROVE  IsFiniteSet(At(P)) /\ N(P) \in Nat /\ (N(P) = 0 <=> At(P) = {})
  <1>1. At(P) \subseteq Threads
    BY DEF At
  <1>2. IsFiniteSet(At(P))
    BY <1>1, FS_Subset, JobQueueAssumption
  <1>3. QED
    BY <1>2, FS_CardinalityType, FS_EmptySet DEF N

(* A worker that moves is counted where it goes and no longer where it was.*)
LEMMA MoveCounts ==
    ASSUME at \in [Threads -> Places], NEW w \in Threads, NEW to, at' = [at EXCEPT ![w] = to],
           NEW P
    PROVE  /\ at[w] \in P /\ to \notin P => N(P)' = N(P) - 1
           /\ at[w] \notin P /\ to \in P => N(P)' = N(P) + 1
           /\ (at[w] \in P <=> to \in P) => N(P)' = N(P) /\ At(P)' = At(P)
  <1>1. /\ at'[w] = to
        /\ \A v \in Threads : v /= w => at'[v] = at[v]
    OBVIOUS
  <1>2. ASSUME at[w] \in P, to \notin P PROVE N(P)' = N(P) - 1
    <2>1. At(P)' = At(P) \ {w} /\ w \in At(P)
      BY <1>1, <1>2, Zenon DEF At
    <2>2. Cardinality(At(P) \ {w}) = Cardinality(At(P)) - 1
      BY <2>1, Counted, FS_RemoveElement, Zenon
    <2>3. QED
      BY <2>1, <2>2, Zenon DEF N
  <1>3. ASSUME at[w] \notin P, to \in P PROVE N(P)' = N(P) + 1
    <2>1. At(P)' = At(P) \cup {w} /\ w \notin At(P)
      BY <1>1, <1>3, Zenon DEF At
    <2>2. Cardinality(At(P) \cup {w}) = Cardinality(At(P)) + 1
      BY <2>1, Counted, FS_AddElement, Zenon
    <2>3. QED
      BY <2>1, <2>2, Zenon DEF N
  <1>4. ASSUME at[w] \in P <=> to \in P PROVE N(P)' = N(P) /\ At(P)' = At(P)
    <2>1. At(P)' = At(P)
      BY <1>1, <1>4, Zenon DEF At
    <2>2. QED
      BY <2>1, Zenon DEF N
  <1>5. QED
    BY <1>2, <1>3, <1>4, Zenon

LEMMA OpenType == ASSUME QueueInv, NEW t \in Types PROVE Open(t) \in Nat
  <1>1. /\ data[t].waiting \in Nat /\ data[t].deferred \in Nat
        /\ data[t].deferred <= data[t].waiting
    BY TypeCounters DEF Slotted
  <1>2. QED
    BY <1>1 DEF Open

LEMMA SamePairs ==
    ASSUME NEW S, NEW T, S \subseteq Types \X Nat, T \subseteq Types \X Nat,
           \A u \in Types, i \in Nat : <<u, i>> \in S <=> <<u, i>> \in T
    PROVE  S = T
  <1>1. ASSUME NEW x \in Types \X Nat PROVE x \in S <=> x \in T
    <2>1. PICK u \in Types, i \in Nat : x = <<u, i>>
      OBVIOUS
    <2>2. QED
      BY <2>1, Zenon
  <1>2. QED
    BY <1>1, Zenon

(* A step that leaves the open jobs of every type alone leaves the slots.  *)
LEMMA SlotsStay ==
    ASSUME \A u \in Types : Open(u)' = Open(u)
    PROVE  Slots' = Slots
  BY Zenon DEF Slots

(* One more open job of a type is one more slot.                           *)
LEMMA SlotsGrow ==
    ASSUME QueueInv, IsFiniteSet(Slots), NEW t \in Types, Open(t)' = Open(t) + 1,
           \A u \in Types \ {t} : Open(u)' = Open(u)
    PROVE  IsFiniteSet(Slots)' /\ Cardinality(Slots)' = Cardinality(Slots) + 1
  <1> DEFINE s == <<t, Open(t) + 1>>
  <1>1. Open(t) \in Nat
    BY OpenType
  <1>2. s \notin Slots
    BY <1>1 DEF Slots
  <1>3. ASSUME NEW i \in Nat, 1 <= i PROVE i <= Open(t) + 1 <=> i <= Open(t) \/ i = Open(t) + 1
    BY <1>1, <1>3
  <1>4. Slots' = Slots \cup {s}
    <2>1. ASSUME NEW u \in Types, NEW i \in Nat
          PROVE  <<u, i>> \in Slots' <=> <<u, i>> \in Slots \cup {s}
      <3>1. CASE u = t
        BY <1>1, <1>3, <3>1 DEF Slots
      <3>2. CASE u /= t
        <4>1. Open(u)' = Open(u)
          BY <3>2
        <4>2. QED
          BY <3>2, <4>1 DEF Slots
      <3>3. QED
        BY <3>1, <3>2
    <2>2. s \in Types \X Nat
      BY <1>1
    <2>3. Slots \cup {s} \subseteq Types \X Nat /\ Slots' \subseteq Types \X Nat
      BY <2>2, Zenon DEF Slots
    <2>4. \A u \in Types, i \in Nat : <<u, i>> \in Slots' <=> <<u, i>> \in Slots \cup {s}
      BY <2>1, Zenon
    <2>5. QED
      BY ONLY <2>3, <2>4, SamePairs, SMT
  <1>5. QED
    BY <1>2, <1>4, FS_AddElement, Zenon

(* One open job of a type fewer is one slot fewer.                         *)
LEMMA SlotsShrink ==
    ASSUME QueueInv, IsFiniteSet(Slots), NEW t \in Types, Open(t) > 0, Open(t)' = Open(t) - 1,
           \A u \in Types \ {t} : Open(u)' = Open(u)
    PROVE  IsFiniteSet(Slots)' /\ Cardinality(Slots)' = Cardinality(Slots) - 1
  <1> DEFINE s == <<t, Open(t)>>
  <1>1. Open(t) \in Nat
    BY OpenType
  <1>2. s \in Slots
    BY <1>1 DEF Slots
  <1>3. ASSUME NEW i \in Nat PROVE i <= Open(t) - 1 <=> i <= Open(t) /\ i /= Open(t)
    BY <1>1, <1>3
  <1>4. Slots' = Slots \ {s}
    <2>1. ASSUME NEW u \in Types, NEW i \in Nat
          PROVE  <<u, i>> \in Slots' <=> <<u, i>> \in Slots \ {s}
      <3>1. CASE u = t
        BY <1>1, <1>3, <3>1 DEF Slots
      <3>2. CASE u /= t
        <4>1. Open(u)' = Open(u)
          BY <3>2
        <4>2. QED
          BY <3>2, <4>1 DEF Slots
      <3>3. QED
        BY <3>1, <3>2
    <2>2. Slots \ {s} \subseteq Types \X Nat /\ Slots' \subseteq Types \X Nat
      BY Zenon DEF Slots
    <2>3. \A u \in Types, i \in Nat : <<u, i>> \in Slots' <=> <<u, i>> \in Slots \ {s}
      BY <2>1, Zenon
    <2>4. QED
      BY ONLY <2>2, <2>3, SamePairs, SMT
  <1>5. QED
    BY <1>2, <1>4, FS_RemoveElement, Zenon
-----------------------------------------------------------------------------
LEMMA InitTokens == ASSUME JobQueueInit PROVE TokenInv
  <1>1. /\ count = 0 /\ pauseCount = 0 /\ numberOfThreads = Cardinality(Threads)
        /\ stopper = "up" /\ at = [w \in Threads |-> "start"]
    BY DEF JobQueueInit
  <1>2. ASSUME NEW t \in Types PROVE Open(t) = 0
    <2>1. data[t] = [waiting |-> 0, running |-> 0, deferred |-> 0]
      BY <1>2 DEF JobQueueInit
    <2>2. QED
      BY <2>1 DEF Open
  <1>3. Slots = {}
    <2>1. ASSUME NEW s \in Slots PROVE FALSE
      <3>1. PICK t \in Types, i \in Nat : s = <<t, i>>
        BY <2>1 DEF Slots
      <3>2. 1 <= i /\ i <= Open(t)
        BY <2>1, <3>1 DEF Slots
      <3>3. QED
        BY <1>2, <3>2
    <2>2. QED
      BY <2>1, Zenon
  <1>4. IsFiniteSet(Slots) /\ Cardinality(Slots) = 0
    BY <1>3, FS_EmptySet
  <1>5. At(Parked) = {} /\ At({"mayPause"}) = {} /\ At(Woken) = {}
    BY <1>1 DEF At, Parked, Woken
  <1>6. N(Woken) = 0
    BY <1>5, Counted, Zenon
  <1>7. Cardinality(Threads) \in Nat
    BY FS_CardinalityType, JobQueueAssumption
  <1>8. Serving
    BY <1>1, <1>4, <1>5, <1>6 DEF Serving
  <1>9. stopper \notin AfterStop /\ stopper /= "gone"
    BY <1>1 DEF AfterStop
  <1>10. QED
    BY <1>1, <1>4, <1>7, <1>8, <1>9 DEF TokenInv

(* A worker that moves has not exited, so the queue is not destroyed.      *)
LEMMA NotGone ==
    ASSUME TokenInv, NEW w \in Threads, at[w] /= "exited"
    PROVE  stopper /= "gone"
  BY DEF TokenInv, Exited

(* The workers that took a signal and those that paused stay the same.     *)
SamePlaces ==
    /\ At(Woken)' = At(Woken) /\ At(Pausing)' = At(Pausing) /\ At(Parked)' = At(Parked)
    /\ At({"mayPause"})' = At({"mayPause"})
    /\ At({"task", "process"})' = At({"task", "process"})

(* The stopping thread stays on its side of the end of stop().             *)
SameSide ==
    /\ stopper' \in AfterStop <=> stopper \in AfterStop
    /\ stopper' = "signal" <=> stopper = "signal"
    /\ stopper' = "gone" => Exited' = Threads

(* A step that moves no signal, pause or open job.                         *)
LEMMA QuietTokens ==
    ASSUME TokenInv, UNCHANGED <<count, pauseCount, numberOfThreads>>,
           \A u \in Types : Open(u)' = Open(u), SamePlaces, SameSide
    PROVE  TokenInv'
  <1>1. Slots' = Slots
    BY SlotsStay, Zenon
  <1>2. N(Woken)' = N(Woken) /\ N(Pausing)' = N(Pausing) /\ N(Parked)' = N(Parked)
    BY Zenon DEF SamePlaces, N
  <1>3. Serving => Serving'
    BY <1>1, <1>2, Zenon DEF Serving, SamePlaces
  <1>4. Resizing => Resizing'
    <2>1. (stopper' = "signal") = (stopper = "signal")
      BY DEF SameSide
    <2>2. QED
      BY <1>2, <2>1, Zenon DEF Resizing, SamePlaces
  <1>5. QED
    BY <1>1, <1>3, <1>4, Zenon DEF TokenInv, SameSide

LEMMA NobodyMoves == ASSUME UNCHANGED at PROVE SamePlaces
  BY Zenon DEF SamePlaces, At

(* A worker that moves within the same of these places.                    *)
LEMMA QuietMove ==
    ASSUME QueueInv, TokenInv, NEW w \in Threads, NEW to, at' = [at EXCEPT ![w] = to],
           UNCHANGED <<count, pauseCount, numberOfThreads, data>>,
           at[w] /= "exited",
           stopper' = stopper \/ (stopper = "pauseAsleep" /\ stopper' = "pausing")
                              \/ (stopper = "joinAsleep" /\ stopper' = "join"),
           at[w] \in Woken <=> to \in Woken, at[w] \in Pausing <=> to \in Pausing,
           at[w] \in Parked <=> to \in Parked, at[w] = "mayPause" <=> to = "mayPause",
           at[w] \in {"task", "process"} <=> to \in {"task", "process"}
    PROVE  TokenInv'
  <1>1. at \in [Threads -> Places]
    BY DEF QueueInv, QueueTypes
  <1>2. SamePlaces
    <2>1. at[w] \in {"mayPause"} <=> to \in {"mayPause"}
      OBVIOUS
    <2>2. /\ At(Woken)' = At(Woken) /\ At(Pausing)' = At(Pausing) /\ At(Parked)' = At(Parked)
      BY <1>1, MoveCounts, Zenon
    <2>3. At({"mayPause"})' = At({"mayPause"})
      BY <1>1, <2>1, MoveCounts, Zenon
    <2>4. At({"task", "process"})' = At({"task", "process"})
      BY <1>1, MoveCounts, Zenon
    <2>5. QED
      BY <2>2, <2>3, <2>4, Zenon DEF SamePlaces
  <1>3. SameSide
    <2>1. stopper /= "gone"
      BY NotGone, Zenon
    <2>2. QED
      BY <2>1 DEF SameSide, AfterStop
  <1>4. \A u \in Types : Open(u)' = Open(u)
    BY Zenon DEF Open
  <1>5. QED
    BY <1>2, <1>3, <1>4, QuietTokens, Zenon
-----------------------------------------------------------------------------
(* The steps that move signals, pauses and open jobs.                      *)

LEMMA AddTokens ==
    ASSUME QueueInv, TokenInv, NEW j \in Jobs, addRefCountedJob(j)
    PROVE  TokenInv'
  <1>0. PICK t : t = TypeOf[j]
    OBVIOUS
  <1>1. /\ UNCHANGED <<pauseCount, numberOfThreads, at, stopper>> /\ j \in adding
        /\ count' = IF Signalled(t) THEN count + 1 ELSE count
    BY <1>0 DEF addRefCountedJob
  <1>2. t \in Types
    BY <1>0, TypeOfJob
  <1>3. stopper \notin AfterStop /\ stopper /= "gone"
    <2>1. Closures /= {}
      BY <1>1 DEF Closures
    <2>2. QED
      BY <2>1 DEF QueueInv, Stages, AfterStop
  <1>4. /\ data'[t].waiting = data[t].waiting + 1
        /\ data'[t].deferred = IF Signalled(t) THEN data[t].deferred ELSE data[t].deferred + 1
        /\ \A u \in Types \ {t} : data'[u] = data[u]
    BY <1>0, AddCounts, Zenon
  <1>5. \A u \in Types \ {t} : Open(u)' = Open(u)
    BY <1>4, Zenon DEF Open
  <1>6. data[t].waiting \in Nat /\ data[t].deferred \in Nat
    BY <1>2, TypeCounters
  <1>7. SamePlaces
    BY <1>1, NobodyMoves, Zenon
  <1>8. CASE Signalled(t)
    <2>1. Open(t)' = Open(t) + 1
      <3>1. data'[t].waiting = data[t].waiting + 1 /\ data'[t].deferred = data[t].deferred
        BY <1>4, <1>8, Zenon
      <3>2. QED
        BY <1>6, <3>1 DEF Open
    <2>2. IsFiniteSet(Slots) /\ Serving /\ count \in Nat
      BY <1>3, Zenon DEF TokenInv
    <2>3. IsFiniteSet(Slots)' /\ Cardinality(Slots)' = Cardinality(Slots) + 1
      BY <1>2, <1>5, <2>1, <2>2, SlotsGrow, Zenon
    <2>4. N(Woken)' = N(Woken) /\ N(Woken) \in Nat /\ Cardinality(Slots) \in Nat
      BY <1>7, <2>2, Counted, FS_CardinalityType, Zenon DEF SamePlaces, N
    <2>5. count' = count + 1
      BY <1>1, <1>8, Zenon
    <2>6. count' + N(Woken)' = Cardinality(Slots)' /\ count' \in Nat
      <3>1. count + N(Woken) = Cardinality(Slots)
        BY <2>2, Zenon DEF Serving
      <3>2. QED
        BY <2>2, <2>3, <2>4, <2>5, <3>1
    <2>7. Serving'
      BY <1>1, <1>7, <2>2, <2>6, Zenon DEF Serving, SamePlaces
    <2>8. QED
      BY <1>1, <1>3, <2>3, <2>6, <2>7, Zenon DEF TokenInv
  <1>9. CASE ~Signalled(t)
    <2>1. Open(t)' = Open(t)
      BY <1>4, <1>6, <1>9 DEF Open
    <2>2. \A u \in Types : Open(u)' = Open(u)
      BY <1>5, <2>1, Zenon
    <2>3. SameSide
      BY <1>1, <1>3, Zenon DEF SameSide
    <2>4. QED
      BY <1>1, <1>7, <1>9, <2>2, <2>3, QuietTokens, Zenon
  <1>10. QED
    BY <1>8, <1>9, Zenon

LEMMA TakeTokens ==
    ASSUME QueueInv, TokenInv, NEW w \in Threads, getNextJob(w)
    PROVE  TokenInv'
  <1>1. PICK j \in Runnable :
           /\ Goes(w, "process", "body")
           /\ data' = [data EXCEPT ![TypeOf[j]].waiting = @ - 1, ![TypeOf[j]].running = @ + 1]
           /\ UNCHANGED <<count, pauseCount, numberOfThreads, stopper>>
    BY ZenonT(30) DEF getNextJob, pool
  <1>2. j \in Jobs /\ fate[j] = "queued" /\ data[TypeOf[j]].running < Limit[TypeOf[j]]
    BY DEF Runnable, jobSet
  <1>3. PICK t : t = TypeOf[j]
    OBVIOUS
  <1>4. t \in Types /\ Limit[t] \in Nat
    BY <1>2, <1>3, TypeOfJob
  <1>5. at[w] = "process" /\ at' = [at EXCEPT ![w] = "body"] /\ at \in [Threads -> Places]
    BY <1>1 DEF Goes, QueueInv, QueueTypes
  <1>6. stopper \notin AfterStop /\ stopper /= "gone"
    <2>1. w \in At({"task", "process"})
      BY <1>5 DEF At
    <2>2. QED
      BY <2>1 DEF TokenInv, Resizing, AfterStop
  <1>7. /\ data'[t].waiting = data[t].waiting - 1 /\ data'[t].deferred = data[t].deferred
        /\ \A u \in Types \ {t} : data'[u] = data[u]
    <2>1. data \in [Types -> Counts]
      BY DEF QueueInv, QueueTypes
    <2>2. QED
      BY <1>1, <1>3, <1>4, <2>1, CountTaken, Zenon
  <1>8. Open(t) > 0 /\ Open(t)' = Open(t) - 1
    <2>1. /\ data[t].waiting \in Nat /\ data[t].running \in Nat /\ data[t].deferred \in Nat
          /\ Slotted(data[t].waiting, data[t].running, data[t].deferred, Limit[t])
          /\ data[t].waiting = Cardinality(QueuedOf(t))
      BY <1>4, TypeCounters
    <2>2. j \in QueuedOf(t)
      BY <1>2, <1>3 DEF QueuedOf
    <2>3. Cardinality(QueuedOf(t)) /= 0
      BY <2>2, CountedFinite, FS_EmptySet, Zenon
    <2>4. data[t].running < Limit[t]
      BY <1>2, <1>3, Zenon
    <2>5. Limit[t] \in Nat
      BY <1>4, JobQueueAssumption
    <2>6. data[t].waiting - data[t].deferred > 0
      BY <2>1, <2>3, <2>4, <2>5, FreeSlot, Zenon
    <2>7. data'[t].waiting = data[t].waiting - 1 /\ data'[t].deferred = data[t].deferred
      BY <1>7, Zenon
    <2>8. \A m, d \in Nat : (m - 1) - d = (m - d) - 1
      OBVIOUS
    <2>9. QED
      BY <2>1, <2>6, <2>7, <2>8, Zenon DEF Open
  <1>9. \A u \in Types \ {t} : Open(u)' = Open(u)
    BY <1>7, Zenon DEF Open
  <1>10. IsFiniteSet(Slots) /\ Serving /\ count \in Nat
    BY <1>6, Zenon DEF TokenInv
  <1>11. IsFiniteSet(Slots)' /\ Cardinality(Slots)' = Cardinality(Slots) - 1
    BY <1>4, <1>8, <1>9, <1>10, SlotsShrink, Zenon
  <1>12. /\ N(Woken)' = N(Woken) - 1 /\ At(Parked)' = At(Parked)
         /\ At({"mayPause"})' = At({"mayPause"})
    <2>1. /\ "process" \in Woken /\ "body" \notin Woken /\ "process" \notin Parked
          /\ "body" \notin Parked /\ "process" \notin {"mayPause"} /\ "body" \notin {"mayPause"}
      BY DEF Woken, Parked
    <2>2. QED
      BY <1>5, <2>1, MoveCounts, Zenon
  <1>13. N(Woken) \in Nat /\ Cardinality(Slots) \in Nat
    BY <1>10, Counted, FS_CardinalityType, Zenon
  <1>14. count' + N(Woken)' = Cardinality(Slots)'
    <2>1. count + N(Woken) = Cardinality(Slots) /\ count' = count
      BY <1>1, <1>10, Zenon DEF Serving
    <2>2. QED
      BY <1>10, <1>11, <1>12, <1>13, <2>1
  <1>15. Serving'
    BY <1>1, <1>10, <1>12, <1>14, Zenon DEF Serving
  <1>16. QED
    BY <1>1, <1>6, <1>11, <1>15, Zenon DEF TokenInv

LEMMA FinishTokens ==
    ASSUME QueueInv, TokenInv, NEW w \in Threads, finishJob(w)
    PROVE  TokenInv'
  <1>0. PICK t : t = TypeOf[job[w]]
    OBVIOUS
  <1>1. /\ at[w] = "finish" /\ at' = [at EXCEPT ![w] = "finished"]
        /\ count' = IF data[t].deferred > 0 THEN count + 1 ELSE count
        /\ UNCHANGED <<pauseCount, numberOfThreads>>
        /\ stopper' = stopper \/ (stopper = "drainAsleep" /\ stopper' = "drain")
        /\ data' = [data EXCEPT ![t].deferred = IF data[t].deferred > 0 THEN @ - 1 ELSE @,
                                ![t].running = @ - 1]
    BY <1>0 DEF finishJob, Goes
  <1>2. t \in Types
    <2>1. job[w] \in Jobs
      BY <1>1 DEF QueueInv, Ownership
    <2>2. QED
      BY <1>0, <2>1, TypeOfJob
  <1>3. stopper \notin AfterStop /\ stopper' \notin AfterStop /\ stopper' /= "gone"
    <2>1. Holders /= {}
      BY <1>1 DEF Holders, Holding
    <2>2. QED
      BY <1>1, <2>1 DEF QueueInv, Stages, AfterStop
  <1>4. /\ data'[t].waiting = data[t].waiting
        /\ data'[t].deferred = IF data[t].deferred > 0 THEN data[t].deferred - 1
                                                       ELSE data[t].deferred
        /\ \A u \in Types \ {t} : data'[u] = data[u]
    <2>1. data \in [Types -> Counts]
      BY DEF QueueInv, QueueTypes
    <2>2. QED
      BY <1>1, <1>2, <2>1, CountFinished, Zenon
  <1>5. \A u \in Types \ {t} : Open(u)' = Open(u)
    BY <1>4, Zenon DEF Open
  <1>6. data[t].waiting \in Nat /\ data[t].deferred \in Nat
    BY <1>2, TypeCounters
  <1>7. SamePlaces /\ N(Woken)' = N(Woken)
    <2>1. /\ "finish" \notin Woken /\ "finished" \notin Woken /\ "finish" \notin Parked
          /\ "finished" \notin Parked /\ "finish" \notin Pausing /\ "finished" \notin Pausing
          /\ "finish" \notin {"mayPause"} /\ "finished" \notin {"mayPause"}
          /\ "finish" \notin {"task", "process"} /\ "finished" \notin {"task", "process"}
      BY DEF Woken, Parked, Pausing
    <2>2. at \in [Threads -> Places]
      BY DEF QueueInv, QueueTypes
    <2>3. QED
      BY <1>1, <2>1, <2>2, MoveCounts, Zenon DEF SamePlaces
  <1>8. CASE data[t].deferred > 0
    <2>1. Open(t)' = Open(t) + 1
      BY <1>4, <1>6, <1>8 DEF Open
    <2>2. IsFiniteSet(Slots) /\ Serving /\ count \in Nat
      BY <1>3, Zenon DEF TokenInv
    <2>3. IsFiniteSet(Slots)' /\ Cardinality(Slots)' = Cardinality(Slots) + 1
      BY <1>2, <1>5, <2>1, <2>2, SlotsGrow, Zenon
    <2>4. N(Woken) \in Nat /\ Cardinality(Slots) \in Nat
      BY <2>2, Counted, FS_CardinalityType, Zenon
    <2>5. count' = count + 1
      BY <1>1, <1>8, Zenon
    <2>6. count' + N(Woken)' = Cardinality(Slots)' /\ count' \in Nat
      <3>1. count + N(Woken) = Cardinality(Slots)
        BY <2>2, Zenon DEF Serving
      <3>2. QED
        BY <1>7, <2>2, <2>3, <2>4, <2>5, <3>1
    <2>7. Serving'
      BY <1>1, <1>7, <2>2, <2>6, Zenon DEF Serving, SamePlaces
    <2>8. QED
      BY <1>1, <1>3, <2>3, <2>6, <2>7, Zenon DEF TokenInv
  <1>9. CASE ~(data[t].deferred > 0)
    <2>1. Open(t)' = Open(t)
      BY <1>4, <1>9, Zenon DEF Open
    <2>2. \A u \in Types : Open(u)' = Open(u)
      BY <1>5, <2>1, Zenon
    <2>3. SameSide
      <3>1. stopper' /= "signal" /\ stopper /= "signal"
        BY <1>3 DEF AfterStop
      <3>2. QED
        BY <1>1, <1>3, <3>1, Zenon DEF SameSide
    <2>4. count' = count
      BY <1>1, <1>9, Zenon
    <2>5. QED
      BY <1>1, <1>7, <2>2, <2>3, <2>4, QuietTokens, Zenon
  <1>10. QED
    BY <1>8, <1>9, Zenon

(* A worker takes a signal off the semaphore.                              *)
LEMMA AcquireTokens ==
    ASSUME QueueInv, TokenInv, NEW w \in Threads, acquireTask(w)
    PROVE  TokenInv'
  <1>1. /\ at[w] = "idle" /\ at' = [at EXCEPT ![w] = "woken"]
        /\ count > 0 /\ count' = count - 1
        /\ UNCHANGED <<pauseCount, numberOfThreads, stopper, data>>
    BY DEF acquireTask, Goes, counters
  <1>2. at \in [Threads -> Places] /\ count \in Nat
    BY DEF QueueInv, QueueTypes, TokenInv
  <1>3. /\ "idle" \notin Woken /\ "woken" \in Woken /\ "idle" \notin Pausing
        /\ "woken" \in Pausing /\ "idle" \notin Parked /\ "woken" \notin Parked
        /\ "idle" \notin {"mayPause"} /\ "woken" \notin {"mayPause"}
        /\ "idle" \notin {"task", "process"} /\ "woken" \notin {"task", "process"}
    BY DEF Woken, Pausing, Parked
  <1>4. /\ N(Woken)' = N(Woken) + 1 /\ N(Pausing)' = N(Pausing) + 1
        /\ N(Parked)' = N(Parked) /\ At(Parked)' = At(Parked)
        /\ At({"mayPause"})' = At({"mayPause"})
        /\ At({"task", "process"})' = At({"task", "process"})
    BY <1>1, <1>2, <1>3, MoveCounts, Zenon
  <1>5. N(Woken) \in Nat /\ N(Pausing) \in Nat
    BY Counted, Zenon
  <1>6. count' \in Nat /\ count' + N(Woken)' = count + N(Woken)
        /\ count' + N(Pausing)' = count + N(Pausing)
    BY <1>1, <1>2, <1>4, <1>5
  <1>7. Slots' = Slots
    <2>1. \A u \in Types : Open(u)' = Open(u)
      BY <1>1, Zenon DEF Open
    <2>2. QED
      BY <2>1, SlotsStay, Zenon
  <1>8. Serving => Serving'
    BY <1>1, <1>4, <1>6, <1>7, Zenon DEF Serving
  <1>9. Resizing => Resizing'
    BY <1>1, <1>4, <1>6, Zenon DEF Resizing
  <1>10. stopper' /= "gone"
    <2>1. at[w] /= "exited"
      BY <1>1
    <2>2. QED
      BY <1>1, <2>1, NotGone, Zenon
  <1>11. QED
    BY <1>1, <1>6, <1>7, <1>8, <1>9, <1>10, Zenon DEF TokenInv

(* A woken worker finds pauses pending just when the queue has stopped.    *)
LEMMA LoadTokens ==
    ASSUME QueueInv, TokenInv, NEW w \in Threads, loadPauseCount(w)
    PROVE  TokenInv'
  <1>1. /\ at[w] = "woken" /\ at' = [at EXCEPT ![w] = IF pauseCount > 0 THEN "mayPause" ELSE "task"]
        /\ UNCHANGED <<count, pauseCount, numberOfThreads, stopper, data>>
    BY DEF loadPauseCount, Goes, counters, pool
  <1>2. /\ at \in [Threads -> Places] /\ count \in Nat /\ pauseCount \in Nat
    BY DEF QueueInv, QueueTypes, TokenInv
  <1>3. at[w] = "woken" /\ at[w] /= "exited"
    BY <1>1
  <1>4. stopper /= "gone"
    BY <1>3, NotGone, Zenon
  <1>5. /\ "woken" \in Woken /\ "task" \in Woken
        /\ "woken" \in Pausing /\ "mayPause" \in Pausing
        /\ "woken" \notin Parked /\ "mayPause" \notin Parked /\ "task" \notin Parked
        /\ "woken" \notin {"mayPause"} /\ "task" \notin {"mayPause"}
        /\ "woken" \notin {"task", "process"} /\ "mayPause" \notin {"task", "process"}
    BY DEF Woken, Pausing, Parked
  <1>6. Slots' = Slots
    <2>1. \A u \in Types : Open(u)' = Open(u)
      BY <1>1, Zenon DEF Open
    <2>2. QED
      BY <2>1, SlotsStay, Zenon
  <1>7. CASE stopper \notin AfterStop
    <2>1. Serving
      BY <1>7, Zenon DEF TokenInv
    <2>2. at' = [at EXCEPT ![w] = "task"]
      BY <1>1, <2>1 DEF Serving
    <2>3. /\ N(Woken)' = N(Woken) /\ At(Parked)' = At(Parked)
          /\ At({"mayPause"})' = At({"mayPause"})
      BY <1>2, <1>3, <1>5, <2>2, MoveCounts, Zenon
    <2>4. Serving'
      BY <1>1, <1>6, <2>1, <2>3, Zenon DEF Serving
    <2>5. QED
      BY <1>1, <1>4, <1>6, <1>7, <2>4, Zenon DEF TokenInv
  <1>8. CASE stopper \in AfterStop
    <2>1. Resizing
      BY <1>8, Zenon DEF TokenInv
    <2>2. N(Pausing) \in Nat /\ N(Pausing) /= 0
      <3>1. w \in At(Pausing)
        BY <1>1, <1>5, Zenon DEF At
      <3>2. QED
        BY <3>1, Counted, Zenon
    <2>3. at' = [at EXCEPT ![w] = "mayPause"]
      <3>1. count + N(Pausing) + (IF stopper = "signal" THEN 1 ELSE 0) = pauseCount
        BY <2>1, Zenon DEF Resizing
      <3>2. pauseCount > 0
        BY <1>2, <2>2, <3>1
      <3>3. QED
        BY <1>1, <3>2, Zenon
    <2>4. /\ N(Pausing)' = N(Pausing) /\ N(Parked)' = N(Parked)
          /\ At({"task", "process"})' = At({"task", "process"})
      BY <1>2, <1>3, <1>5, <2>3, MoveCounts, Zenon
    <2>5. Resizing'
      BY <1>1, <2>1, <2>4, Zenon DEF Resizing
    <2>6. QED
      BY <1>1, <1>4, <1>6, <1>8, <2>5, Zenon DEF TokenInv
  <1>9. QED
    BY <1>7, <1>8, Zenon

(* A worker takes a pause.                                                 *)
LEMMA PauseTokens ==
    ASSUME QueueInv, TokenInv, NEW w \in Threads, tryPause(w)
    PROVE  TokenInv'
  <1>1. /\ at[w] = "mayPause" /\ at' = [at EXCEPT ![w] = IF pauseCount >= 1 THEN "paused" ELSE "task"]
        /\ pauseCount' = IF pauseCount >= 1 THEN pauseCount - 1 ELSE pauseCount
        /\ UNCHANGED <<count, numberOfThreads, stopper, data>>
    BY DEF tryPause, Goes, counters
  <1>2. /\ at \in [Threads -> Places] /\ count \in Nat /\ pauseCount \in Nat
        /\ numberOfThreads \in Nat
    BY DEF QueueInv, QueueTypes, TokenInv
  <1>3. at[w] = "mayPause" /\ at[w] /= "exited"
    BY <1>1
  <1>4. stopper /= "gone"
    BY <1>3, NotGone, Zenon
  <1>5. stopper \in AfterStop
    <2>1. w \in At({"mayPause"})
      BY <1>1 DEF At
    <2>2. QED
      BY <2>1 DEF TokenInv, Serving
  <1>6. Resizing
    BY <1>5, Zenon DEF TokenInv
  <1>7. /\ "mayPause" \in Pausing /\ "paused" \notin Pausing
        /\ "mayPause" \notin Parked /\ "paused" \in Parked
        /\ "mayPause" \notin {"task", "process"} /\ "paused" \notin {"task", "process"}
    BY DEF Pausing, Parked
  <1>8. N(Pausing) \in Nat /\ N(Parked) \in Nat /\ N(Pausing) /= 0
    <2>1. w \in At(Pausing)
      BY <1>1, <1>7, Zenon DEF At
    <2>2. QED
      BY <2>1, Counted, Zenon
  <1>9. PICK i : i = IF stopper = "signal" THEN 1 ELSE 0
    OBVIOUS
  <1>10. i \in Nat /\ i = IF stopper' = "signal" THEN 1 ELSE 0
    BY <1>1, <1>9
  <1>11. /\ count + N(Pausing) + i = pauseCount
         /\ numberOfThreads + pauseCount + N(Parked) = Cardinality(Threads)
    BY <1>6, <1>9, Zenon DEF Resizing
  <1>12. pauseCount >= 1
    BY <1>2, <1>8, <1>10, <1>11
  <1>13. at' = [at EXCEPT ![w] = "paused"] /\ pauseCount' = pauseCount - 1
    BY <1>1, <1>12, Zenon
  <1>14. /\ N(Pausing)' = N(Pausing) - 1 /\ N(Parked)' = N(Parked) + 1
         /\ At({"task", "process"})' = At({"task", "process"})
    BY <1>2, <1>3, <1>7, <1>13, MoveCounts, Zenon
  <1>15. /\ count' + N(Pausing)' + i = pauseCount' /\ pauseCount' \in Nat
         /\ numberOfThreads' + pauseCount' + N(Parked)' = numberOfThreads + pauseCount + N(Parked)
    BY <1>1, <1>2, <1>8, <1>10, <1>11, <1>12, <1>13, <1>14
  <1>16. Resizing'
    BY <1>6, <1>10, <1>11, <1>14, <1>15, Zenon DEF Resizing
  <1>17. Slots' = Slots
    <2>1. \A u \in Types : Open(u)' = Open(u)
      BY <1>1, Zenon DEF Open
    <2>2. QED
      BY <2>1, SlotsStay, Zenon
  <1>18. QED
    BY <1>1, <1>2, <1>4, <1>5, <1>15, <1>16, <1>17, Zenon DEF TokenInv

(* The end of stop(): no job is left, hence no signal.                     *)
LEMMA DrainTokens ==
    ASSUME QueueInv, TokenInv, drain
    PROVE  TokenInv'
  <1>1. /\ UNCHANGED <<count, pauseCount, numberOfThreads, at, data, fate>>
        /\ stopper = "drain" /\ stopper' \in {"resize", "drainAsleep"}
    BY DEF drain, counters, pool
  <1>2. \A u \in Types : Open(u)' = Open(u)
    BY <1>1, Zenon DEF Open
  <1>3. SamePlaces
    BY <1>1, NobodyMoves, Zenon
  <1>4. CASE stopper' = "drainAsleep"
    <2>1. SameSide
      BY <1>1, <1>4 DEF SameSide, AfterStop
    <2>2. QED
      BY <1>1, <1>2, <1>3, <2>1, QuietTokens, Zenon
  <1>5. CASE stopper' = "resize"
    <2>1. Serving /\ count \in Nat /\ pauseCount \in Nat /\ numberOfThreads \in Nat
      BY <1>1 DEF TokenInv, AfterStop
    <2>2. Closures = {}
      BY <1>1 DEF QueueInv, Stages
    <2>3. ASSUME NEW t \in Types PROVE Open(t) = 0
      <3>1. QueuedOf(t) = {}
        BY <2>2 DEF QueuedOf, Closures
      <3>2. Cardinality(QueuedOf(t)) = 0
        BY <3>1, FS_EmptySet, Zenon
      <3>3. /\ data[t].waiting \in Nat /\ data[t].running \in Nat /\ data[t].deferred \in Nat
            /\ Slotted(data[t].waiting, data[t].running, data[t].deferred, Limit[t])
            /\ data[t].waiting = Cardinality(QueuedOf(t))
        BY <2>3, TypeCounters
      <3>4. QED
        BY <3>2, <3>3 DEF Open, Slotted
    <2>4. Slots = {}
      <3>1. ASSUME NEW s \in Slots PROVE FALSE
        <4>1. PICK t \in Types, i \in Nat : s = <<t, i>>
          BY <3>1 DEF Slots
        <4>2. 1 <= i /\ i <= Open(t)
          BY <3>1, <4>1 DEF Slots
        <4>3. QED
          BY <2>3, <4>2
      <3>2. QED
        BY <3>1, Zenon
    <2>5. Cardinality(Slots) = 0
      BY <2>4, FS_EmptySet, Zenon
    <2>6. N(Woken) \in Nat /\ N(Pausing) \in Nat /\ N(Parked) \in Nat
      BY Counted, Zenon
    <2>7. count = 0 /\ N(Woken) = 0
      <3>1. count + N(Woken) = 0
        BY <2>1, <2>5, Zenon DEF Serving
      <3>2. QED
        BY <2>1, <2>6, <3>1
    <2>8. At(Woken) = {} /\ N(Parked) = 0
      BY <2>1, <2>7, Counted, Zenon DEF Serving
    <2>9. At({"task", "process"}) = {} /\ At(Pausing) = {}
      BY <2>1, <2>8 DEF At, Woken, Pausing, Serving
    <2>10. N(Pausing) = 0
      BY <2>9, Counted, Zenon
    <2>11. N(Pausing)' = N(Pausing) /\ N(Parked)' = N(Parked)
           /\ At({"task", "process"})' = At({"task", "process"})
      BY <1>3, Zenon DEF SamePlaces, N
    <2>12. pauseCount = 0 /\ numberOfThreads = Cardinality(Threads)
      BY <2>1, Zenon DEF Serving
    <2>13. /\ count' + N(Pausing)' + (IF stopper' = "signal" THEN 1 ELSE 0) = pauseCount'
           /\ numberOfThreads' + pauseCount' + N(Parked)' = Cardinality(Threads)
      BY <1>1, <1>5, <2>1, <2>7, <2>8, <2>10, <2>11, <2>12
    <2>14. Resizing'
      BY <2>9, <2>11, <2>13, Zenon DEF Resizing
    <2>15. Slots' = Slots
      BY <1>2, SlotsStay, Zenon
    <2>16. stopper' \in AfterStop /\ stopper' /= "gone"
      BY <1>5 DEF AfterStop
    <2>17. IsFiniteSet(Slots)
      BY Zenon DEF TokenInv
    <2>18. QED
      BY <1>1, <2>1, <2>14, <2>15, <2>16, <2>17, Zenon DEF TokenInv
  <1>6. QED
    BY <1>1, <1>4, <1>5

(* setNumberOfThreads(0) asks for a pause, and then signals it.            *)
LEMMA RequestTokens ==
    ASSUME QueueInv, TokenInv, requestPause \/ signalPause
    PROVE  TokenInv'
  <1>1. UNCHANGED <<at, data>> /\ stopper \in {"resize", "signal"}
    BY DEF requestPause, signalPause, counters
  <1>2. stopper \in AfterStop /\ stopper' \in AfterStop /\ stopper' /= "gone"
    BY DEF requestPause, signalPause, AfterStop
  <1>3. /\ Resizing /\ count \in Nat /\ pauseCount \in Nat /\ numberOfThreads \in Nat
        /\ IsFiniteSet(Slots)
    BY <1>2, Zenon DEF TokenInv
  <1>4. Slots' = Slots
    <2>1. \A u \in Types : Open(u)' = Open(u)
      BY <1>1, Zenon DEF Open
    <2>2. QED
      BY <2>1, SlotsStay, Zenon
  <1>5. /\ N(Pausing)' = N(Pausing) /\ N(Parked)' = N(Parked)
        /\ At({"task", "process"})' = At({"task", "process"})
    BY <1>1, NobodyMoves, Zenon DEF SamePlaces, N
  <1>6. N(Pausing) \in Nat /\ N(Parked) \in Nat
    BY Counted, Zenon
  <1>7. /\ At({"task", "process"}) = {}
        /\ count + N(Pausing) + (IF stopper = "signal" THEN 1 ELSE 0) = pauseCount
        /\ numberOfThreads + pauseCount + N(Parked) = Cardinality(Threads)
    BY <1>3, Zenon DEF Resizing
  <1>8. /\ count' \in Nat /\ pauseCount' \in Nat /\ numberOfThreads' \in Nat
        /\ count' + N(Pausing)' + (IF stopper' = "signal" THEN 1 ELSE 0) = pauseCount'
        /\ numberOfThreads' + pauseCount' + N(Parked)' = Cardinality(Threads)
    <2>1. CASE requestPause
      <3>1. /\ stopper = "resize" /\ stopper' = "signal" /\ numberOfThreads > 0
            /\ numberOfThreads' = numberOfThreads - 1 /\ pauseCount' = pauseCount + 1
            /\ count' = count
        BY <2>1 DEF requestPause
      <3>2. QED
        BY <1>3, <1>5, <1>6, <1>7, <3>1
    <2>2. CASE signalPause
      <3>1. /\ stopper = "signal" /\ stopper' = "resize" /\ count' = count + 1
            /\ numberOfThreads' = numberOfThreads /\ pauseCount' = pauseCount
        BY <2>2 DEF signalPause
      <3>2. QED
        BY <1>3, <1>5, <1>6, <1>7, <3>1
    <2>3. QED
      BY <2>1, <2>2
  <1>9. Resizing'
    BY <1>5, <1>7, <1>8, Zenon DEF Resizing
  <1>10. QED
    BY <1>2, <1>3, <1>4, <1>8, <1>9, Zenon DEF TokenInv

(* The steps of the stopping thread before and after these.                *)
LEMMA StopTokens == ASSUME QueueInv, TokenInv, stop \/ stopStep PROVE TokenInv'
  <1>1. ASSUME stop \/ joinClosures \/ awaitPaused \/ (\E w \in Threads : deleteWorker(w))
               \/ destroyed
        PROVE  TokenInv'
    <2>1. UNCHANGED <<count, pauseCount, numberOfThreads, at, data>>
      BY <1>1 DEF stop, joinClosures, awaitPaused, deleteWorker, destroyed, counters, pool
    <2>2. \A u \in Types : Open(u)' = Open(u)
      BY <2>1, Zenon DEF Open
    <2>3. SamePlaces
      BY <2>1, NobodyMoves, Zenon
    <2>4. Exited' = Exited
      BY <2>1, Zenon DEF Exited
    <2>5. SameSide
      <3>1. CASE stop
        BY <3>1 DEF stop, SameSide, AfterStop
      <3>2. CASE joinClosures
        BY <3>2 DEF joinClosures, SameSide, AfterStop
      <3>3. CASE awaitPaused
        BY <3>3 DEF awaitPaused, SameSide, AfterStop
      <3>4. CASE \E w \in Threads : deleteWorker(w)
        BY <3>4 DEF deleteWorker, SameSide, AfterStop
      <3>5. CASE destroyed
        BY <2>4, <3>5 DEF destroyed, SameSide, AfterStop
      <3>6. QED
        BY <1>1, <3>1, <3>2, <3>3, <3>4, <3>5
    <2>6. QED
      BY <2>1, <2>2, <2>3, <2>5, QuietTokens, Zenon
  <1>2. QED
    BY <1>1, DrainTokens, RequestTokens, Zenon DEF stopStep

(* The steps of posting threads and workers that move no signal.           *)
LEMMA PostTokens ==
    ASSUME QueueInv, TokenInv, NEW j \in Jobs, wrap(j) \/ addJobReturns(j)
    PROVE  TokenInv'
  <1>1. /\ UNCHANGED <<count, pauseCount, numberOfThreads, at, data>>
        /\ stopper' = stopper \/ (stopper = "joinAsleep" /\ stopper' = "join")
    BY DEF wrap, addJobReturns, NotifyClosuresDone, counters, pool
  <1>2. \A u \in Types : Open(u)' = Open(u)
    BY <1>1, Zenon DEF Open
  <1>3. SamePlaces
    BY <1>1, NobodyMoves, Zenon
  <1>4. SameSide
    BY <1>1 DEF SameSide, AfterStop, TokenInv, Exited
  <1>5. QED
    BY <1>1, <1>2, <1>3, <1>4, QuietTokens, Zenon

LEMMA WorkerTokens ==
    ASSUME QueueInv, TokenInv, NEW w \in Threads, workerStep(w) \/ doJob(w)
    PROVE  TokenInv'
  <1>1. CASE activate(w)
    <2>1. /\ at[w] = "start" /\ at' = [at EXCEPT ![w] = IF activeCount = 0 THEN "first" ELSE "idle"]
          /\ UNCHANGED <<count, pauseCount, numberOfThreads, data, stopper>>
      BY <1>1 DEF activate, Goes, counters
    <2>2. QED
      BY <2>1, QuietMove DEF Woken, Pausing, Parked
  <1>2. CASE resetAllPaused(w)
    <2>1. /\ at[w] = "first" /\ at' = [at EXCEPT ![w] = "idle"]
          /\ UNCHANGED <<count, pauseCount, numberOfThreads, data, stopper>>
      BY <1>2 DEF resetAllPaused, Goes, counters
    <2>2. QED
      BY <2>1, QuietMove DEF Woken, Pausing, Parked
  <1>3. CASE beginTask(w)
    <2>1. /\ at[w] = "task" /\ at' = [at EXCEPT ![w] = "process"]
          /\ UNCHANGED <<count, pauseCount, numberOfThreads, data, stopper>>
      BY <1>3 DEF beginTask, Goes, counters
    <2>2. QED
      BY <2>1, QuietMove DEF Woken, Pausing, Parked
  <1>4. CASE endTask(w)
    <2>1. /\ at[w] = "finished"
          /\ at' = [at EXCEPT ![w] = IF runningTaskCount = 1 THEN "notify" ELSE "idle"]
          /\ UNCHANGED <<count, pauseCount, numberOfThreads, data, stopper>>
      BY <1>4 DEF endTask, Goes, counters
    <2>2. QED
      BY <2>1, QuietMove DEF Woken, Pausing, Parked
  <1>5. CASE notifyNoTasks(w)
    <2>1. /\ at[w] = "notify" /\ at' = [at EXCEPT ![w] = "idle"]
          /\ UNCHANGED <<count, pauseCount, numberOfThreads, data>>
          /\ stopper' = stopper \/ (stopper = "pauseAsleep" /\ stopper' = "pausing")
      BY <1>5 DEF notifyNoTasks, WakePauser, Goes, counters, pool
    <2>2. QED
      BY <2>1, QuietMove DEF Woken, Pausing, Parked
  <1>6. CASE deactivate(w)
    <2>1. /\ at[w] = "paused" /\ at' = [at EXCEPT ![w] = IF activeCount = 1 THEN "last" ELSE "parked"]
          /\ UNCHANGED <<count, pauseCount, numberOfThreads, data, stopper>>
      BY <1>6 DEF deactivate, Goes, counters
    <2>2. QED
      BY <2>1, QuietMove DEF Woken, Pausing, Parked
  <1>7. CASE signalAllPaused(w)
    <2>1. /\ at[w] = "last" /\ at' = [at EXCEPT ![w] = "parked"]
          /\ UNCHANGED <<count, pauseCount, numberOfThreads, data>>
          /\ stopper' = stopper \/ (stopper = "pauseAsleep" /\ stopper' = "pausing")
      BY <1>7 DEF signalAllPaused, WakePauser, Goes, counters
    <2>2. QED
      BY <2>1, QuietMove DEF Woken, Pausing, Parked
  <1>8. CASE exitThread(w)
    <2>1. /\ at[w] = "parked" /\ at' = [at EXCEPT ![w] = "exited"]
          /\ UNCHANGED <<count, pauseCount, numberOfThreads, data, stopper>>
      BY <1>8 DEF exitThread, Goes, counters, pool
    <2>2. QED
      BY <2>1, QuietMove DEF Woken, Pausing, Parked
  <1>9. CASE doJob(w)
    <2>1. /\ at[w] = "body" /\ at' = [at EXCEPT ![w] = "finish"]
          /\ UNCHANGED <<count, pauseCount, numberOfThreads, data>>
          /\ stopper' = stopper \/ (stopper = "joinAsleep" /\ stopper' = "join")
      BY <1>9 DEF doJob, NotifyClosuresDone, Goes, pool
    <2>2. QED
      BY <2>1, QuietMove DEF Woken, Pausing, Parked
  <1>10. QED
    BY <1>1, <1>2, <1>3, <1>4, <1>5, <1>6, <1>7, <1>8, <1>9, AcquireTokens, LoadTokens,
       PauseTokens, TakeTokens, FinishTokens, Zenon DEF workerStep

LEMMA NextTokens == ASSUME QueueInv, TokenInv, [JobQueueNext]_jobQueueVars PROVE TokenInv'
  <1>1. CASE UNCHANGED jobQueueVars
    <2>1. UNCHANGED <<count, pauseCount, numberOfThreads, at, data, stopper>>
      BY <1>1 DEF jobQueueVars, counters, pool
    <2>2. \A u \in Types : Open(u)' = Open(u)
      BY <2>1, Zenon DEF Open
    <2>3. SamePlaces
      BY <2>1, NobodyMoves, Zenon
    <2>4. SameSide
      BY <2>1, Zenon DEF SameSide, TokenInv, Exited
    <2>5. QED
      BY <2>1, <2>2, <2>3, <2>4, QuietTokens, Zenon
  <1>2. QED
    BY <1>1, PostTokens, AddTokens, WorkerTokens, StopTokens, Zenon DEF JobQueueNext

LEMMA TokenInvariance == Spec => [](QueueInv /\ TokenInv)
  <1>1. Init => TokenInv
    BY InitTokens DEF Init
  <1>2. QueueInv /\ TokenInv /\ [Next]_vars => TokenInv'
    BY CoroStepIsQueueStep, NextTokens
  <1>3. QED
    BY <1>1, <1>2, Invariance, PTL DEF Spec
-----------------------------------------------------------------------------
(* However many workers were woken, and however posting, limits and        *)
(* finishing interleave, a worker on its way to getNextJob() finds a job   *)
(* of a type below its limit: the iterator is never end() (JobQueue.cpp).  *)
THEOREM NextJobAlwaysFound == Spec => []NextJobFound
  <1>1. ASSUME QueueInv, TokenInv PROVE NextJobFound
    <2>1. SUFFICES ASSUME NEW w \in Threads, at[w] \in {"task", "process"}
                   PROVE  Runnable /= {}
      BY DEF NextJobFound
    <2>2. Serving /\ count \in Nat /\ IsFiniteSet(Slots)
      <3>1. w \in At({"task", "process"})
        BY <2>1 DEF At
      <3>2. QED
        BY <1>1, <3>1 DEF TokenInv, Resizing
    <2>3. N(Woken) \in Nat /\ N(Woken) /= 0
      <3>1. w \in At(Woken)
        BY <2>1 DEF At, Woken
      <3>2. QED
        BY <3>1, Counted, Zenon
    <2>4. Cardinality(Slots) /= 0
      <3>1. count + N(Woken) = Cardinality(Slots)
        BY <2>2, Zenon DEF Serving
      <3>2. QED
        BY <2>2, <2>3, <3>1
    <2>5. PICK s : s \in Slots
      BY <2>4, FS_EmptySet, Zenon
    <2>6. PICK t \in Types, i \in Nat : s = <<t, i>>
      BY <2>5 DEF Slots
    <2>7. 1 <= i /\ i <= Open(t)
      BY <2>5, <2>6 DEF Slots
    <2>8. /\ data[t].waiting \in Nat /\ data[t].running \in Nat /\ data[t].deferred \in Nat
          /\ Slotted(data[t].waiting, data[t].running, data[t].deferred, Limit[t])
          /\ data[t].waiting = Cardinality(QueuedOf(t))
      BY <1>1, TypeCounters
    <2>9. Limit[t] \in Nat
      BY JobQueueAssumption
    <2>10. data[t].waiting /= 0 /\ data[t].running < Limit[t]
      <3>1. data[t].waiting - data[t].deferred > 0
        <4>1. \A k, m, d \in Nat : 1 <= k /\ k <= m - d => m - d > 0
          OBVIOUS
        <4>2. QED
          BY <2>7, <2>8, <4>1, Zenon DEF Open
      <3>2. QED
        BY <2>8, <2>9, <3>1, FreeSlot, Zenon
    <2>11. QueuedOf(t) /= {}
      BY <2>8, <2>10, FS_EmptySet, Zenon
    <2>12. PICK j \in Jobs : fate[j] = "queued" /\ TypeOf[j] = t
      BY <2>11, Zenon DEF QueuedOf
    <2>13. QED
      BY <2>10, <2>12 DEF Runnable, jobSet
  <1>2. QED
    BY <1>1, TokenInvariance, PTL

(* Once stop() has returned every accepted job has run, no worker is in    *)
(* the queue's functions, and when the queue is destroyed all workers have *)
(* exited with no signal or pause left over, for any number of workers.    *)
THEOREM StoppedForGood == Spec => []NothingAfterStop
  <1>1. ASSUME QueueInv, TokenInv PROVE NothingAfterStop
    <2>1. ASSUME stopped
          PROVE  /\ Closures = {} /\ jobSet = {}
                 /\ \A w \in Threads : at[w] \notin {"task", "process", "body", "finish"}
      <3>1. stopper \in AfterStop
        BY <1>1, <2>1, Zenon DEF QueueInv, Stages
      <3>2. Closures = {} /\ Holders = {} /\ Resizing
        BY <1>1, <3>1 DEF QueueInv, Stages, TokenInv
      <3>3. jobSet = {}
        BY <3>2 DEF jobSet, Closures
      <3>4. ASSUME NEW w \in Threads PROVE at[w] \notin {"task", "process", "body", "finish"}
        <4>1. w \notin At({"task", "process"}) /\ w \notin Holders
          BY <3>2 DEF Resizing
        <4>2. QED
          BY <4>1 DEF At, Holders, Holding
      <3>5. QED
        BY <3>2, <3>3, <3>4, Zenon
    <2>2. ASSUME stopper = "gone" PROVE Exited = Threads /\ count = 0 /\ pauseCount = 0
      <3>1. /\ Exited = Threads /\ Resizing /\ count \in Nat /\ pauseCount \in Nat
            /\ numberOfThreads \in Nat
        BY <1>1, <2>2 DEF TokenInv, AfterStop
      <3>2. At(Pausing) = {} /\ At(Parked) = Threads
        BY <3>1 DEF At, Exited, Pausing, Parked
      <3>3. N(Pausing) = 0 /\ N(Parked) = Cardinality(Threads) /\ N(Parked) \in Nat
        BY <3>2, Counted, Zenon DEF N
      <3>4. /\ count + N(Pausing) + (IF stopper = "signal" THEN 1 ELSE 0) = pauseCount
            /\ numberOfThreads + pauseCount + N(Parked) = Cardinality(Threads)
        BY <3>1, Zenon DEF Resizing
      <3>5. QED
        BY <2>2, <3>1, <3>3, <3>4
    <2>3. QED
      BY <2>1, <2>2, Zenon DEF NothingAfterStop
  <1>2. QED
    BY <1>1, TokenInvariance, PTL
-----------------------------------------------------------------------------
(* The jobs the workers hold are the scheduler's active ones.              *)
LEMMA HeldJobs ==
    ASSUME QueueInv
    PROVE  /\ \A j \in Held : j \in Jobs /\ fate[j] \in {"running", "done"}
           /\ \A j \in Jobs : fate[j] = "running" => j \in Held
  <1>1. ASSUME NEW j \in Held PROVE j \in Jobs /\ fate[j] \in {"running", "done"}
    <2>1. PICK w \in Threads : Holding(w) /\ job[w] = j
      BY Zenon DEF Held
    <2>2. at[w] = "body" \/ at[w] = "finish"
      BY <2>1, Zenon DEF Holding
    <2>3. QED
      BY <2>1, <2>2, Zenon DEF QueueInv, Ownership
  <1>2. ASSUME NEW j \in Jobs, fate[j] = "running" PROVE j \in Held
    <2>1. PICK w \in Threads : at[w] = "body" /\ job[w] = j
      BY <1>2, Zenon DEF QueueInv, Ownership
    <2>2. QED
      BY <2>1, Zenon DEF Held, Holding
  <1>3. QED
    BY <1>1, <1>2, Zenon

(* No more jobs of a type are active than workers hold one.                *)
LEMMA HeldCount ==
    ASSUME QueueInv, NEW t \in Types
    PROVE  Cardinality({k \in Held : TypeOf[k] = t}) <= data[t].running
  <1> DEFINE S == HoldersOf(t)
             T == {k \in Held : TypeOf[k] = t}
             f == [w \in S |-> job[w]]
  <1>1. f \in Surjection(S, T)
    BY DEF Surjection, HoldersOf, Held
  <1>2. IsFiniteSet(S)
    BY CountedFinite
  <1>3. Cardinality(T) <= Cardinality(S)
    BY <1>1, <1>2, FS_Surjection
  <1>4. QED
    BY <1>3 DEF QueueInv, CountersMatch, Balanced

(* Steps that leave every job where the scheduler sees it.                 *)
LEMMA Stutters ==
    ASSUME QueueInv, UNCHANGED <<fate, adding, job, waitForClosures, stopped>>,
           \A w \in Threads : Holding(w)' = Holding(w)
    PROVE  UNCHANGED Scheduler!schedule
  <1>1. Waiting' = Waiting
    BY DEF Waiting
  <1>2. Held' = Held
    BY DEF Held
  <1>3. Over' = Over
    BY <1>2 DEF Over
  <1>4. QED
    BY <1>1, <1>2, <1>3 DEF Scheduler!schedule

(* wrap() accepts a job, unless the counter is being joined.               *)
LEMMA WrapRefines ==
    ASSUME QueueInv, NEW j \in Jobs, wrap(j)
    PROVE  [Scheduler!SchedNext]_(Scheduler!schedule)
  <1>1. Held' = Held /\ UNCHANGED <<waitForClosures, stopped>>
    BY DEF wrap, Held, Holding
  <1>2. j \notin Held /\ fate[j] = "new" /\ j \notin adding
    BY HeldJobs DEF wrap
  <1>3. \A k \in Jobs : (fate'[k] = "done") = (fate[k] = "done")
    BY DEF wrap, QueueInv, QueueTypes
  <1>4. Over' = Over
    BY <1>1, <1>3 DEF Over
  <1>5. CASE waitForClosures
    <2>1. fate' = [fate EXCEPT ![j] = "refused"] /\ adding' = adding
      BY <1>5 DEF wrap
    <2>2. Waiting' = Waiting
      BY <1>2, <2>1 DEF Waiting, QueueInv, QueueTypes
    <2>3. QED
      BY <1>1, <1>4, <2>2 DEF Scheduler!schedule
  <1>6. CASE ~waitForClosures
    <2>1. fate' = fate /\ adding' = adding \cup {j}
      BY <1>6 DEF wrap
    <2>2. Waiting' = Waiting \cup {j} /\ j \notin Waiting
      BY <1>2, <2>1 DEF Waiting
    <2>3. j \notin Over
      BY <1>2 DEF Over
    <2>4. Scheduler!Accept(j)
      BY <1>1, <1>2, <1>4, <1>6, <2>2, <2>3 DEF Scheduler!Accept
    <2>5. QED
      BY <2>4 DEF Scheduler!SchedNext
  <1>7. QED
    BY <1>5, <1>6

(* addRefCountedJob() and the return of addJob() change nothing for the    *)
(* scheduler: the job has been accepted.                                   *)
LEMMA AddRefines ==
    ASSUME QueueInv, NEW j \in Jobs, addRefCountedJob(j) \/ addJobReturns(j)
    PROVE  UNCHANGED Scheduler!schedule
  <1>1. Held' = Held /\ UNCHANGED <<waitForClosures, stopped>>
    BY DEF addRefCountedJob, addJobReturns, closing, Held, Holding
  <1>2. CASE addRefCountedJob(j)
    <2>1. /\ fate[j] = "new" /\ j \in adding /\ adding' = adding
          /\ fate' = [fate EXCEPT ![j] = "queued"]
      BY <1>2 DEF addRefCountedJob, closing
    <2>2. Waiting' = Waiting
      BY <2>1 DEF Waiting, QueueInv, QueueTypes
    <2>3. \A k \in Jobs : (fate'[k] = "done") = (fate[k] = "done")
      BY <2>1 DEF QueueInv, QueueTypes
    <2>4. Over' = Over
      BY <1>1, <2>3 DEF Over
    <2>5. QED
      BY <1>1, <2>2, <2>4 DEF Scheduler!schedule
  <1>3. CASE addJobReturns(j)
    <2>1. fate[j] /= "new" /\ adding' = adding \ {j} /\ fate' = fate
      BY <1>3 DEF addJobReturns, counters
    <2>2. Waiting' = Waiting
      BY <2>1 DEF Waiting
    <2>3. Over' = Over
      BY <1>1, <2>1 DEF Over
    <2>4. QED
      BY <1>1, <2>2, <2>3 DEF Scheduler!schedule
  <1>4. QED
    BY <1>2, <1>3

(* getNextJob() starts a job whose type has a slot free.                   *)
LEMMA TakeRefines ==
    ASSUME QueueInv, NEW w \in Threads, getNextJob(w)
    PROVE  Scheduler!SchedNext
  <1>1. PICK j \in Runnable :
           /\ Goes(w, "process", "body")
           /\ job' = [job EXCEPT ![w] = j]
           /\ fate' = [fate EXCEPT ![j] = "running"]
           /\ UNCHANGED <<stopped, adding, waitForClosures>>
    BY ZenonT(30) DEF getNextJob, closing
  <1>2. j \in Jobs /\ fate[j] = "queued" /\ data[TypeOf[j]].running < Limit[TypeOf[j]]
    BY DEF Runnable, jobSet
  <1>3. /\ at[w] = "process" /\ at'[w] = "body" /\ job'[w] = j /\ fate'[j] = "running"
        /\ \A v \in Threads \ {w} : at'[v] = at[v] /\ job'[v] = job[v]
        /\ \A k \in Jobs \ {j} : fate'[k] = fate[k]
    BY <1>1, <1>2 DEF Goes, QueueInv, QueueTypes
  <1>4. ~Holding(w) /\ Holding(w)' /\ \A v \in Threads \ {w} : Holding(v)' = Holding(v)
    BY <1>3 DEF Holding
  <1>5. Held' = Held \cup {j}
    <2>1. \A v \in Threads : Holding(v)' => job'[v] = j \/ (Holding(v) /\ job'[v] = job[v])
      BY <1>3, <1>4, Zenon
    <2>2. \A v \in Threads : Holding(v) => Holding(v)' /\ job'[v] = job[v]
      BY <1>3, <1>4, Zenon
    <2>3. /\ \A k : k \in Held <=> \E v \in Threads : Holding(v) /\ job[v] = k
          /\ \A k : k \in Held' <=> \E v \in Threads : Holding(v)' /\ job'[v] = k
      BY Zenon DEF Held
    <2>4. \A k : k \in Held' <=> k \in Held \/ k = j
      <3>1. ASSUME NEW k \in Held' PROVE k \in Held \/ k = j
        BY <2>1, <2>3, <3>1, Zenon
      <3>2. ASSUME NEW k \in Held PROVE k \in Held'
        BY <2>2, <2>3, <3>2, Zenon
      <3>3. j \in Held'
        BY <1>3, <1>4, <2>3, Zenon
      <3>4. QED
        BY <3>1, <3>2, <3>3, Zenon
    <2>5. QED
      BY <2>4, Zenon
  <1>6. Waiting' = Waiting \ {j} /\ j \in Waiting
    <2>1. adding' = adding
      BY <1>1
    <2>2. j \in Waiting /\ j \notin Waiting'
      BY <1>2, <1>3 DEF Waiting
    <2>3. \A k \in Jobs \ {j} : k \in Waiting' <=> k \in Waiting
      BY <1>3, <2>1, Zenon DEF Waiting
    <2>4. Waiting \subseteq Jobs /\ Waiting' \subseteq Jobs
      BY Zenon DEF Waiting
    <2>5. QED
      BY <2>2, <2>3, <2>4, Zenon
  <1>7. Over' = Over
    <2>1. j \notin Over /\ j \notin Over'
      BY <1>2, <1>3 DEF Over
    <2>2. \A k \in Jobs \ {j} : k \in Over' <=> k \in Over
      BY <1>3, <1>5, Zenon DEF Over
    <2>3. Over \subseteq Jobs /\ Over' \subseteq Jobs
      BY Zenon DEF Over
    <2>4. QED
      BY ONLY <2>1, <2>2, <2>3
  <1>8. Cardinality({k \in Held : TypeOf[k] = TypeOf[j]}) < Limit[TypeOf[j]]
    <2>1. TypeOf[j] \in Types /\ Limit[TypeOf[j]] \in Nat
      BY <1>2, TypeOfJob
    <2>2. Cardinality({k \in Held : TypeOf[k] = TypeOf[j]}) <= data[TypeOf[j]].running
      BY <2>1, HeldCount
    <2>3. {k \in Held : TypeOf[k] = TypeOf[j]} \in SUBSET Jobs
      BY HeldJobs
    <2>4. Cardinality({k \in Held : TypeOf[k] = TypeOf[j]}) \in Nat
      BY <2>3, FS_Subset, FS_CardinalityType, JobQueueAssumption
    <2>5. data[TypeOf[j]].running \in Nat
      BY <2>1, TypeCounters
    <2>6. \A a, b, l \in Nat : a <= b /\ b < l => a < l
      OBVIOUS
    <2>7. QED
      BY <1>2, <2>1, <2>2, <2>4, <2>5, <2>6, Zenon
  <1>9. Scheduler!Start(j)
    <2>1. UNCHANGED <<Over, waitForClosures, stopped>>
      BY <1>1, <1>7
    <2>2. Scheduler!Cardinality({k \in Held : TypeOf[k] = TypeOf[j]}) < Limit[TypeOf[j]]
      BY <1>8 DEF Cardinality, Scheduler!Cardinality
    <2>3. QED
      BY <1>5, <1>6, <2>1, <2>2, Zenon DEF Scheduler!Start
  <1>10. QED
    BY <1>2, <1>9 DEF Scheduler!SchedNext

(* The end of a job's body does not end its slot.                          *)
LEMMA DoneRefines ==
    ASSUME QueueInv, NEW w \in Threads, doJob(w)
    PROVE  UNCHANGED Scheduler!schedule
  <1>1. /\ at[w] = "body" /\ at' = [at EXCEPT ![w] = "finish"]
        /\ fate' = [fate EXCEPT ![job[w]] = "done"]
        /\ UNCHANGED <<stopped, adding, waitForClosures, job>>
    BY DEF doJob, Goes
  <1>2. job[w] \in Jobs /\ fate[job[w]] = "running" /\ job[w] \in Held
    BY <1>1 DEF QueueInv, Ownership, Held, Holding
  <1>3. \A v \in Threads : Holding(v)' = Holding(v)
    BY <1>1 DEF Holding, QueueInv, QueueTypes
  <1>4. Held' = Held
    BY <1>1, <1>3 DEF Held
  <1>5. \A k \in Jobs \ {job[w]} : fate'[k] = fate[k]
    BY <1>1, <1>2 DEF QueueInv, QueueTypes
  <1>6. fate'[job[w]] = "done"
    BY <1>1, <1>2 DEF QueueInv, QueueTypes
  <1>7. Waiting' = Waiting
    BY <1>1, <1>2, <1>5, <1>6 DEF Waiting
  <1>8. Over' = Over
    BY <1>2, <1>4, <1>5 DEF Over
  <1>9. QED
    BY <1>1, <1>4, <1>7, <1>8 DEF Scheduler!schedule

(* finishJob() finishes the job.                                           *)
LEMMA FinishRefines ==
    ASSUME QueueInv, NEW w \in Threads, finishJob(w)
    PROVE  Scheduler!SchedNext
  <1>0. PICK j : j = job[w]
    OBVIOUS
  <1>1. /\ at[w] = "finish" /\ at' = [at EXCEPT ![w] = "finished"]
        /\ job' = [job EXCEPT ![w] = NoJob]
        /\ UNCHANGED <<fate, stopped, adding, waitForClosures>>
    BY DEF finishJob, Goes, closing
  <1>2. j \in Jobs /\ fate[j] = "done" /\ j \in Held
    BY <1>0, <1>1 DEF QueueInv, Ownership, Held, Holding
  <1>3. /\ at'[w] = "finished"
        /\ \A v \in Threads \ {w} : at'[v] = at[v] /\ job'[v] = job[v]
    BY <1>1 DEF QueueInv, QueueTypes
  <1>4. /\ Holding(w) /\ ~Holding(w)'
        /\ \A v \in Threads \ {w} : Holding(v)' = Holding(v)
    BY <1>1, <1>3, SMTT(30) DEF Holding
  <1>5. \A v \in Threads \ {w} : Holding(v) => job[v] /= j
    BY <1>0, <1>4 DEF QueueInv, Ownership
  <1>6. Held' = Held \ {j}
    <2>1. \A v \in Threads : Holding(v)' => Holding(v) /\ job'[v] = job[v] /\ job[v] /= j
      BY <1>3, <1>4, <1>5
    <2>2. \A v \in Threads : Holding(v) /\ job[v] /= j => Holding(v)' /\ job'[v] = job[v]
      BY <1>0, <1>3, <1>4
    <2>3. QED
      BY <2>1, <2>2 DEF Held
  <1>7. Waiting' = Waiting
    BY <1>1 DEF Waiting
  <1>8. Over' = Over \cup {j}
    BY <1>1, <1>2, <1>6 DEF Over
  <1>9. Scheduler!Finish(j)
    BY <1>1, <1>2, <1>6, <1>7, <1>8 DEF Scheduler!Finish
  <1>10. QED
    BY <1>2, <1>9 DEF Scheduler!SchedNext

(* A worker's other steps are invisible to the scheduler.                  *)
LEMMA WorkerRefines ==
    ASSUME QueueInv, NEW w \in Threads, workerStep(w)
    PROVE  [Scheduler!SchedNext]_(Scheduler!schedule)
  <1>1. CASE getNextJob(w)
    BY <1>1, TakeRefines
  <1>2. CASE finishJob(w)
    BY <1>2, FinishRefines
  <1>3. CASE ~getNextJob(w) /\ ~finishJob(w)
    <2>1. UNCHANGED <<fate, adding, job, waitForClosures, stopped>>
      BY <1>3 DEF workerStep, activate, resetAllPaused, acquireTask, loadPauseCount, tryPause,
                  beginTask, endTask, notifyNoTasks, deactivate, signalAllPaused, exitThread,
                  counters, closing
    <2>2. \E from \in Places \ {"body", "finish"}, to \in Places \ {"body", "finish"} :
             Goes(w, from, to)
      BY <1>3 DEF workerStep, activate, resetAllPaused, acquireTask, loadPauseCount, tryPause,
                  beginTask, endTask, notifyNoTasks, deactivate, signalAllPaused, exitThread,
                  Places
    <2>3. \A v \in Threads : Holding(v)' = Holding(v)
      BY <2>2 DEF Goes, Holding, QueueInv, QueueTypes
    <2>4. QED
      BY <2>1, <2>3, Stutters, SMTT(30)
  <1>4. QED
    BY <1>1, <1>2, <1>3

(* Joining the counter closes the scheduler; the end of stop() halts it.   *)
LEMMA StopRefines ==
    ASSUME QueueInv, stop \/ stopStep
    PROVE  [Scheduler!SchedNext]_(Scheduler!schedule)
  <1>1. UNCHANGED <<fate, adding, job, at>>
    BY ZenonT(30) DEF stop, stopStep, joinClosures, drain, requestPause, signalPause, awaitPaused,
           deleteWorker, destroyed, counters, closing
  <1>2. Waiting' = Waiting /\ Held' = Held /\ Over' = Over
    BY <1>1 DEF Waiting, Held, Over, Holding
  <1>3. CASE joinClosures
    <2>1. Scheduler!Close
      BY <1>2, <1>3 DEF joinClosures, Scheduler!Close
    <2>2. QED
      BY <2>1 DEF Scheduler!SchedNext
  <1>4. CASE drain
    <2>1. ~stopped /\ waitForClosures /\ Closures = {} /\ waitForClosures' = waitForClosures
      BY <1>4 DEF drain, QueueInv, Stages, AfterStop
    <2>2. CASE processCount = 0 /\ jobSet = {}
      <3>1. Holders = {}
        BY <2>2, CountedFinite, FS_EmptySet, ZenonT(30) DEF QueueInv
      <3>2. Held = {}
        BY <3>1 DEF Held, Holders
      <3>3. Waiting = {}
        BY <2>1 DEF Waiting, Closures
      <3>4. Scheduler!Halt
        BY <1>2, <1>4, <2>1, <2>2, <3>2, <3>3, ZenonT(30) DEF drain, Scheduler!Halt
      <3>5. QED
        BY <3>4 DEF Scheduler!SchedNext
    <2>3. CASE ~(processCount = 0 /\ jobSet = {})
      <3>1. stopped' = stopped
        BY <1>4, <2>1, <2>3 DEF drain, QueueInv, QueueTypes
      <3>2. QED
        BY <1>2, <2>1, <3>1 DEF Scheduler!schedule
    <2>4. QED
      BY <2>2, <2>3
  <1>5. CASE ~joinClosures /\ ~drain
    <2>1. UNCHANGED <<waitForClosures, stopped>>
      BY <1>5 DEF stop, stopStep, requestPause, signalPause, awaitPaused, deleteWorker,
                  destroyed, closing
    <2>2. QED
      BY <1>2, <2>1, SMTT(30) DEF Scheduler!schedule
  <1>6. QED
    BY <1>3, <1>4, <1>5, SMTT(30)

(* Every step of the queue is a step of the scheduler or leaves it alone.  *)
LEMMA StepRefines ==
    ASSUME QueueInv, [JobQueueNext]_jobQueueVars
    PROVE  [Scheduler!SchedNext]_(Scheduler!schedule)
  <1>1. CASE UNCHANGED jobQueueVars
    <2>1. UNCHANGED <<fate, adding, job, waitForClosures, stopped, at>>
      BY <1>1 DEF jobQueueVars, counters, closing
    <2>2. \A v \in Threads : Holding(v)' = Holding(v)
      BY <2>1 DEF Holding
    <2>3. QED
      BY <2>1, <2>2, Stutters
  <1>2. QED
    BY <1>1, WrapRefines, AddRefines, WorkerRefines, DoneRefines, StopRefines DEF JobQueueNext

(* The job queue with its workers, semaphore, counters, closures and       *)
(* coroutines implements the scheduler's safety: no job is lost, run twice *)
(* or accepted after the queue closed, a type's limit holds, and stop()    *)
(* returns only when nothing waits or runs.                                *)
THEOREM QueueImplementsScheduler == Spec => ImplementsScheduler
  <1>1. Init => Scheduler!SchedInit
    <2>1. ASSUME Init PROVE Waiting = {} /\ Held = {} /\ Over = {}
      BY <2>1 DEF Init, JobQueueInit, Waiting, Held, Over, Holding
    <2>2. QED
      BY <2>1, ZenonT(30) DEF Scheduler!SchedInit, Init, JobQueueInit
  <1>2. QueueInv /\ [Next]_vars => [Scheduler!SchedNext]_(Scheduler!schedule)
    BY CoroStepIsQueueStep, StepRefines
  <1>3. QED
    BY <1>1, <1>2, Invariance, PTL DEF Spec, ImplementsScheduler, Scheduler!SchedSafe
=============================================================================
