----------------------------- MODULE SHAMapStore -----------------------------
(***************************************************************************)
(* Online deletion (SHAMapStoreImp.cpp): the thread that deletes old       *)
(* ledgers from the SQL tables, copies the state map of a validated ledger *)
(* into the writable backend and rotates the backends, the start of a      *)
(* server on what an earlier process left on disk, and a crash anywhere.   *)
(* Ledgers become validated while it works, each built or acquired node by *)
(* node through the same node store.                                       *)
(***************************************************************************)
EXTENDS DatabaseRotating, FiniteSets, Sequences

CONSTANTS
    Map,                    \* Map[s] is the state map of ledger s, a set of nodes
    FirstSeq,               \* the ledger a server that starts for the first time acquires first
    App,                    \* the client that builds or acquires the next ledger
    Tables,                 \* the SQL tables clearPrior() clears, in its order
    deleteInterval, deleteBatch, maxWaitingLedgers, checkHealthInterval,
    CanDelete,              \* what canDelete_ may be: an operator sets it with can_delete
    MaxCrashes              \* bound: how often the process is killed

MaxSeq == Len(Map)          \* bound: the last ledger the network validates

ASSUME SHAMapStoreAssumption ==
    /\ Map \in Seq(SUBSET Nodes) /\ FirstSeq \in DOMAIN Map /\ App \in Clients
    /\ \A x \in {deleteInterval, deleteBatch, maxWaitingLedgers, checkHealthInterval} : x \in Nat \ {0}
    /\ CanDelete \subseteq Nat /\ MaxCrashes \in Nat

VARIABLES
    saved,                  \* the state database: the names of the backends and lastRotated
    sql,                    \* the first ledger of a table
    pc,                     \* where the thread is: see run()
    stop,                   \* stop_
    newLedger,              \* newLedger_, or 0
    validatedSeq,           \* the ledger the thread is working on
    lastRotated, minimumOnline,
    lastCheck,              \* lastSuccessfulHealthCheck_
    todo,                   \* the nodes or keys still to be visited
    nodeCount,              \* how many were visited since the last health check
    table,                  \* the table being cleared
    newBackend,
    validLedger,            \* LedgerMaster's getValidLedgerIndex()
    need,                   \* the nodes of the next ledger the server has not got yet
    crashes

durable == <<saved, sql>>
signals == <<stop, newLedger>>
cycle == <<validatedSeq, lastRotated, minimumOnline>>
visit == <<todo, nodeCount, table, newBackend>>
loop == <<pc, lastCheck, signals, cycle, visit>>
ledgers == <<validLedger, need>>
vars == <<nodeStoreVars, durable, loop, ledgers, crashes>>

Up == pc \notin {"dbPaths", "openWritable", "openArchive", "nameBackends", "stateError"}

(* The nodes that make the ledger after s complete: all of them, or those  *)
(* its predecessor in memory does not share with it.                       *)
Missing(s, shared) == IF s = MaxSeq THEN {} ELSE Map[s + 1] \ shared

(* The first start of a server, or a start after an earlier process        *)
(* rotated at ledger 1.                                                    *)
FirstStart ==
    /\ sql = [t \in 1..Len(Tables) |-> FirstSeq]
    /\ dirs = {} /\ disk = [b \in Backends |-> {}]
    /\ saved = [writable |-> NoBackend, archive |-> NoBackend, lastRotated |-> 0]
    /\ validLedger = FirstSeq - 1

LaterStart ==
    LET one == CHOOSE b \in Backends : TRUE
        two == CHOOSE b \in Backends : b # one
    IN  /\ sql = [t \in 1..Len(Tables) |-> 1]
        /\ dirs = {one, two}
        /\ disk = [b \in Backends |-> IF b = two THEN Map[1] ELSE {}]
        /\ saved = [writable |-> one, archive |-> two, lastRotated |-> 1]
        /\ validLedger = 1

Init ==
    /\ FirstStart \/ LaterStart
    /\ NodeStoreInit
    /\ pc = "dbPaths" /\ stop = FALSE /\ newLedger = 0
    /\ validatedSeq = 0 /\ lastRotated = 0 /\ minimumOnline = 0 /\ lastCheck = 0
    /\ todo = {} /\ nodeCount = 0 /\ table = 1 /\ newBackend = NoBackend
    /\ need = Missing(validLedger, {})
    /\ crashes = 0

-----------------------------------------------------------------------------
(* The start of a process.                                                 *)

Named == {saved.writable, saved.archive} \ {NoBackend}

(* The constructor: the two backends of the state database must exist, or  *)
(* neither be named; every other one is removed.                           *)
dbPaths ==
    /\ pc = "dbPaths"
    /\ IF Named \subseteq dirs /\ (saved.writable = NoBackend <=> saved.archive = NoBackend)
       THEN /\ pc' = "openWritable"
            /\ dirs' = Named
            /\ disk' = [b \in Backends |-> IF b \in Named THEN disk[b] ELSE {}]
       ELSE pc' = "stateError" /\ UNCHANGED <<dirs, disk>>
    /\ UNCHANGED <<dead, pair, rotationInFlight, ram, client, history, durable, ledgers, crashes>>
    /\ UNCHANGED <<lastCheck, signals, cycle, visit>>

(* makeBackendRotating(): the path given, or one that is not in use.       *)
Opened(path) == IF path # NoBackend THEN path ELSE CHOOSE b \in Backends : b \notin dirs

(* makeNodeStore() opens the backends and names them in the state database *)
(* if it did not.                                                          *)
openWritable ==
    /\ pc = "openWritable"
    /\ saved.writable = NoBackend => Backends \ dirs # {}
    /\ writable' = Opened(saved.writable)
    /\ dirs' = dirs \cup {writable'}
    /\ pc' = "openArchive"
    /\ UNCHANGED <<disk, dead, archive, old, rotationInFlight, ram, client, history, durable, ledgers, crashes>>
    /\ UNCHANGED <<lastCheck, signals, cycle, visit>>

openArchive ==
    /\ pc = "openArchive"
    /\ saved.archive = NoBackend => Backends \ dirs # {}
    /\ archive' = Opened(saved.archive)
    /\ dirs' = dirs \cup {archive'}
    /\ pc' = "nameBackends"
    /\ UNCHANGED <<disk, dead, writable, old, rotationInFlight, ram, client, history, durable, ledgers, crashes>>
    /\ UNCHANGED <<lastCheck, signals, cycle, visit>>

(* ... and run() starts with what the state database says.                 *)
nameBackends ==
    /\ pc = "nameBackends"
    /\ saved' = IF saved.writable = NoBackend
                THEN [saved EXCEPT !.writable = writable, !.archive = archive]
                ELSE saved
    /\ lastRotated' = saved.lastRotated
    /\ pc' = "top"
    /\ UNCHANGED <<nodeStoreVars, sql, ledgers, crashes>>
    /\ UNCHANGED <<validatedSeq, minimumOnline, lastCheck, signals, visit>>

(* The process is killed, and started again.                               *)
crash ==
    /\ crashes < MaxCrashes
    /\ crashes' = crashes + 1
    /\ nodeStoreCrash
    /\ pc' = "dbPaths" /\ stop' = FALSE /\ newLedger' = 0
    /\ validatedSeq' = 0 /\ lastRotated' = 0 /\ minimumOnline' = 0 /\ lastCheck' = 0
    /\ todo' = {} /\ nodeCount' = 0 /\ table' = 1 /\ newBackend' = NoBackend
    /\ need' = Missing(validLedger, {})
    /\ UNCHANGED <<durable, validLedger>>

-----------------------------------------------------------------------------
(* healthWait(): the thread sleeps until the server is healthy (in sync,   *)
(* its validated ledger recent, no ledger missing), which may be at any    *)
(* time or never; it gives up on the server's stop and when too many       *)
(* ledgers were validated since the last check that succeeded.             *)
Expired == lastCheck # 0 /\ validLedger >= lastCheck + maxWaitingLedgers

healthWait(keepGoing, expired, stopping) ==
    \/ /\ stop
       /\ pc' = stopping /\ UNCHANGED lastCheck
    \/ /\ ~stop /\ Expired
       /\ pc' = expired /\ UNCHANGED lastCheck
    \/ /\ ~stop /\ ~Expired
       /\ pc' = keepGoing /\ lastCheck' = validLedger

(* The top of the loop: return if the server stops, else wait on cond_.    *)
top ==
    /\ pc = "top"
    /\ pc' = IF stop THEN "returned" ELSE "wait"
    /\ UNCHANGED <<nodeStoreVars, durable, ledgers, crashes>>
    /\ UNCHANGED <<lastCheck, signals, cycle, visit>>

(* cond_.wait() has no predicate, and may return without a notification.   *)
wakeUp ==
    /\ pc = "wait"
    /\ pc' = "awake"
    /\ UNCHANGED <<nodeStoreVars, durable, ledgers, crashes>>
    /\ UNCHANGED <<lastCheck, signals, cycle, visit>>

(* Take the new ledger, if there is one; the first ledger ever is where    *)
(* the counting starts.                                                    *)
takeLedger ==
    /\ pc = "awake"
    /\ IF newLedger = 0
       THEN pc' = "top" /\ UNCHANGED <<validatedSeq, lastRotated, saved, lastCheck>>
       ELSE /\ validatedSeq' = newLedger
            /\ lastRotated' = IF lastRotated = 0 THEN newLedger ELSE lastRotated
            /\ saved' = IF lastRotated = 0 THEN [saved EXCEPT !.lastRotated = newLedger] ELSE saved
            /\ lastCheck' = 0
            /\ \E canDelete \in CanDelete :
                  pc' = IF newLedger >= lastRotated' + deleteInterval /\ canDelete >= lastRotated' - 1
                        THEN "ready" ELSE "top"
    /\ newLedger' = 0
    /\ UNCHANGED <<nodeStoreVars, sql, ledgers, crashes>>
    /\ UNCHANGED <<stop, minimumOnline, visit>>

(* The first health check of a cycle counts from the ledger it finds.      *)
firstCheck ==
    /\ pc = "ready"
    /\ lastCheck' = validLedger
    /\ pc' = "readyCheck"
    /\ UNCHANGED <<nodeStoreVars, durable, ledgers, crashes>>
    /\ UNCHANGED <<signals, cycle, visit>>

readyToRotate ==
    /\ pc = "readyCheck"
    /\ healthWait("clearPrior", "top", "top")
    /\ UNCHANGED <<nodeStoreVars, durable, ledgers, crashes>>
    /\ UNCHANGED <<signals, cycle, visit>>

(* clearPrior() ends early when a health check fails; the check after it   *)
(* then fails as well.                                                     *)
clearPrior ==
    /\ pc = "clearPrior"
    /\ minimumOnline' = lastRotated + 1
    /\ table' = 1
    /\ healthWait("clearSql", "cleared", "cleared")
    /\ UNCHANGED <<nodeStoreVars, durable, ledgers, crashes>>
    /\ UNCHANGED <<validatedSeq, lastRotated, todo, nodeCount, newBackend, signals>>

(* A batch of a table, or on to the next table.                            *)
clearSql ==
    /\ pc = "clearSql"
    /\ \/ /\ sql[table] < lastRotated
          /\ healthWait("deleteBatch", "cleared", "cleared")
          /\ UNCHANGED table
       \/ /\ sql[table] >= lastRotated
          /\ healthWait(IF table = Len(Tables) THEN "cleared" ELSE "clearSql", "cleared", "cleared")
          /\ table' = IF table = Len(Tables) THEN table ELSE table + 1
    /\ UNCHANGED <<nodeStoreVars, durable, ledgers, crashes>>
    /\ UNCHANGED <<todo, nodeCount, newBackend, signals, cycle>>

deleteBeforeSeq ==
    /\ pc = "deleteBatch"
    /\ sql' = [sql EXCEPT ![table] = IF @ + deleteBatch < lastRotated THEN @ + deleteBatch ELSE lastRotated]
    /\ pc' = "clearSql"
    /\ UNCHANGED <<nodeStoreVars, saved, ledgers, crashes>>
    /\ UNCHANGED <<lastCheck, signals, cycle, visit>>

-----------------------------------------------------------------------------
(* Every checkHealthInterval nodes visited the health is checked.          *)
visited(n, next, check) ==
    /\ todo' = todo \ {n}
    /\ nodeCount' = (nodeCount + 1) % checkHealthInterval
    /\ pc' = IF nodeCount' = 0 THEN check ELSE next

afterClearPrior ==
    /\ pc = "cleared"
    /\ healthWait("copy", "top", "returned")
    /\ todo' = Map[validatedSeq] /\ nodeCount' = 0
    /\ UNCHANGED <<nodeStoreVars, durable, ledgers, crashes>>
    /\ UNCHANGED <<table, newBackend, signals, cycle>>

(* visitNodes() loads a node, from memory or from the backends, or throws  *)
(* SHAMapMissingNode; copyNode() stores it in the writable backend if it   *)
(* is not there, from the archive or, if neither backend has it, from      *)
(* memory.                                                                 *)
copyNode ==
    /\ pc = "copy"
    /\ \E n \in todo :
          IF n \in ram \cup Stored(writable, archive)
          THEN /\ disk' = [disk EXCEPT ![writable] = @ \cup {n}]
               /\ ram' = ram \cup {n}
               /\ straddled' = straddled \ {n}
               /\ visited(n, "copy", "copyCheck")
          ELSE /\ pc' = "top"
               /\ UNCHANGED <<disk, ram, straddled, todo, nodeCount>>
    /\ UNCHANGED <<dirs, dead, pair, rotationInFlight, client, late, durable, ledgers, crashes>>
    /\ UNCHANGED <<table, newBackend, lastCheck, signals, cycle>>

(* A visit that a health check cut short is left with nodes to visit.      *)
copyCheck ==
    /\ pc = "copyCheck"
    /\ healthWait("copy", "copied", "copied")
    /\ UNCHANGED <<nodeStoreVars, durable, ledgers, crashes, signals, cycle, visit>>

afterCopy ==
    /\ \/ pc = "copied"
       \/ pc = "copy" /\ todo = {}
    /\ healthWait("guard", "top", "returned")
    /\ UNCHANGED <<nodeStoreVars, durable, ledgers, crashes, signals, cycle, visit>>

(* Mutant: ordinary reads do not copy forward.                             *)
guardMissing ==
    /\ pc = "guard"
    /\ pc' = "getKeys"
    /\ UNCHANGED <<nodeStoreVars, durable, ledgers, crashes>>
    /\ UNCHANGED <<lastCheck, signals, cycle, visit>>

(* RotationExposureGuard.                                                  *)
guard ==
    /\ pc = "guard"
    /\ setRotationInFlight(TRUE)
    /\ pc' = "getKeys"
    /\ UNCHANGED <<backends, pair, ram, client, history, durable, ledgers, crashes>>
    /\ UNCHANGED <<lastCheck, signals, cycle, visit>>

(* freshenCache(): list the keys of the cache, and fetch each of them.     *)
getKeys ==
    /\ pc = "getKeys"
    /\ todo' = ram /\ nodeCount' = 0
    /\ straddle({"found"}) /\ UNCHANGED straddled
    /\ pc' = "freshen"
    /\ UNCHANGED <<backends, pair, rotationInFlight, ram, client, durable, ledgers, crashes>>
    /\ UNCHANGED <<table, newBackend, lastCheck, signals, cycle>>

freshenCache ==
    /\ pc = "freshen"
    /\ \E n \in todo : disk' = Duplicated(n) /\ visited(n, "freshen", "freshenCheck")
    /\ UNCHANGED <<dirs, dead, pair, rotationInFlight, ram, client, history, durable, ledgers, crashes>>
    /\ UNCHANGED <<table, newBackend, lastCheck, signals, cycle>>

freshenCheck ==
    /\ pc = "freshenCheck"
    /\ healthWait("freshen", "freshened", "freshened")
    /\ UNCHANGED <<nodeStoreVars, durable, ledgers, crashes, signals, cycle, visit>>

afterFreshen ==
    /\ \/ pc = "freshened"
       \/ pc = "freshen" /\ todo = {}
    /\ healthWait("makeBackend", "unguard", "unguard")
    /\ UNCHANGED <<nodeStoreVars, durable, ledgers, crashes, signals, cycle, visit>>

(* A new directory; then clearCaches() and the last health check, after    *)
(* which an abandoned backend stays on disk.                               *)
makeBackendRotating ==
    /\ pc = "makeBackend"
    /\ Backends \ dirs # {}
    /\ newBackend' = Opened(NoBackend)
    /\ dirs' = dirs \cup {newBackend'}
    /\ pc' = "made"
    /\ UNCHANGED <<disk, dead, pair, rotationInFlight, ram, client, history, durable, ledgers, crashes>>
    /\ UNCHANGED <<lastCheck, signals, cycle, todo, nodeCount, table>>

(* Mutant: the ledger after the copied one counts as rotated.              *)
afterClearCachesOff ==
    /\ pc = "made"
    /\ healthWait("rotate", "unguard", "unguard")
    /\ lastRotated' = IF pc' = "rotate" THEN validatedSeq + 1 ELSE lastRotated
    /\ newBackend' = IF pc' = "rotate" THEN newBackend ELSE NoBackend
    /\ UNCHANGED <<nodeStoreVars, durable, ledgers, crashes>>
    /\ UNCHANGED <<signals, validatedSeq, minimumOnline, todo, nodeCount, table>>

afterClearCaches ==
    /\ pc = "made"
    /\ healthWait("rotate", "unguard", "unguard")
    /\ lastRotated' = IF pc' = "rotate" THEN validatedSeq ELSE lastRotated
    /\ newBackend' = IF pc' = "rotate" THEN newBackend ELSE NoBackend
    /\ UNCHANGED <<nodeStoreVars, durable, ledgers, crashes>>
    /\ UNCHANGED <<signals, validatedSeq, minimumOnline, todo, nodeCount, table>>

-----------------------------------------------------------------------------
(* rotate(): swap the backends, save their names, and only then let go of  *)
(* the old archive, whose directory is removed.                            *)
swapBackends ==
    /\ pc = "rotate"
    /\ rotate(newBackend)
    /\ newBackend' = NoBackend
    /\ pc' = "setState"
    /\ UNCHANGED <<durable, ledgers, crashes, lastCheck, signals, cycle, todo, nodeCount, table>>

setState ==
    /\ pc = "setState"
    /\ saved' = [writable |-> writable, archive |-> archive, lastRotated |-> lastRotated]
    /\ pc' = "rotated"
    /\ UNCHANGED <<nodeStoreVars, sql, ledgers, crashes, lastCheck, signals, cycle, visit>>

deleteArchive ==
    /\ pc = "rotated"
    /\ rotated
    /\ pc' = "unguard"
    /\ UNCHANGED <<durable, ledgers, crashes, lastCheck, signals, cycle, visit>>

unguard ==
    /\ pc = "unguard"
    /\ setRotationInFlight(FALSE)
    /\ pc' = "top"
    /\ UNCHANGED <<backends, pair, ram, client, history, durable, ledgers, crashes>>
    /\ UNCHANGED <<lastCheck, signals, cycle, visit>>

-----------------------------------------------------------------------------
(* Around the thread.                                                      *)

notify == IF pc = "wait" THEN "awake" ELSE pc

(* A node of the next ledger is at hand once it is in the cache, and the   *)
(* thread that put it there is done with it.                               *)
haveNode(n) ==
    /\ Up /\ n \in need \cap ram /\ at[App] = "idle"
    /\ need' = need \ {n}
    /\ UNCHANGED <<nodeStoreVars, durable, loop, validLedger, crashes>>

(* A ledger is built here, or acquired: a node the backends do not have    *)
(* comes from the peers.                                                   *)
newNode ==
    /\ Up
    /\ \E n \in need : writeNode(App, n)
    /\ UNCHANGED <<durable, loop, ledgers, crashes>>

(* setValidLedger() and onLedgerClosed().                                  *)
onLedgerClosed ==
    /\ Up /\ validLedger < MaxSeq /\ need = {}
    /\ validLedger' = validLedger + 1
    /\ need' = Missing(validLedger + 1, Map[validLedger + 1])
    /\ newLedger' = validLedger + 1
    /\ pc' = notify
    /\ UNCHANGED <<nodeStoreVars, durable, lastCheck, stop, cycle, visit, crashes>>

(* Mutant: stop() does not notify the thread.                              *)
stopSilently ==
    /\ Up /\ ~stop
    /\ stop' = TRUE
    /\ UNCHANGED <<nodeStoreVars, durable, pc, lastCheck, newLedger, cycle, visit, ledgers, crashes>>

stopThread ==
    /\ Up /\ ~stop
    /\ stop' = TRUE
    /\ pc' = notify
    /\ UNCHANGED <<nodeStoreVars, durable, lastCheck, newLedger, cycle, visit, ledgers, crashes>>

readNodes ==
    /\ Up
    /\ \/ \E p \in Clients : \/ \E n \in IF p = App THEN need ELSE Nodes : fetchNodeObject(p, n)
                             \/ fetch(p)
                             \/ copyForward(p)
                             \/ finishFetch(p)
                             \/ store(p)
                             \/ backendStore(p)
       \/ \E n \in Nodes : sweep(n)
    /\ UNCHANGED <<durable, loop, ledgers, crashes>>

health == \/ readyToRotate \/ clearPrior \/ clearSql \/ afterClearPrior \/ copyCheck
          \/ afterCopy \/ freshenCheck \/ afterFreshen \/ afterClearCaches

work == \/ top \/ takeLedger \/ firstCheck \/ deleteBeforeSeq \/ copyNode \/ guard \/ getKeys
        \/ freshenCache \/ makeBackendRotating \/ swapBackends \/ setState \/ deleteArchive \/ unguard

start == dbPaths \/ openWritable \/ openArchive \/ nameBackends

environment == \/ \E n \in Nodes : haveNode(n)
               \/ newNode \/ onLedgerClosed \/ stopThread \/ readNodes \/ wakeUp \/ crash

Next == start \/ work \/ health \/ environment

(* The thread runs; it need never find the server healthy.                 *)
Fairness == WF_vars(work \/ (health /\ (stop \/ Expired)))

Spec == Init /\ [][Next]_vars /\ Fairness

-----------------------------------------------------------------------------
TypeOK ==
    /\ dirs \subseteq Backends /\ dead \subseteq dirs
    /\ disk \in [Backends -> SUBSET Nodes]
    /\ {writable, archive, old, newBackend} \subseteq dirs \cup {NoBackend}
    /\ ram \cup todo \cup need \subseteq Nodes
    /\ validatedSeq <= validLedger /\ lastRotated <= validLedger

(* Wherever the last process was killed, a server can start on what is on  *)
(* disk: the backends named in the state database exist (dbPaths throws    *)
(* "state db error" otherwise).  And the ledger of the last rotation is    *)
(* kept, whatever the health checks cut short: its state map is in these   *)
(* backends, and neither it nor a later ledger is deleted from the tables. *)
RotatedLedgerKept ==
    /\ pc # "stateError"
    /\ saved.lastRotated # 0 =>
          /\ Map[saved.lastRotated] \subseteq Stored(saved.writable, saved.archive)
          /\ \A t \in 1..Len(Tables) : sql[t] <= saved.lastRotated

(* A node in the cache is on disk as well, unless it is being written, or  *)
(* was read across the listing of the keys or the swap of the backends:    *)
(* the copy of the caches and of the reads during a rotation leave no      *)
(* other node behind in memory only.                                       *)
Writing == {node[p] : p \in {q \in Clients : at[q] \in {"cached", "store"}}}

CachedIsStored == Up => ram \subseteq Stored(writable, archive) \cup Writing \cup straddled

(* A cycle ends once too many ledgers went by without a health check that  *)
(* succeeded, and the thread ends once the server stops, be it waiting,    *)
(* copying or rotating.                                                    *)
InCycle == Up /\ pc \notin {"top", "wait", "awake", "returned"}

CycleEnds == (stop \/ (InCycle /\ Expired)) ~> (~Up \/ pc = "returned" \/ (~stop /\ ~InCycle))

-----------------------------------------------------------------------------
(* What the configuration file says of online_delete: "Maintain at least   *)
(* this number of ledger records online."  Between two cycles the last     *)
(* deleteInterval ledgers that have records are on disk.                   *)
LedgersMaintained ==
    pc = "wait" =>
        \A s \in sql[1]..validLedger :
            s > validLedger - deleteInterval => Map[s] \subseteq Stored(writable, archive)

(* What the comment at RotationExposureGuard says: "a node fetched from    *)
(* the doomed archive cannot be left RAM-only when the archive is          *)
(* deleted".                                                               *)
NeverMemoryOnly == Up /\ old = NoBackend => ram \subseteq Stored(writable, archive) \cup Writing
=============================================================================
