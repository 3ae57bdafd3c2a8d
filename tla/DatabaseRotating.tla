-------------------------- MODULE DatabaseRotating --------------------------
(***************************************************************************)
(* The node store of a server that deletes online: two backends, a         *)
(* writable one and an archive (DatabaseRotatingImp.cpp), and the threads  *)
(* that read and write nodes through a SHAMap and its cache.  A backend is *)
(* a directory and the nodes in it; a node is what is stored under one     *)
(* hash.  A store that has returned is on disk.                            *)
(***************************************************************************)
EXTENDS Integers

CONSTANTS
    Nodes,      \* the nodes of all the state maps
    Backends,   \* the paths uniqueRandomPath() draws from
    Clients,    \* the threads that use the node store
    NoNode, NoBackend

ASSUME NodeStoreAssumption ==
    /\ NoNode \notin Nodes /\ NoBackend \notin Backends
    /\ \E b, c \in Backends : b # c

VARIABLES
    dirs,               \* the directories of backends that exist
    disk,               \* the nodes stored in a backend
    dead,               \* the backends marked by setDeletePath()
    writable, archive,  \* writableBackend_, archiveBackend_
    old,                \* oldArchiveBackend of a rotate() in progress
    rotationInFlight,   \* rotationInFlight_
    ram,                \* the nodes in the tree node cache
    at,                 \* where a client is in a read or a write
    node,               \* the node it reads or writes
    wr, ar,             \* the backends it holds
    late, straddled     \* history: see straddle

backends == <<dirs, disk, dead>>
pair == <<writable, archive, old>>
client == <<at, node, wr, ar>>
history == <<late, straddled>>
nodeStoreVars == <<backends, pair, rotationInFlight, ram, client, history>>

NodeStoreInit ==
    /\ dead = {}
    /\ writable = NoBackend /\ archive = NoBackend /\ old = NoBackend
    /\ rotationInFlight = FALSE
    /\ ram = {}
    /\ at = [p \in Clients |-> "idle"]
    /\ node = [p \in Clients |-> NoNode]
    /\ wr = [p \in Clients |-> NoBackend]
    /\ ar = [p \in Clients |-> NoBackend]
    /\ late = [p \in Clients |-> FALSE]
    /\ straddled = {}

(* A process dies: its memory is gone, the directories are not.            *)
nodeStoreCrash ==
    /\ dead' = {}
    /\ writable' = NoBackend /\ archive' = NoBackend /\ old' = NoBackend
    /\ rotationInFlight' = FALSE
    /\ ram' = {}
    /\ at' = [p \in Clients |-> "idle"]
    /\ node' = [p \in Clients |-> NoNode]
    /\ wr' = [p \in Clients |-> NoBackend]
    /\ ar' = [p \in Clients |-> NoBackend]
    /\ late' = [p \in Clients |-> FALSE]
    /\ straddled' = {}
    /\ UNCHANGED <<dirs, disk>>

(* The nodes a reader finds.                                               *)
Stored(w, a) == UNION {disk[b] : b \in {w, a} \ {NoBackend}}

-----------------------------------------------------------------------------
(* Backends are shared pointers: a directory marked for deletion is        *)
(* removed by whoever lets go of the backend last.                         *)
Held == {writable, archive, old} \cup {wr[p] : p \in Clients} \cup {ar[p] : p \in Clients}

letGo(stored) ==
    LET gone == dead \ Held'
    IN  /\ dirs' = dirs \ gone
        /\ dead' = dead \ gone
        /\ disk' = [b \in Backends |-> IF b \in gone THEN {} ELSE stored[b]]

(* What a read that is under way cannot know: that the keys of the cache   *)
(* were listed (by freshenCache) after the read looked at the flag, or     *)
(* that the backends were rotated after it took them.  No action reads     *)
(* late or straddled.                                                      *)
straddle(places) == late' = [p \in Clients |-> late[p] \/ at[p] \in places]

-----------------------------------------------------------------------------
(* SHAMap::fetchNode: cacheLookup() misses, and fetchNodeObject() takes    *)
(* the two backends.                                                       *)
fetchNodeObject(p, n) ==
    /\ at[p] = "idle" /\ n \notin ram
    /\ at' = [at EXCEPT ![p] = "fetch"]
    /\ node' = [node EXCEPT ![p] = n]
    /\ wr' = [wr EXCEPT ![p] = writable]
    /\ ar' = [ar EXCEPT ![p] = archive]
    /\ late' = [late EXCEPT ![p] = FALSE]
    /\ UNCHANGED <<backends, pair, rotationInFlight, ram, straddled>>

release(p) ==
    /\ at' = [at EXCEPT ![p] = "idle"]
    /\ node' = [node EXCEPT ![p] = NoNode]
    /\ wr' = [wr EXCEPT ![p] = NoBackend]
    /\ ar' = [ar EXCEPT ![p] = NoBackend]
    /\ late' = [late EXCEPT ![p] = FALSE]

(* Look into the writable backend, then into the archive; for what only    *)
(* the archive has, take the writable backend of now.                      *)
fetch(p) ==
    /\ at[p] = "fetch"
    /\ \/ /\ node[p] \in disk[wr[p]]
          /\ at' = [at EXCEPT ![p] = "found"]
          /\ UNCHANGED <<node, wr, ar, late>>
       \/ /\ node[p] \in disk[ar[p]] \ disk[wr[p]]
          /\ at' = [at EXCEPT ![p] = "archived"]
          /\ wr' = [wr EXCEPT ![p] = writable]
          /\ UNCHANGED <<node, ar, late>>
       \/ /\ node[p] \notin disk[wr[p]] \cup disk[ar[p]]
          /\ release(p)
    /\ UNCHANGED <<pair, rotationInFlight, ram, straddled>>
    /\ letGo(disk)

(* An ordinary read copies forward while a rotation is in flight.          *)
copyForward(p) ==
    /\ at[p] = "archived"
    /\ IF rotationInFlight
       THEN disk' = [disk EXCEPT ![wr[p]] = @ \cup {node[p]}]
       ELSE UNCHANGED disk
    /\ at' = [at EXCEPT ![p] = "found"]
    /\ UNCHANGED <<dirs, dead, pair, rotationInFlight, ram, node, wr, ar, history>>

(* finishFetch(): the node goes into the cache.                            *)
finishFetch(p) ==
    /\ at[p] = "found"
    /\ ram' = ram \cup {node[p]}
    /\ straddled' = IF late[p] THEN straddled \cup {node[p]} ELSE straddled
    /\ release(p)
    /\ UNCHANGED <<pair, rotationInFlight>>
    /\ letGo(disk)

-----------------------------------------------------------------------------
(* writeNode() and addKnownNode() put the node into the cache and store it *)
(* afterwards; store() takes the writable backend.                         *)
writeNode(p, n) ==
    /\ at[p] = "idle"
    /\ ram' = ram \cup {n}
    /\ at' = [at EXCEPT ![p] = "cached"]
    /\ node' = [node EXCEPT ![p] = n]
    /\ UNCHANGED <<backends, pair, rotationInFlight, wr, ar, history>>

store(p) ==
    /\ at[p] = "cached"
    /\ at' = [at EXCEPT ![p] = "store"]
    /\ wr' = [wr EXCEPT ![p] = writable]
    /\ UNCHANGED <<backends, pair, rotationInFlight, ram, node, ar, history>>

backendStore(p) ==
    /\ at[p] = "store"
    /\ straddled' = IF late[p] THEN straddled \cup {node[p]} ELSE straddled
    /\ release(p)
    /\ UNCHANGED <<pair, rotationInFlight, ram>>
    /\ letGo([disk EXCEPT ![wr[p]] = @ \cup {node[p]}])

(* The sweep of the cache drops nodes nobody uses.                         *)
sweep(n) ==
    /\ n \in ram
    /\ ram' = ram \ {n}
    /\ straddled' = straddled \ {n}
    /\ UNCHANGED <<backends, pair, rotationInFlight, client, late>>

-----------------------------------------------------------------------------
(* fetchNodeObject with duplicate = true, by the thread that rotates: what *)
(* the archive has and the writable backend has not is stored there.       *)
Duplicated(n) ==
    IF n \in disk[archive] THEN [disk EXCEPT ![writable] = @ \cup {n}] ELSE disk

setRotationInFlight(inFlight) == rotationInFlight' = inFlight

(* Mutant: the archive is deleted before the state database is updated.    *)
rotateLetsGo(newBackend) ==
    /\ dirs' = dirs \ {archive} /\ disk' = [disk EXCEPT ![archive] = {}]
    /\ archive' = writable
    /\ writable' = newBackend
    /\ straddle({"fetch", "archived", "found", "store"})
    /\ UNCHANGED <<dead, old, rotationInFlight, ram, client, straddled>>

(* The part of rotate() under the mutex.                                   *)
rotate(newBackend) ==
    /\ dead' = dead \cup {archive}
    /\ old' = archive
    /\ archive' = writable
    /\ writable' = newBackend
    /\ straddle({"fetch", "archived", "found", "store"})
    /\ UNCHANGED <<dirs, disk, rotationInFlight, ram, client, straddled>>

(* rotate() returns.                                                       *)
rotated ==
    /\ old' = NoBackend
    /\ UNCHANGED <<writable, archive, rotationInFlight, ram, client, history>>
    /\ letGo(disk)

=============================================================================
