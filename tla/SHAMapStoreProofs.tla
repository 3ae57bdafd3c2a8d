------------------------- MODULE SHAMapStoreProofs --------------------------
(***************************************************************************)
(* Proofs about the node store and its online deletion, for every number   *)
(* of backends, nodes, ledgers, clients and crashes.  StoreInv is the      *)
(* inductive invariant behind RotatedLedgerKept: it holds at first, the    *)
(* start of a server, a crash and every step of the deleting thread        *)
(* preserve it, and so do the clients of the node store, new ledgers and a *)
(* stop.  Then two invariants on top of it: CacheInv, by which no node is  *)
(* left in the cache only, and the types.                                  *)
(***************************************************************************)
EXTENDS SHAMapStore, TLAPS

(* The places of the thread.                                               *)
Starting == {"dbPaths", "openWritable", "openArchive", "nameBackends"}
Idle == {"top", "wait", "awake", "returned"}
Clearing == {"ready", "readyCheck", "clearPrior", "clearSql", "deleteBatch", "cleared"}
Copying == {"copy", "copyCheck", "copied"}
Copied == {"guard", "getKeys", "freshen", "freshenCheck", "freshened", "makeBackend", "made"}
Rotating == {"rotate", "setState"}
Leaving == {"rotated", "unguard"}
Places == Starting \cup Idle \cup Clearing \cup Copying \cup Copied \cup Rotating \cup Leaving

MaybeBackend == Backends \cup {NoBackend}

StoreTypes ==
    /\ dirs \subseteq Backends /\ dead \subseteq dirs
    /\ disk \in [Backends -> SUBSET Nodes]
    /\ ram \subseteq Nodes
    /\ at \in [Clients -> {"idle", "fetch", "archived", "found", "cached", "store"}]
    /\ node \in [Clients -> Nodes \cup {NoNode}]
    /\ wr \in [Clients -> MaybeBackend] /\ ar \in [Clients -> MaybeBackend]
    /\ \A p \in Clients : at[p] # "idle" => node[p] \in Nodes
    /\ \A p \in Clients : at[p] \in {"cached", "store"} => p = App

LoopTypes ==
    /\ pc \in Places
    /\ saved \in [writable : MaybeBackend, archive : MaybeBackend, lastRotated : 0..MaxSeq]
    /\ sql \in [1..Len(Tables) -> Nat]
    /\ stop \in BOOLEAN
    /\ newLedger \in 0..MaxSeq /\ validatedSeq \in 0..MaxSeq /\ lastRotated \in 0..MaxSeq
    /\ validLedger \in 0..MaxSeq /\ lastCheck \in Nat
    /\ todo \subseteq Nodes /\ need \subseteq Nodes

(* The names in the state database are those of the backends in use, and   *)
(* between the swap and the update those of the backends that were; a new  *)
(* backend is not one that is waiting to be removed.                       *)
Naming ==
    /\ saved.writable = NoBackend <=> saved.archive = NoBackend
    /\ Named \subseteq dirs
    /\ pc \in {"openArchive", "nameBackends"} =>
          writable \in dirs /\ (saved.writable # NoBackend => writable = saved.writable)
    /\ pc = "nameBackends" =>
          archive \in dirs /\ (saved.archive # NoBackend => archive = saved.archive)
    /\ pc \notin Starting => writable \in dirs /\ archive \in dirs
    /\ pc \notin Starting \cup {"setState"} => saved.writable = writable /\ saved.archive = archive
    /\ pc = "setState" => saved.writable = archive /\ saved.archive = old
    /\ pc \in {"made", "rotate"} => newBackend \in dirs \ dead

(* What was copied of the ledger that is to be rotated; a copy that was    *)
(* cut short is followed by a health check that fails.                     *)
CopyMade ==
    /\ pc \notin Starting \cup Rotating => lastRotated = saved.lastRotated
    /\ pc \in Rotating => lastRotated = validatedSeq
    /\ pc \in Clearing \cup Copying \cup Copied \cup Rotating =>
          validatedSeq # 0 /\ saved.lastRotated <= validatedSeq
    /\ pc \in Copying => Map[validatedSeq] \ todo \subseteq disk[writable]
    /\ pc = "copied" => stop \/ Expired
    /\ pc \in Copied \cup {"rotate"} => Map[validatedSeq] \subseteq disk[writable]
    /\ pc = "setState" => Map[validatedSeq] \subseteq disk[archive]

(* A process that has not taken a ledger yet.                              *)
Fresh ==
    pc \in Starting =>
        /\ at = [p \in Clients |-> "idle"] /\ ram = {} /\ dead = {}
        /\ newLedger = 0 /\ need = Missing(validLedger, {})

(* Before the first rotation nothing is removed, so what was in memory and *)
(* is not being written is on disk.                                        *)
NothingRemovedYet ==
    /\ pc \in Starting \cup Idle
    /\ validLedger >= FirstSeq - 1
    /\ \A t \in 1..Len(Tables) : sql[t] = FirstSeq
    /\ \A p \in Clients :
          /\ at[p] = "fetch" => wr[p] = writable /\ ar[p] = archive
          /\ at[p] \in {"archived", "store"} => wr[p] = writable
          /\ at[p] \in {"archived", "found"} => node[p] \in Stored(writable, archive)
    /\ ram \subseteq Stored(writable, archive) \cup Writing
    /\ newLedger # 0 => newLedger >= FirstSeq /\ Map[newLedger] \subseteq Stored(writable, archive)
    /\ validLedger < MaxSeq => Map[validLedger + 1] \ need \subseteq Stored(writable, archive)

BeforeFirst == saved.lastRotated = 0 => NothingRemovedYet

(* The invariant that is inductive.                                        *)
StoreInv ==
    /\ StoreTypes /\ LoopTypes /\ Naming /\ CopyMade /\ Fresh /\ BeforeFirst
    /\ RotatedLedgerKept
-----------------------------------------------------------------------------
(* State maps are sets of nodes.                                           *)
LEMMA MapFacts ==
    /\ MaxSeq \in Nat /\ FirstSeq \in 1..MaxSeq
    /\ \A s \in 1..MaxSeq : Map[s] \subseteq Nodes
  BY SHAMapStoreAssumption DEF MaxSeq

LEMMA SeqFacts ==
    ASSUME NEW s
    PROVE  /\ s \in 0..MaxSeq => s \in Nat /\ (s # 0 <=> s \in 1..MaxSeq)
           /\ s \in 1..MaxSeq => s \in 0..MaxSeq /\ s # 0
  <1>1. MaxSeq \in Nat
    BY MapFacts
  <1>2. QED
    BY <1>1

(* What is missing of the next ledger, and what is not.                    *)
LEMMA MissingFacts ==
    ASSUME NEW s \in 0..MaxSeq, NEW S
    PROVE  /\ Missing(s, S) \subseteq Nodes
           /\ s < MaxSeq => Map[s + 1] \ Missing(s, S) \subseteq S
  BY MapFacts DEF Missing

(* Nothing is stored in no backend, and a pair of backends stores what     *)
(* each of them does.                                                      *)
LEMMA StoredInPair ==
    ASSUME NEW w, NEW a
    PROVE  /\ w \in Backends /\ a \in Backends => Stored(w, a) = disk[w] \cup disk[a]
           /\ w = NoBackend /\ a = NoBackend => Stored(w, a) = {}
  BY NodeStoreAssumption DEF Stored

LEMMA InitInv == ASSUME Init PROVE StoreInv
  <1>1. PICK one, two \in Backends :
           /\ one # two /\ one = (CHOOSE b \in Backends : TRUE)
           /\ two = (CHOOSE b \in Backends : b # one)
    BY NodeStoreAssumption
  <1>2. /\ pc = "dbPaths" /\ validLedger \in 0..MaxSeq /\ need = Missing(validLedger, {})
        /\ NodeStoreInit
    BY MapFacts DEF Init, FirstStart, LaterStart
  <1>3. /\ dirs \subseteq Backends /\ disk \in [Backends -> SUBSET Nodes]
        /\ saved \in [writable : MaybeBackend, archive : MaybeBackend, lastRotated : 0..MaxSeq]
        /\ saved.writable = NoBackend <=> saved.archive = NoBackend
        /\ Named \subseteq dirs /\ sql \in [1..Len(Tables) -> Nat]
    <2>1. CASE FirstStart
      BY <2>1, MapFacts DEF FirstStart, Named, MaybeBackend
    <2>2. CASE LaterStart
      <3>1. /\ dirs = {one, two} /\ saved = [writable |-> one, archive |-> two, lastRotated |-> 1]
            /\ disk = [b \in Backends |-> IF b = two THEN Map[1] ELSE {}]
            /\ sql = [t \in 1..Len(Tables) |-> 1]
        BY <1>1, <2>2 DEF LaterStart
      <3>2. QED
        BY <1>1, <3>1, MapFacts, NodeStoreAssumption DEF Named, MaybeBackend
    <2>3. QED
      BY <2>1, <2>2 DEF Init
  <1>4. StoreTypes
    BY <1>2, <1>3 DEF StoreTypes, NodeStoreInit, MaybeBackend
  <1>5. LoopTypes
    <2>1. need \subseteq Nodes
      BY <1>2, MissingFacts
    <2>2. /\ pc \in Places /\ stop \in BOOLEAN
      BY ZenonT(60) DEF Init, Places, Starting
    <2>3. /\ newLedger \in 0..MaxSeq /\ validatedSeq \in 0..MaxSeq /\ lastRotated \in 0..MaxSeq
          /\ lastCheck \in Nat /\ todo \subseteq Nodes
      BY MapFacts DEF Init
    <2>4. QED
      BY <1>2, <1>3, <2>1, <2>2, <2>3 DEF LoopTypes
  <1>6. Naming /\ CopyMade /\ Fresh
    BY <1>2, <1>3 DEF Naming, CopyMade, Fresh, Init, NodeStoreInit, Starting, Clearing, Copying,
                      Copied, Rotating
  <1>7. BeforeFirst
    BY <1>2, MapFacts, MissingFacts
       DEF BeforeFirst, NothingRemovedYet, Init, FirstStart, LaterStart, NodeStoreInit, Starting
  <1>8. RotatedLedgerKept
    <2>1. CASE FirstStart
      BY <1>2, <2>1 DEF FirstStart, RotatedLedgerKept
    <2>2. CASE LaterStart
      <3>1. /\ saved = [writable |-> one, archive |-> two, lastRotated |-> 1]
            /\ disk = [b \in Backends |-> IF b = two THEN Map[1] ELSE {}]
            /\ sql = [t \in 1..Len(Tables) |-> 1]
        BY <1>1, <2>2 DEF LaterStart
      <3>2. Map[1] \subseteq Stored(one, two)
        BY <1>1, <3>1, StoredInPair
      <3>3. QED
        BY <1>2, <3>1, <3>2 DEF RotatedLedgerKept
    <2>3. QED
      BY <2>1, <2>2 DEF Init
  <1>9. QED
    BY <1>4, <1>5, <1>6, <1>7, <1>8 DEF StoreInv
-----------------------------------------------------------------------------
(* The start of a server.                                                  *)

(* Opening a backend that has no name finds a new path.                    *)
LEMMA OpenedFacts ==
    ASSUME NEW path \in MaybeBackend, path = NoBackend => Backends \ dirs # {}
    PROVE  /\ Opened(path) \in Backends
           /\ path # NoBackend => Opened(path) = path
           /\ path = NoBackend => Opened(path) \notin dirs
  BY DEF Opened, MaybeBackend

(* A process that has not taken a ledger yet has nothing to lose.          *)
LEMMA FreshProcess ==
    ASSUME pc' \in Starting \cup Idle, at' = [p \in Clients |-> "idle"], ram' = {}, newLedger' = 0,
           validLedger' \in 0..MaxSeq, need' = Missing(validLedger', {}),
           saved'.lastRotated = 0 => /\ validLedger' >= FirstSeq - 1
                                     /\ \A t \in 1..Len(Tables) : sql'[t] = FirstSeq
    PROVE  BeforeFirst'
  <1>1. validLedger' < MaxSeq => Map[validLedger' + 1] \ need' = {}
    BY MissingFacts
  <1>2. QED
    BY <1>1 DEF BeforeFirst, NothingRemovedYet

(* The rotated ledger stays while the backends that are named lose nothing. *)
LEMMA NamedKept ==
    ASSUME StoreInv, UNCHANGED <<saved, sql>>, pc' \in Places,
           \A b \in Named : disk[b] \subseteq disk'[b]
    PROVE  RotatedLedgerKept'
  <1>1. Stored(saved.writable, saved.archive) \subseteq Stored(saved.writable, saved.archive)'
    BY DEF Stored, Named
  <1>2. pc' # "stateError"
    BY DEF Places, Starting, Idle, Clearing, Copying, Copied, Rotating, Leaving
  <1>3. QED
    BY <1>1, <1>2 DEF StoreInv, RotatedLedgerKept

LEMMA DbPathsInv == ASSUME StoreInv, dbPaths PROVE StoreInv'
  <1>1. /\ pc = "dbPaths" /\ pc' = "openWritable" /\ dirs' = Named
        /\ disk' = [b \in Backends |-> IF b \in Named THEN disk[b] ELSE {}]
        /\ UNCHANGED <<dead, pair, rotationInFlight, ram, client, history, durable, ledgers, crashes>>
        /\ UNCHANGED <<lastCheck, signals, cycle, visit>>
    BY DEF dbPaths, StoreInv, Naming
  <1>2. StoreTypes'
    BY <1>1 DEF StoreInv, StoreTypes, Fresh, Naming, LoopTypes, Named, MaybeBackend, Starting,
       client
  <1>3. LoopTypes'
    BY <1>1 DEF StoreInv, LoopTypes, Places, Starting, durable, ledgers, signals, cycle, visit
  <1>4. Naming'
    BY <1>1 DEF StoreInv, Naming, Named, Starting, durable
  <1>5. Fresh' /\ CopyMade'
    BY <1>1 DEF StoreInv, Fresh, CopyMade, Starting, Clearing, Copying, Copied, Rotating, client,
                signals, ledgers
  <1>6. RotatedLedgerKept'
    <2>1. Named \subseteq Backends
      BY DEF StoreInv, Naming, StoreTypes
    <2>2. QED
      BY <1>1, <1>3, <2>1, NamedKept DEF durable, LoopTypes
  <1>7. BeforeFirst'
    BY <1>1, FreshProcess DEF StoreInv, BeforeFirst, NothingRemovedYet, Fresh, LoopTypes,
       Starting,
                              durable, client, ledgers, signals
  <1>8. QED
    BY <1>2, <1>3, <1>4, <1>5, <1>6, <1>7 DEF StoreInv

LEMMA OpenInv == ASSUME StoreInv, openWritable \/ openArchive PROVE StoreInv'
  <1>1. /\ pc \in {"openWritable", "openArchive"} /\ pc' \in {"openArchive", "nameBackends"}
        /\ UNCHANGED <<disk, dead, old, rotationInFlight, ram, client, history, durable, ledgers, crashes>>
        /\ UNCHANGED <<lastCheck, signals, cycle, visit>>
    BY DEF openWritable, openArchive
  <1>2. /\ dirs \subseteq dirs' /\ dirs' \subseteq Backends
        /\ Naming'
    <2>1. saved.writable \in MaybeBackend /\ saved.archive \in MaybeBackend
      BY SMTT(30) DEF StoreInv, LoopTypes
    <2>2. CASE openWritable
      <3>1. /\ pc = "openWritable" /\ writable' = Opened(saved.writable) /\ dirs' = dirs \cup {writable'}
            /\ pc' = "openArchive"
        BY <2>2 DEF openWritable
      <3>2. writable' \in Backends /\ (saved.writable # NoBackend => writable' = saved.writable)
        BY <2>1, <2>2, <3>1, OpenedFacts DEF openWritable
      <3>3. QED
        BY <1>1, <3>1, <3>2 DEF StoreInv, StoreTypes, Naming, Named, Starting, durable
    <2>3. CASE openArchive
      <3>1. /\ pc = "openArchive" /\ archive' = Opened(saved.archive) /\ dirs' = dirs \cup {archive'}
            /\ pc' = "nameBackends" /\ writable' = writable
        BY <2>3 DEF openArchive
      <3>2. archive' \in Backends /\ (saved.archive # NoBackend => archive' = saved.archive)
        BY <2>1, <2>3, <3>1, OpenedFacts DEF openArchive
      <3>3. QED
        BY <1>1, <3>1, <3>2 DEF StoreInv, StoreTypes, Naming, Named, Starting, durable
    <2>4. QED
      BY <2>2, <2>3
  <1>3. StoreTypes'
    BY <1>1, <1>2 DEF StoreInv, StoreTypes, client
  <1>4. LoopTypes'
    BY <1>1 DEF StoreInv, LoopTypes, Places, Starting, durable, ledgers, signals, cycle, visit
  <1>5. Fresh' /\ CopyMade'
    BY <1>1 DEF StoreInv, Fresh, CopyMade, Starting, Clearing, Copying, Copied, Rotating, client,
                signals, ledgers
  <1>6. RotatedLedgerKept'
    BY <1>1, <1>4, NamedKept, SMTT(30) DEF durable, LoopTypes
  <1>7. BeforeFirst'
    BY <1>1, FreshProcess DEF StoreInv, BeforeFirst, NothingRemovedYet, Fresh, LoopTypes,
       Starting,
                              durable, client, ledgers, signals
  <1>8. QED
    BY <1>2, <1>3, <1>4, <1>5, <1>6, <1>7, SMTT(30) DEF StoreInv

LEMMA NameBackendsInv == ASSUME StoreInv, nameBackends PROVE StoreInv'
  <1>1. /\ pc = "nameBackends" /\ pc' = "top" /\ lastRotated' = saved.lastRotated
        /\ UNCHANGED <<nodeStoreVars, sql, ledgers, crashes>>
        /\ UNCHANGED <<validatedSeq, minimumOnline, lastCheck, signals, visit>>
    BY DEF nameBackends
  <1>2. /\ writable \in dirs /\ archive \in dirs
        /\ saved.writable # NoBackend => saved.writable = writable /\ saved.archive = archive
        /\ dirs \subseteq Backends /\ saved.writable \in MaybeBackend /\ saved.archive \in MaybeBackend
    BY <1>1 DEF StoreInv, Naming, StoreTypes, LoopTypes
  <1>3. saved' = [writable |-> writable, archive |-> archive, lastRotated |-> saved.lastRotated]
    <2>1. CASE saved.writable = NoBackend
      BY <2>1, ZenonT(60) DEF nameBackends, StoreInv, LoopTypes
    <2>2. CASE saved.writable # NoBackend
      BY <1>2, <2>2 DEF nameBackends, StoreInv, LoopTypes
    <2>3. QED
      BY <2>1, <2>2
  <1>4. StoreTypes'
    BY <1>1 DEF StoreInv, StoreTypes, nodeStoreVars, backends, client
  <1>5. LoopTypes'
    BY <1>1, <1>2, <1>3 DEF StoreInv, LoopTypes, Places, Idle, MaybeBackend, ledgers, signals,
       visit
  <1>6. Naming'
    BY <1>1, <1>2, <1>3, NodeStoreAssumption
       DEF Naming, Named, Starting, nodeStoreVars, backends, pair
  <1>7. Fresh' /\ CopyMade'
    BY <1>1, <1>3 DEF Fresh, CopyMade, Starting, Clearing, Copying, Copied, Rotating
  <1>8. RotatedLedgerKept'
    <2>1. Stored(saved.writable, saved.archive) \subseteq Stored(writable, archive)
      BY <1>2, StoredInPair, SMTT(30) DEF StoreInv, Naming
    <2>2. Stored(saved.writable, saved.archive)' = Stored(writable, archive)
      <3>1. disk' = disk
        BY <1>1, Zenon DEF nodeStoreVars, backends
      <3>2. saved'.writable = writable /\ saved'.archive = archive
        BY <1>3, Zenon
      <3>3. QED
        BY <3>1, <3>2, Zenon DEF Stored
    <2>3. QED
      BY <1>1, <1>3, <2>1, <2>2 DEF StoreInv, RotatedLedgerKept
  <1>9. BeforeFirst'
    BY <1>1, <1>3, <1>5, FreshProcess, ZenonT(60)
       DEF StoreInv, BeforeFirst, NothingRemovedYet, Fresh, LoopTypes, Starting, Idle, nodeStoreVars,
           client, ledgers, signals
  <1>10. QED
    BY <1>4, <1>5, <1>6, <1>7, <1>8, <1>9 DEF StoreInv

(* A crash anywhere leaves the names of backends that exist.               *)
LEMMA CrashInv == ASSUME StoreInv, crash PROVE StoreInv'
  <1>1. /\ pc' = "dbPaths" /\ nodeStoreCrash /\ stop' = FALSE /\ newLedger' = 0
        /\ validatedSeq' = 0 /\ lastRotated' = 0 /\ lastCheck' = 0 /\ todo' = {}
        /\ need' = Missing(validLedger, {}) /\ UNCHANGED <<saved, sql, validLedger, dirs, disk>>
    BY DEF crash, nodeStoreCrash, durable
  <1>2. validLedger \in 0..MaxSeq /\ need' \subseteq Nodes
    BY <1>1, MissingFacts DEF StoreInv, LoopTypes
  <1>3. StoreTypes'
    BY <1>1 DEF StoreInv, StoreTypes, nodeStoreCrash, MaybeBackend
  <1>4. LoopTypes'
    <2>1. pc' \in Places /\ stop' \in BOOLEAN
      BY <1>1, ZenonT(60) DEF Places, Starting
    <2>2. QED
      <3>1. 0 \in 0..MaxSeq /\ 0 \in Nat
        <4>1. MaxSeq \in Nat
          BY MapFacts, Zenon
        <4>2. QED
          BY <4>1
      <3>2. QED
        BY <1>1, <1>2, <2>1, <3>1, ZenonT(30) DEF StoreInv, LoopTypes
  <1>5. Naming' /\ Fresh' /\ CopyMade'
    BY <1>1, ZenonT(60) DEF StoreInv, Naming, Named, Fresh, CopyMade, nodeStoreCrash, Starting,
       Clearing, Copying,
                Copied, Rotating
  <1>6. RotatedLedgerKept'
    BY <1>1, <1>4, NamedKept, ZenonT(60) DEF LoopTypes
  <1>7. BeforeFirst'
    BY <1>1, <1>2, FreshProcess, ZenonT(60)
       DEF StoreInv, BeforeFirst, NothingRemovedYet, LoopTypes, nodeStoreCrash, Starting
  <1>8. QED
    BY <1>3, <1>4, <1>5, <1>6, <1>7 DEF StoreInv
-----------------------------------------------------------------------------
(* The thread, where it leaves the backends alone.                         *)

StoreStill == UNCHANGED <<backends, pair, ram, client, durable, signals, ledgers, validatedSeq>>

LEMMA Moves ==
    ASSUME StoreInv, StoreStill,
           pc \notin Starting \cup {"setState"}, pc' \in Places \ (Starting \cup {"setState"}),
           pc' \in {"made", "rotate"} => newBackend' \in dirs \ dead,
           saved.lastRotated = 0 => pc' \in Idle,
           lastCheck' \in Nat, lastRotated' \in 0..MaxSeq, todo' \subseteq Nodes, CopyMade'
    PROVE  StoreInv'
  <1>1. StoreTypes'
    BY DEF StoreInv, StoreTypes, StoreStill, backends, client
  <1>2. LoopTypes'
    BY DEF StoreInv, LoopTypes, StoreStill, durable, signals, ledgers
  <1>3. Naming' /\ Fresh'
    BY DEF StoreInv, Naming, Named, Fresh, Starting, StoreStill, backends, pair, durable
  <1>4. RotatedLedgerKept'
    BY <1>2, NamedKept DEF StoreStill, backends, durable, LoopTypes
  <1>5. BeforeFirst'
    <2>1. UNCHANGED <<disk, writable, archive, ram, at, node, wr, ar, saved, sql, newLedger,
                      validLedger, need>>
      BY Zenon DEF StoreStill, backends, pair, client, durable, signals, ledgers
    <2>2. Stored(writable, archive)' = Stored(writable, archive) /\ Writing' = Writing
      BY <2>1, Zenon DEF Stored, Writing
    <2>3. BeforeFirst
      BY DEF StoreInv
    <2>4. QED
      BY <2>1, <2>2, <2>3, ZenonT(30) DEF BeforeFirst, NothingRemovedYet
  <1>6. QED
    BY <1>1, <1>2, <1>3, <1>4, <1>5 DEF StoreInv

(* A health check goes on only if it succeeded, and where it fails the     *)
(* next one fails as well.                                                 *)
LEMMA HealthFacts ==
    ASSUME StoreInv, NEW k, NEW e, NEW s, healthWait(k, e, s)
    PROVE  /\ lastCheck' \in Nat
           /\ \/ pc' = k /\ ~stop /\ ~Expired
              \/ pc' \in {e, s} /\ lastCheck' = lastCheck /\ (stop \/ Expired)
  BY DEF healthWait, StoreInv, LoopTypes

(* Between cycles, and until the copy begins.                              *)
LEMMA ClearingInv ==
    ASSUME StoreInv,
           top \/ wakeUp \/ firstCheck \/ readyToRotate \/ clearPrior \/ clearSql \/ afterClearPrior
    PROVE  StoreInv'
  <1> DEFINE Early == Idle \cup Clearing
  <1>1. StoreStill /\ lastRotated' = lastRotated /\ pc \in Early
    BY DEF StoreStill, top, wakeUp, firstCheck, readyToRotate, clearPrior, clearSql,
       afterClearPrior,
           nodeStoreVars, cycle, Idle, Clearing
  <1>2. /\ lastCheck' \in Nat
        /\ \/ pc' \in Idle /\ (todo' = todo \/ (pc \in Clearing /\ todo' = Map[validatedSeq]))
           \/ pc \in Clearing /\ pc' \in Clearing /\ todo' = todo
           \/ pc \in Clearing /\ pc' = "copy" /\ todo' = Map[validatedSeq]
    <2>1. CASE top \/ wakeUp \/ firstCheck
      <3>1. todo' = todo /\ (lastCheck' = lastCheck \/ lastCheck' = validLedger)
        BY <2>1 DEF top, wakeUp, firstCheck, visit
      <3>2. pc' \in Idle \/ (pc = "ready" /\ pc' = "readyCheck")
        BY <2>1 DEF top, wakeUp, firstCheck, Idle
      <3>3. lastCheck' \in Nat
        BY <3>1, MapFacts DEF StoreInv, LoopTypes
      <3>4. QED
        BY <3>1, <3>2, <3>3 DEF Clearing
    <2>2. CASE readyToRotate
      <3>1. todo' = todo /\ pc = "readyCheck" /\ healthWait("clearPrior", "top", "top")
        BY <2>2 DEF readyToRotate, visit
      <3>2. QED
        BY <3>1, HealthFacts DEF Clearing, Idle
    <2>3. CASE clearPrior
      BY <2>3, HealthFacts DEF clearPrior, Clearing
    <2>4. CASE clearSql
      BY <2>4, HealthFacts DEF clearSql, Clearing
    <2>5. CASE afterClearPrior
      BY <2>5, HealthFacts DEF afterClearPrior, Clearing, Idle
    <2>6. QED
      BY <2>1, <2>2, <2>3, <2>4, <2>5
  <1>3. saved.lastRotated = 0 => pc \in Idle
    BY <1>1 DEF StoreInv, BeforeFirst, NothingRemovedYet, Idle, Clearing, Starting
  <1>4. CopyMade'
    BY <1>1, <1>2 DEF StoreInv, CopyMade, StoreStill, backends, pair, durable, Starting, Idle,
       Clearing,
                      Copying, Copied, Rotating
  <1>5. todo' \subseteq Nodes
    <2>1. pc \in Clearing => validatedSeq \in 1..MaxSeq
      BY SeqFacts, Zenon DEF StoreInv, LoopTypes, CopyMade
    <2>2. QED
      BY <1>2, <2>1, MapFacts DEF StoreInv, LoopTypes
  <1>6. /\ pc \notin Starting \cup {"setState"} /\ pc' \in Places \ (Starting \cup {"setState"})
        /\ pc' \notin {"made", "rotate"}
    BY <1>1, <1>2 DEF Places, Starting, Idle, Clearing, Copying
  <1>7. saved.lastRotated = 0 => pc' \in Idle
    BY <1>2, <1>3 DEF Idle, Clearing
  <1>8. QED
    BY <1>1, <1>2, <1>4, <1>5, <1>6, <1>7, Moves DEF StoreInv, LoopTypes

(* The health checks of a copy and the refresh of the cache: a copy that   *)
(* was cut short does not get to the rotation.                             *)
LEMMA CheckingInv ==
    ASSUME StoreInv,
           \/ copyCheck \/ afterCopy \/ guard \/ getKeys \/ freshenCheck \/ afterFreshen
           \/ afterClearCaches \/ unguard
    PROVE  StoreInv'
  <1>1. StoreStill /\ pc \in Copying \cup Copied \cup {"unguard"}
    BY DEF StoreStill, copyCheck, afterCopy, guard, getKeys, freshenCheck, afterFreshen,
           afterClearCaches, unguard, nodeStoreVars, cycle, setRotationInFlight, Copying, Copied
  <1>2. /\ lastCheck' \in Nat /\ todo' \subseteq Nodes
        /\ \/ pc = "copyCheck" /\ pc' = "copy" /\ todo' = todo /\ lastRotated' = lastRotated
           \/ /\ pc = "copyCheck" /\ pc' = "copied" /\ todo' = todo /\ lastRotated' = lastRotated
              /\ stop \/ Expired
              /\ lastCheck' = lastCheck
           \/ pc = "copy" /\ todo = {} /\ pc' = "guard" /\ lastRotated' = lastRotated
           \/ pc \in Copied /\ pc' \in Copied \ {"made"} /\ lastRotated' = lastRotated
           \/ pc = "made" /\ pc' = "rotate" /\ lastRotated' = validatedSeq /\ newBackend' = newBackend
           \/ pc' \in Idle \cup {"unguard"} /\ lastRotated' = lastRotated
    <2> USE DEF cycle, visit, Idle, Copied
    <2>1. todo \subseteq Nodes /\ ram \subseteq Nodes /\ lastCheck \in Nat
      BY DEF StoreInv, LoopTypes, StoreTypes
    <2>2. CASE copyCheck
      BY <2>1, <2>2, HealthFacts DEF copyCheck
    <2>3. CASE afterCopy
      <3>1. pc = "copied" => stop \/ Expired
        BY DEF StoreInv, CopyMade
      <3>2. QED
        BY <2>1, <2>3, <3>1, HealthFacts DEF afterCopy
    <2>4. CASE guard \/ getKeys \/ unguard
      BY <2>1, <2>4, ZenonT(60) DEF guard, getKeys, unguard
    <2>5. CASE freshenCheck
      BY <2>1, <2>5, HealthFacts DEF freshenCheck
    <2>6. CASE afterFreshen
      BY <2>1, <2>6, HealthFacts DEF afterFreshen
    <2>7. CASE afterClearCaches
      BY <2>1, <2>7, HealthFacts DEF afterClearCaches
    <2>8. QED
      BY <2>2, <2>3, <2>4, <2>5, <2>6, <2>7
  <1>3. saved.lastRotated # 0
    BY <1>1 DEF StoreInv, BeforeFirst, NothingRemovedYet, Starting, Idle, Copying, Copied
  <1>4. CopyMade'
    BY <1>1, <1>2 DEF StoreInv, CopyMade, StoreStill, Expired, backends, pair, durable, signals,
       ledgers,
                      Starting, Idle, Clearing, Copying, Copied, Rotating
  <1>5. /\ pc \notin Starting \cup {"setState"} /\ pc' \in Places \ (Starting \cup {"setState"})
        /\ pc' # "made" /\ (pc' = "rotate" => newBackend' = newBackend /\ pc = "made")
    BY <1>1, <1>2 DEF Places, Starting, Idle, Clearing, Copying, Copied, Rotating, Leaving
  <1>6. pc' \in {"made", "rotate"} => newBackend' \in dirs \ dead
    BY <1>5 DEF StoreInv, Naming
  <1>7. lastRotated' \in 0..MaxSeq
    BY <1>2 DEF StoreInv, LoopTypes
  <1>8. QED
    BY <1>1, <1>2, <1>3, <1>4, <1>5, <1>6, <1>7, Moves
-----------------------------------------------------------------------------
(* The thread, where it writes.                                            *)

(* The first ledger ever taken is on disk: nothing was removed before.     *)
LEMMA TakeLedgerInv == ASSUME StoreInv, takeLedger PROVE StoreInv'
  <1>1. /\ pc = "awake" /\ newLedger' = 0
        /\ UNCHANGED <<nodeStoreVars, sql, ledgers, crashes>> /\ UNCHANGED <<stop, minimumOnline, visit>>
    BY DEF takeLedger
  <1>2. CASE newLedger = 0
    <2>1. StoreStill /\ pc' = "top" /\ lastRotated' = lastRotated /\ lastCheck' = lastCheck /\ todo' = todo
      BY <1>1, <1>2 DEF takeLedger, StoreStill, nodeStoreVars, durable, signals, visit
    <2>2. CopyMade'
      BY <1>1, <2>1 DEF StoreInv, CopyMade, StoreStill, durable, Starting, Clearing, Copying,
         Copied, Rotating
    <2>3. pc \notin Starting \cup {"setState"} /\ pc' \in Idle /\ pc' \in Places \ (Starting \cup {"setState"})
      BY <1>1, <2>1 DEF Starting, Places, Idle
    <2>4. QED
      BY <2>1, <2>2, <2>3, Moves DEF StoreInv, LoopTypes
  <1>3. CASE newLedger # 0
    <2>1. /\ validatedSeq' = newLedger /\ lastCheck' = 0
          /\ lastRotated' = IF lastRotated = 0 THEN newLedger ELSE lastRotated
          /\ saved' = IF lastRotated = 0 THEN [saved EXCEPT !.lastRotated = newLedger] ELSE saved
          /\ \/ pc' = "top"
             \/ pc' = "ready" /\ newLedger >= lastRotated' + deleteInterval
      BY <1>3 DEF takeLedger
    <2>2. lastRotated = saved.lastRotated /\ newLedger \in 1..MaxSeq /\ lastRotated \in 0..MaxSeq
      <3>1. pc \notin Starting \cup Rotating /\ newLedger # 0
        BY <1>1, <1>3 DEF Starting, Rotating
      <3>2. /\ lastRotated = saved.lastRotated
            /\ newLedger \in 0..MaxSeq /\ lastRotated \in 0..MaxSeq
        BY <3>1, Zenon DEF StoreInv, CopyMade, LoopTypes
      <3>3. QED
        BY <3>1, <3>2, SeqFacts, Zenon
    <2>3. /\ saved'.writable = saved.writable /\ saved'.archive = saved.archive
          /\ saved'.lastRotated = lastRotated' /\ lastRotated' \in 1..MaxSeq
          /\ saved' \in [writable : MaybeBackend, archive : MaybeBackend, lastRotated : 0..MaxSeq]
      BY <2>1, <2>2 DEF StoreInv, LoopTypes
    <2>4. pc' = "ready" => saved'.lastRotated <= validatedSeq'
      BY <2>1, <2>2, <2>3, SHAMapStoreAssumption
    <2>5. StoreTypes'
      BY <1>1 DEF StoreInv, StoreTypes, nodeStoreVars, backends, client
    <2>6. LoopTypes'
      <3>1. pc' \in Places
        BY <2>1 DEF Places, Idle, Clearing
      <3>2. newLedger' \in 0..MaxSeq /\ lastCheck' \in Nat /\ validatedSeq' \in 0..MaxSeq
        BY <1>1, <2>1, <2>2, MapFacts
      <3>3. QED
        BY <1>1, <2>3, <3>1, <3>2 DEF StoreInv, LoopTypes, ledgers, visit
    <2>7. Naming' /\ Fresh'
      BY <1>1, <2>1, <2>3 DEF StoreInv, Naming, Named, Fresh, Starting, nodeStoreVars, backends,
         pair
    <2>8. CopyMade'
      BY <2>1, <2>2, <2>3, <2>4 DEF CopyMade, Starting, Clearing, Copying, Copied, Rotating
    <2>9. BeforeFirst'
      BY <2>3 DEF BeforeFirst
    <2>10. RotatedLedgerKept'
      <3>1. Stored(saved.writable, saved.archive)' = Stored(saved.writable, saved.archive)
        BY <1>1, <2>3 DEF Stored, nodeStoreVars, backends
      <3>2. saved.writable = writable /\ saved.archive = archive
        BY <1>1 DEF StoreInv, Naming, Starting
      <3>3. CASE lastRotated = 0
        BY <1>1, <1>3, <2>1, <2>2, <2>3, <3>1, <3>2, <3>3, MapFacts
           DEF StoreInv, BeforeFirst, NothingRemovedYet, RotatedLedgerKept
      <3>4. CASE lastRotated # 0
        BY <1>1, <2>1, <2>2, <3>1, <3>4 DEF StoreInv, RotatedLedgerKept
      <3>5. QED
        BY <3>3, <3>4
    <2>11. QED
      BY <2>5, <2>6, <2>7, <2>8, <2>9, <2>10 DEF StoreInv
  <1>4. QED
    BY <1>2, <1>3

(* A batch never reaches past the last rotated ledger.                     *)
LEMMA DeleteInv == ASSUME StoreInv, deleteBeforeSeq PROVE StoreInv'
  <1>1. /\ pc = "deleteBatch" /\ pc' = "clearSql"
        /\ sql' = [sql EXCEPT ![table] = IF @ + deleteBatch < lastRotated THEN @ + deleteBatch ELSE lastRotated]
        /\ UNCHANGED <<nodeStoreVars, saved, ledgers, crashes, lastCheck, signals, cycle, visit>>
    BY DEF deleteBeforeSeq
  <1>2. /\ lastRotated = saved.lastRotated /\ lastRotated \in Nat /\ deleteBatch \in Nat
        /\ sql \in [1..Len(Tables) -> Nat]
    <2>1. pc \notin Starting \cup Rotating
      BY <1>1 DEF Starting, Rotating
    <2>2. /\ lastRotated = saved.lastRotated /\ lastRotated \in 0..MaxSeq
          /\ sql \in [1..Len(Tables) -> Nat]
      BY <2>1, Zenon DEF StoreInv, CopyMade, LoopTypes
    <2>3. deleteBatch \in Nat
      BY SHAMapStoreAssumption
    <2>4. QED
      BY <2>2, <2>3, SeqFacts, Zenon
  <1>3. /\ sql' \in [1..Len(Tables) -> Nat]
        /\ \A t \in 1..Len(Tables) : sql'[t] = sql[t] \/ sql'[t] <= saved.lastRotated
    <2> DEFINE next == IF sql[table] + deleteBatch < lastRotated THEN sql[table] + deleteBatch ELSE lastRotated
    <2>1. sql' = [sql EXCEPT ![table] = next]
      BY <1>1
    <2>2. table \in 1..Len(Tables) => next \in Nat /\ next <= saved.lastRotated
      BY <1>2
    <2> HIDE DEF next
    <2>3. QED
      BY <1>2, <2>1, <2>2, ZenonT(60)
  <1>4. saved.lastRotated # 0
    BY <1>1 DEF StoreInv, BeforeFirst, NothingRemovedYet, Starting, Idle
  <1>5. StoreTypes' /\ Naming' /\ Fresh' /\ CopyMade' /\ BeforeFirst'
    BY <1>1, <1>4 DEF StoreInv, StoreTypes, Naming, Named, Fresh, CopyMade, BeforeFirst,
       Starting, Clearing,
                      Copying, Copied, Rotating, nodeStoreVars, backends, pair, client, cycle
  <1>6. LoopTypes'
    <2>1. pc' \in Places
      BY <1>1 DEF Places, Clearing
    <2>2. QED
      BY <1>1, <1>3, <2>1, ZenonT(30) DEF StoreInv, LoopTypes, ledgers, signals, cycle, visit
  <1>7. RotatedLedgerKept'
    <2>1. Stored(saved.writable, saved.archive)' = Stored(saved.writable, saved.archive)
      BY <1>1 DEF Stored, nodeStoreVars, backends
    <2>2. QED
      BY <1>1, <1>3, <2>1, ZenonT(60) DEF StoreInv, RotatedLedgerKept
  <1>8. QED
    BY <1>5, <1>6, <1>7 DEF StoreInv

(* The copy and the refresh of the cache add to the writable backend.      *)
LEMMA WriteInv == ASSUME StoreInv, copyNode \/ freshenCache PROVE StoreInv'
  <1>1. /\ pc \in {"copy", "freshen"} /\ saved.lastRotated # 0 /\ writable \in Backends
        /\ validatedSeq \in 1..MaxSeq /\ todo \subseteq Nodes /\ disk \in [Backends -> SUBSET Nodes]
    <2>1. pc \in {"copy", "freshen"}
      BY DEF copyNode, freshenCache
    <2>2. QED
      <3>1. pc \notin Starting /\ pc \notin Idle /\ pc \in Copying \cup Copied
        BY <2>1 DEF Starting, Idle, Copying, Copied
      <3>2. saved.lastRotated # 0
        BY <3>1, Zenon DEF StoreInv, BeforeFirst, NothingRemovedYet
      <3>3. writable \in Backends /\ todo \subseteq Nodes /\ disk \in [Backends -> SUBSET Nodes]
        BY <3>1, Zenon DEF StoreInv, Naming, StoreTypes, LoopTypes
      <3>4. validatedSeq \in 0..MaxSeq /\ validatedSeq # 0
        BY <3>1, Zenon DEF StoreInv, LoopTypes, CopyMade
      <3>5. validatedSeq \in 1..MaxSeq
        BY <3>4, SeqFacts, Zenon
      <3>6. QED
        BY <2>1, <3>2, <3>3, <3>5
  <1>2. UNCHANGED <<dirs, dead, pair, client, durable, ledgers, newBackend, lastCheck, signals, cycle>>
    BY DEF copyNode, freshenCache
  <1>3. /\ disk' \in [Backends -> SUBSET Nodes] /\ \A b \in Backends : disk[b] \subseteq disk'[b]
        /\ ram' \subseteq Nodes /\ todo' \subseteq Nodes
        /\ \/ pc' = "top"
           \/ /\ pc = "copy" /\ pc' \in {"copy", "copyCheck"}
              /\ todo \ todo' \subseteq disk'[writable]
           \/ pc = "freshen" /\ pc' \in {"freshen", "freshenCheck"}
    <2>1. CASE copyNode
      <3>1. PICK n \in todo :
               \/ /\ disk' = [disk EXCEPT ![writable] = @ \cup {n}]
                  /\ ram' = ram \cup {n} /\ todo' = todo \ {n}
                  /\ pc = "copy" /\ pc' \in {"copy", "copyCheck"}
               \/ pc' = "top" /\ UNCHANGED <<disk, ram, todo>>
        BY <2>1 DEF copyNode, visited
      <3>2. ram \subseteq Nodes
        BY DEF StoreInv, StoreTypes
      <3>3. CASE pc' = "top" /\ UNCHANGED <<disk, ram, todo>>
        BY <1>1, <3>2, <3>3
      <3>4. CASE /\ disk' = [disk EXCEPT ![writable] = @ \cup {n}]
                 /\ ram' = ram \cup {n} /\ todo' = todo \ {n}
                 /\ pc = "copy" /\ pc' \in {"copy", "copyCheck"}
        BY <1>1, <3>2, <3>4, SMTT(30)
      <3>5. QED
        BY <3>1, <3>3, <3>4
    <2>2. CASE freshenCache
      <3>1. PICK n \in todo :
               /\ disk' = Duplicated(n) /\ todo' = todo \ {n} /\ ram' = ram
               /\ pc = "freshen" /\ pc' \in {"freshen", "freshenCheck"}
        BY <2>2 DEF freshenCache, visited
      <3>2. QED
        BY <1>1, <3>1 DEF StoreInv, StoreTypes, Duplicated
    <2>3. QED
      BY <2>1, <2>2
  <1>4. StoreTypes'
    BY <1>2, <1>3 DEF StoreInv, StoreTypes, client
  <1>5. LoopTypes'
    <2>1. pc' \in Places
      BY <1>3 DEF Places, Idle, Copying, Copied
    <2>2. QED
      BY <1>2, <1>3, <2>1 DEF StoreInv, LoopTypes, durable, ledgers, signals, cycle
  <1>6. pc' \notin Starting \cup Clearing \cup Rotating \cup {"made", "copied"}
    BY <1>3 DEF Starting, Clearing, Rotating
  <1>7. Naming' /\ Fresh' /\ BeforeFirst'
    BY <1>1, <1>2, <1>6 DEF StoreInv, Naming, Named, Fresh, BeforeFirst, Starting, Rotating,
       pair, durable
  <1>8. CopyMade'
    BY <1>1, <1>2, <1>3, <1>6 DEF StoreInv, CopyMade, Starting, Clearing, Copying, Copied,
       Rotating, pair, durable,
                      cycle
  <1>9. RotatedLedgerKept'
    <2>1. Named \subseteq Backends
      BY DEF StoreInv, Naming, StoreTypes
    <2>2. QED
      BY <1>2, <1>3, <1>5, <2>1, NamedKept DEF durable, LoopTypes
  <1>10. QED
    BY <1>4, <1>5, <1>7, <1>8, <1>9 DEF StoreInv

LEMMA MakeBackendInv == ASSUME StoreInv, makeBackendRotating PROVE StoreInv'
  <1>1. /\ pc = "makeBackend" /\ pc' = "made" /\ Backends \ dirs # {}
        /\ newBackend' = Opened(NoBackend) /\ dirs' = dirs \cup {newBackend'}
        /\ UNCHANGED <<disk, dead, pair, ram, client, durable, ledgers, lastCheck, signals, cycle, todo>>
    BY DEF makeBackendRotating
  <1>2. newBackend' \in Backends /\ newBackend' \notin dirs
    BY <1>1, OpenedFacts DEF MaybeBackend
  <1>3. StoreTypes'
    BY <1>1, <1>2 DEF StoreInv, StoreTypes, client
  <1>4. LoopTypes'
    <2>1. pc' \in Places
      BY <1>1 DEF Places, Copied
    <2>2. QED
      BY <1>1, <2>1, ZenonT(30) DEF StoreInv, LoopTypes, durable, ledgers, signals, cycle
  <1>5. Naming' /\ Fresh'
    <2>1. /\ writable' = writable /\ archive' = archive /\ saved' = saved /\ dead' = dead
          /\ dirs \subseteq dirs' /\ newBackend' \in dirs' /\ newBackend' \notin dead
      BY <1>1, <1>2, Zenon DEF StoreInv, StoreTypes, pair, durable
    <2>2. /\ pc \notin Starting \cup {"setState"}
          /\ pc' \notin Starting \cup {"setState", "openArchive", "nameBackends"}
      BY <1>1 DEF Starting
    <2>3. /\ saved.writable = NoBackend <=> saved.archive = NoBackend
          /\ Named \subseteq dirs /\ writable \in dirs /\ archive \in dirs
          /\ saved.writable = writable /\ saved.archive = archive
      BY <2>2, Zenon DEF StoreInv, Naming
    <2>4. Named' \subseteq dirs'
      BY <2>1, <2>3, Zenon DEF Named
    <2>5. Naming'
      BY <2>1, <2>2, <2>3, <2>4 DEF Naming
    <2>6. QED
      BY <2>2, <2>5, Zenon DEF Fresh
  <1>6. CopyMade' /\ BeforeFirst'
    BY <1>1 DEF StoreInv, CopyMade, BeforeFirst, NothingRemovedYet, Starting, Idle, Clearing,
       Copying, Copied,
                Rotating, pair, durable, cycle
  <1>7. RotatedLedgerKept'
    BY <1>1, <1>4, NamedKept DEF durable, LoopTypes
  <1>8. QED
    BY <1>3, <1>4, <1>5, <1>6, <1>7 DEF StoreInv

(* Between the swap and the update of the state database, the names are    *)
(* those of the old pair, which is still there.                            *)
LEMMA SwapInv == ASSUME StoreInv, swapBackends PROVE StoreInv'
  <1>1. /\ pc = "rotate" /\ pc' = "setState"
        /\ dead' = dead \cup {archive} /\ old' = archive /\ archive' = writable /\ writable' = newBackend
        /\ UNCHANGED <<dirs, disk, ram, client, durable, ledgers, lastCheck, signals, cycle, todo>>
    BY SMTT(30) DEF swapBackends, rotate
  <1>2. StoreTypes'
    BY <1>1 DEF StoreInv, StoreTypes, Naming, Starting, client
  <1>3. LoopTypes'
    <2>1. pc' \in Places
      BY <1>1 DEF Places, Rotating
    <2>2. QED
      BY <1>1, <2>1, ZenonT(30) DEF StoreInv, LoopTypes, durable, ledgers, signals, cycle
  <1>4. Naming' /\ Fresh'
    <2>1. /\ pc \notin Starting \cup {"setState"} /\ pc \in {"made", "rotate"}
          /\ pc' \notin Starting \cup {"openArchive", "nameBackends", "made", "rotate"}
      BY <1>1 DEF Starting
    <2>2. /\ saved.writable = NoBackend <=> saved.archive = NoBackend
          /\ Named \subseteq dirs /\ writable \in dirs /\ archive \in dirs
          /\ saved.writable = writable /\ saved.archive = archive /\ newBackend \in dirs
      BY <2>1, Zenon DEF StoreInv, Naming
    <2>3. saved' = saved /\ dirs' = dirs
      BY <1>1, Zenon DEF durable
    <2>4. Naming'
      BY <1>1, <2>1, <2>2, <2>3 DEF Naming, Named
    <2>5. QED
      BY <2>1, <2>4, Zenon DEF Fresh
  <1>5. CopyMade' /\ BeforeFirst'
    <2>1. /\ saved' = saved /\ lastRotated' = lastRotated /\ validatedSeq' = validatedSeq
          /\ disk' = disk /\ archive' = writable
      BY <1>1, Zenon DEF durable, cycle
    <2>2. /\ pc \in Rotating /\ pc \in Copied \cup {"rotate"} /\ pc \notin Starting \cup Idle
          /\ pc' \in Rotating /\ pc' \notin Copying \cup {"copied", "rotate"} \cup Copied
      BY <1>1 DEF Starting, Idle, Copying, Copied, Rotating
    <2>3. /\ lastRotated = validatedSeq /\ validatedSeq # 0 /\ saved.lastRotated <= validatedSeq
          /\ Map[validatedSeq] \subseteq disk[writable] /\ saved.lastRotated # 0
      BY <2>2, Zenon DEF StoreInv, CopyMade, BeforeFirst, NothingRemovedYet
    <2>4. QED
      BY <2>1, <2>2, <2>3, Zenon DEF CopyMade, BeforeFirst
  <1>6. RotatedLedgerKept'
    BY <1>1, <1>3, NamedKept DEF durable, LoopTypes
  <1>7. QED
    BY <1>2, <1>3, <1>4, <1>5, <1>6 DEF StoreInv

LEMMA SetStateInv == ASSUME StoreInv, setState PROVE StoreInv'
  <1>1. /\ pc = "setState" /\ pc' = "rotated"
        /\ saved' = [writable |-> writable, archive |-> archive, lastRotated |-> lastRotated]
        /\ UNCHANGED <<nodeStoreVars, sql, ledgers, crashes, lastCheck, signals, cycle, visit>>
    BY ZenonT(30) DEF setState
  <1>2. /\ writable \in dirs /\ archive \in dirs /\ dirs \subseteq Backends
        /\ lastRotated \in 1..MaxSeq /\ lastRotated = validatedSeq /\ saved.lastRotated # 0
        /\ saved.lastRotated <= lastRotated /\ saved.lastRotated \in Nat
        /\ Map[lastRotated] \subseteq disk[archive]
    <2>1. pc \notin Starting /\ pc \notin Idle /\ pc \in Rotating
      BY <1>1 DEF Starting, Idle, Rotating
    <2>2. writable \in dirs /\ archive \in dirs /\ dirs \subseteq Backends
      BY <2>1, Zenon DEF StoreInv, StoreTypes, Naming
    <2>3. saved.lastRotated # 0
      BY <2>1, Zenon DEF StoreInv, BeforeFirst, NothingRemovedYet
    <2>4. /\ lastRotated = validatedSeq /\ validatedSeq # 0 /\ saved.lastRotated <= validatedSeq
          /\ Map[validatedSeq] \subseteq disk[archive]
      BY <1>1, <2>1, Zenon DEF StoreInv, CopyMade
    <2>5. lastRotated \in 0..MaxSeq /\ saved.lastRotated \in 0..MaxSeq
      BY DEF StoreInv, LoopTypes
    <2>6. lastRotated \in 1..MaxSeq /\ saved.lastRotated \in Nat
      BY <2>4, <2>5, MapFacts
    <2>7. QED
      BY <2>2, <2>3, <2>4, <2>6, Zenon
  <1>3. StoreTypes'
    BY <1>1, ZenonT(30) DEF StoreInv, StoreTypes, nodeStoreVars, backends, client
  <1>4. LoopTypes'
    <2>1. saved' \in [writable : MaybeBackend, archive : MaybeBackend, lastRotated : 0..MaxSeq]
      <3>1. writable \in MaybeBackend /\ archive \in MaybeBackend /\ lastRotated \in 0..MaxSeq
        BY <1>2, MapFacts DEF MaybeBackend
      <3>2. QED
        BY <1>1, <3>1
    <2>2. pc' \in Places
      BY <1>1 DEF Places, Leaving
    <2>3. QED
      BY <1>1, <2>1, <2>2, Zenon DEF StoreInv, LoopTypes, ledgers, signals, cycle, visit
  <1>5. Naming' /\ Fresh'
    BY <1>1, <1>2, NodeStoreAssumption DEF Naming, Named, Fresh, Starting, nodeStoreVars,
       backends, pair
  <1>6. CopyMade' /\ BeforeFirst'
    <2>1. saved'.lastRotated = lastRotated /\ lastRotated' = lastRotated /\ lastRotated # 0
      BY <1>1, <1>2, SeqFacts, Zenon DEF cycle
    <2>2. /\ pc' \notin Clearing \cup Copying \cup Copied \cup Rotating
          /\ pc' \notin {"copied", "rotate", "setState"}
      BY <1>1 DEF Clearing, Copying, Copied, Rotating
    <2>3. QED
      BY <2>1, <2>2, Zenon DEF CopyMade, BeforeFirst
  <1>7. RotatedLedgerKept'
    <2>1. Stored(saved.writable, saved.archive)' = Stored(writable, archive)
      BY <1>1, ZenonT(60) DEF Stored, nodeStoreVars, backends
    <2>2. Map[lastRotated] \subseteq Stored(writable, archive)
      <3>1. Stored(writable, archive) = disk[writable] \cup disk[archive]
        BY <1>2, StoredInPair, Zenon
      <3>2. QED
        BY <1>2, <3>1, Zenon
    <2>3. \A t \in 1..Len(Tables) : sql[t] <= lastRotated
      <3>1. ASSUME NEW t \in 1..Len(Tables) PROVE sql[t] <= lastRotated
        <4>1. sql[t] <= saved.lastRotated /\ sql[t] \in Nat
          BY <1>2 DEF StoreInv, RotatedLedgerKept, LoopTypes
        <4>2. saved.lastRotated <= lastRotated /\ saved.lastRotated \in Nat /\ lastRotated \in Nat
          BY <1>2, SeqFacts, Zenon
        <4>3. QED
          BY <4>1, <4>2
      <3>2. QED
        BY <3>1
    <2>4. QED
      <3>1. saved'.lastRotated = lastRotated /\ sql' = sql /\ pc' # "stateError"
        BY <1>1
      <3>2. QED
        BY <2>1, <2>2, <2>3, <3>1, Zenon DEF RotatedLedgerKept
  <1>8. QED
    BY <1>3, <1>4, <1>5, <1>6, <1>7 DEF StoreInv
-----------------------------------------------------------------------------
(* Whoever lets go of a backend removes only what nobody holds: never the  *)
(* backends in use, nor a new one.                                         *)
LEMMA LetGo ==
    ASSUME StoreTypes, NEW stored \in [Backends -> SUBSET Nodes], letGo(stored)
    PROVE  /\ dirs' \subseteq dirs /\ dead' \subseteq dead /\ dead' \subseteq dirs'
           /\ dirs \ dead \subseteq dirs'
           /\ {writable', archive', old'} \cap dirs \subseteq dirs'
           /\ disk' \in [Backends -> SUBSET Nodes]
           /\ \A b \in {writable', archive', old'} \cap Backends : disk'[b] = stored[b]
  BY DEF StoreTypes, letGo, Held

LEMMA DeleteArchiveInv == ASSUME StoreInv, deleteArchive PROVE StoreInv'
  <1>1. /\ pc = "rotated" /\ pc' = "unguard" /\ old' = NoBackend /\ letGo(disk)
        /\ UNCHANGED <<writable, archive, ram, client, durable, ledgers, lastCheck, signals, cycle, visit>>
    BY DEF deleteArchive, rotated
  <1>2. StoreTypes
    BY DEF StoreInv
  <1>3. /\ dirs' \subseteq dirs /\ dead' \subseteq dirs' /\ disk' \in [Backends -> SUBSET Nodes]
        /\ {writable, archive} \cap dirs \subseteq dirs'
        /\ \A b \in {writable, archive} \cap Backends : disk'[b] = disk[b]
    <2>1. disk \in [Backends -> SUBSET Nodes] /\ writable' = writable /\ archive' = archive
      BY <1>1, <1>2, Zenon DEF StoreTypes
    <2>2. /\ dirs' \subseteq dirs /\ dead' \subseteq dirs' /\ disk' \in [Backends -> SUBSET Nodes]
          /\ {writable', archive', old'} \cap dirs \subseteq dirs'
          /\ \A b \in {writable', archive', old'} \cap Backends : disk'[b] = disk[b]
      BY <1>1, <1>2, <2>1, LetGo, Zenon
    <2>3. QED
      BY <2>1, <2>2, Zenon
  <1>4. Named = {writable, archive} /\ writable \in dirs /\ archive \in dirs /\ saved.lastRotated # 0
    <2>1. pc \notin Starting \cup {"setState"} /\ pc \notin Idle
      BY <1>1 DEF Starting, Idle
    <2>2. /\ writable \in dirs /\ archive \in dirs /\ dirs \subseteq Backends
          /\ saved.writable = writable /\ saved.archive = archive
      BY <2>1, Zenon DEF StoreInv, StoreTypes, Naming
    <2>3. saved.lastRotated # 0
      BY <2>1, Zenon DEF StoreInv, BeforeFirst, NothingRemovedYet
    <2>4. QED
      BY <2>2, <2>3, NodeStoreAssumption DEF Named
  <1>5. StoreTypes'
    BY <1>1, <1>3 DEF StoreInv, StoreTypes, client
  <1>6. LoopTypes'
    <2>1. pc' \in Places
      BY <1>1 DEF Places, Leaving
    <2>2. QED
      BY <1>1, <2>1, ZenonT(30) DEF StoreInv, LoopTypes, durable, ledgers, signals, cycle, visit
  <1>7. Naming' /\ Fresh'
    <2>1. /\ pc \notin Starting \cup {"setState"}
          /\ pc' \notin Starting \cup {"openArchive", "nameBackends", "setState", "made", "rotate"}
      BY <1>1 DEF Starting
    <2>2. /\ saved.writable = NoBackend <=> saved.archive = NoBackend
          /\ saved.writable = writable /\ saved.archive = archive
      BY <2>1, Zenon DEF StoreInv, Naming
    <2>3. saved' = saved /\ writable' = writable /\ archive' = archive
      BY <1>1, Zenon DEF durable
    <2>4. writable \in dirs' /\ archive \in dirs' /\ Named' \subseteq dirs'
      BY <1>3, <1>4, <2>3 DEF Named
    <2>5. QED
      BY <2>1, <2>2, <2>3, <2>4, Zenon DEF Naming, Fresh
  <1>8. CopyMade' /\ BeforeFirst'
    BY <1>1, <1>4 DEF StoreInv, CopyMade, BeforeFirst, Starting, Clearing, Copying, Copied,
       Rotating,
                      durable, cycle
  <1>9. RotatedLedgerKept'
    BY <1>1, <1>2, <1>3, <1>4, <1>6, NamedKept DEF StoreTypes, LoopTypes, durable
  <1>10. QED
    BY <1>5, <1>6, <1>7, <1>8, <1>9 DEF StoreInv
-----------------------------------------------------------------------------
(* The clients of the node store.                                          *)

(* What a client's step keeps, if the backends held lose nothing.          *)
LEMMA ClientKeeps ==
    ASSUME StoreInv, pc \notin Starting, UNCHANGED <<pair, durable, loop, ledgers>>,
           dead' \subseteq dead, dirs \ dead \subseteq dirs',
           {writable, archive, old} \cap dirs \subseteq dirs',
           \A b \in {writable, archive, old} \cap Backends : disk[b] \subseteq disk'[b]
    PROVE  LoopTypes' /\ Naming' /\ CopyMade' /\ Fresh' /\ RotatedLedgerKept'
  <1>1. LoopTypes'
    BY DEF StoreInv, LoopTypes, durable, loop, ledgers, signals, cycle, visit
  <1>2. Named \subseteq {writable, archive, old} \cap dirs /\ dirs \subseteq Backends
    BY DEF StoreInv, Naming, Named, StoreTypes, Starting
  <1>3. Naming' /\ Fresh'
    BY <1>2 DEF StoreInv, Naming, Named, Fresh, Starting, pair, durable, loop, visit
  <1>4. CopyMade'
    <2>1. writable \in Backends /\ archive \in Backends
      BY <1>2 DEF StoreInv, Naming
    <2>2. Expired' = Expired
      BY DEF Expired, loop, ledgers
    <2>3. disk[writable] \subseteq disk'[writable] /\ disk[archive] \subseteq disk'[archive]
      BY <2>1
    <2>4. QED
      BY <2>2, <2>3 DEF StoreInv, CopyMade, pair, durable, loop, signals, cycle, visit
  <1>5. RotatedLedgerKept'
    BY <1>1, <1>2, NamedKept DEF durable, LoopTypes
  <1>6. QED
    BY <1>1, <1>3, <1>4, <1>5

(* The parts of BeforeFirst that clients change, of a server that is up:   *)
(* what a client read is in a backend it took, and so is what is cached,   *)
(* or it is being written.                                                 *)
ReadIsStored(p) ==
    /\ at[p] = "fetch" => wr[p] = writable /\ ar[p] = archive
    /\ at[p] \in {"archived", "store"} => wr[p] = writable
    /\ at[p] \in {"archived", "found"} => node[p] \in disk[writable] \cup disk[archive]

CacheIsStored(n) ==
    \/ n \in disk[writable] \cup disk[archive]
    \/ \E q \in Clients : at[q] \in {"cached", "store"} /\ node[q] = n

LEMMA BeforeFacts ==
    ASSUME StoreInv, pc \notin Starting, saved.lastRotated = 0
    PROVE  /\ writable \in Backends /\ archive \in Backends
           /\ \A p \in Clients : ReadIsStored(p)
           /\ \A n \in ram : CacheIsStored(n)
  <1>1. writable \in Backends /\ archive \in Backends
    BY DEF StoreInv, Naming, StoreTypes
  <1>2. Stored(writable, archive) = disk[writable] \cup disk[archive]
    BY <1>1, StoredInPair
  <1>3. NothingRemovedYet
    BY DEF StoreInv, BeforeFirst
  <1>4. \A p \in Clients : ReadIsStored(p)
    BY <1>2, <1>3 DEF NothingRemovedYet, ReadIsStored
  <1>5. \A n \in ram : CacheIsStored(n)
    BY <1>2, <1>3 DEF NothingRemovedYet, CacheIsStored, Writing
  <1>6. QED
    BY <1>1, <1>4, <1>5

LEMMA BeforeKeeps ==
    ASSUME StoreInv, pc \notin Starting, UNCHANGED <<pair, durable, loop, ledgers>>,
           \A b \in {writable, archive} : disk[b] \subseteq disk'[b],
           saved.lastRotated = 0 => /\ \A p \in Clients : ReadIsStored(p)'
                                    /\ \A n \in ram' : CacheIsStored(n)'
    PROVE  BeforeFirst'
  <1> SUFFICES ASSUME saved.lastRotated = 0 PROVE NothingRemovedYet'
    BY DEF BeforeFirst, durable
  <1>1. writable \in Backends /\ archive \in Backends
    BY BeforeFacts
  <1>2. Stored(writable, archive) = disk[writable] \cup disk[archive]
    BY <1>1, StoredInPair
  <1>3. Stored(writable, archive)' = disk'[writable] \cup disk'[archive]
    BY <1>1, NodeStoreAssumption DEF Stored, pair
  <1>4. NothingRemovedYet
    BY DEF StoreInv, BeforeFirst
  <1>5. /\ pc' \in Starting \cup Idle /\ validLedger' >= FirstSeq - 1
        /\ \A t \in 1..Len(Tables) : sql'[t] = FirstSeq
    BY <1>4 DEF NothingRemovedYet, durable, loop, ledgers
  <1>6. \A p \in Clients :
           /\ at'[p] = "fetch" => wr'[p] = writable' /\ ar'[p] = archive'
           /\ at'[p] \in {"archived", "store"} => wr'[p] = writable'
           /\ at'[p] \in {"archived", "found"} => node'[p] \in Stored(writable, archive)'
    BY <1>3 DEF ReadIsStored, pair
  <1>7. ram' \subseteq (Stored(writable, archive) \cup Writing)'
    BY <1>3 DEF CacheIsStored, Writing, pair
  <1>8. Stored(writable, archive) \subseteq Stored(writable, archive)'
    BY <1>2, <1>3
  <1>9. /\ newLedger' # 0 => newLedger' >= FirstSeq /\ Map[newLedger'] \subseteq Stored(writable, archive)'
        /\ validLedger' < MaxSeq => Map[validLedger' + 1] \ need' \subseteq Stored(writable, archive)'
    BY <1>4, <1>8 DEF NothingRemovedYet, loop, signals, ledgers
  <1>10. QED
    BY <1>5, <1>6, <1>7, <1>9 DEF NothingRemovedYet

LEMMA ClientStep ==
    ASSUME StoreInv, pc \notin Starting, UNCHANGED <<pair, durable, loop, ledgers>>, StoreTypes',
           dead' \subseteq dead, dirs \ dead \subseteq dirs',
           {writable, archive, old} \cap dirs \subseteq dirs',
           \A b \in {writable, archive, old} \cap Backends : disk[b] \subseteq disk'[b],
           saved.lastRotated = 0 => /\ \A p \in Clients : ReadIsStored(p)'
                                    /\ \A n \in ram' : CacheIsStored(n)'
    PROVE  StoreInv'
  <1>1. LoopTypes' /\ Naming' /\ CopyMade' /\ Fresh' /\ RotatedLedgerKept'
    BY ClientKeeps
  <1>2. writable \in Backends /\ archive \in Backends
    BY DEF StoreInv, Naming, StoreTypes
  <1>3. BeforeFirst'
    BY <1>2, BeforeKeeps
  <1>4. QED
    BY <1>1, <1>3 DEF StoreInv

(* What the steps that end a read or a write do to the client that takes   *)
(* them.                                                                   *)
OthersStay(p) ==
    \A q \in Clients \ {p} :
        at'[q] = at[q] /\ node'[q] = node[q] /\ wr'[q] = wr[q] /\ ar'[q] = ar[q]

LEMMA ReleaseMoves ==
    ASSUME StoreTypes, NEW p \in Clients, release(p)
    PROVE  /\ OthersStay(p) /\ at'[p] = "idle"
           /\ at' \in [Clients -> {"idle", "fetch", "archived", "found", "cached", "store"}]
           /\ node' \in [Clients -> Nodes \cup {NoNode}]
           /\ wr' \in [Clients -> MaybeBackend] /\ ar' \in [Clients -> MaybeBackend]
  <1>1. /\ at \in [Clients -> {"idle", "fetch", "archived", "found", "cached", "store"}]
        /\ node \in [Clients -> Nodes \cup {NoNode}]
        /\ wr \in [Clients -> MaybeBackend] /\ ar \in [Clients -> MaybeBackend]
    BY Zenon DEF StoreTypes
  <1>2. /\ at' = [at EXCEPT ![p] = "idle"] /\ node' = [node EXCEPT ![p] = NoNode]
        /\ wr' = [wr EXCEPT ![p] = NoBackend] /\ ar' = [ar EXCEPT ![p] = NoBackend]
    BY Zenon DEF release
  <1>3. NoBackend \in MaybeBackend
    BY DEF MaybeBackend
  <1>4. OthersStay(p) /\ at'[p] = "idle"
    BY <1>1, <1>2 DEF OthersStay
  <1>5. QED
    BY <1>1, <1>2, <1>3, <1>4

LEMMA FetchMoves ==
    ASSUME StoreTypes, writable \in Backends, NEW p \in Clients, fetch(p)
    PROVE  /\ at[p] = "fetch" /\ ram' = ram /\ OthersStay(p)
           /\ \/ at'[p] = "found" /\ node'[p] \in disk[wr[p]]
              \/ at'[p] = "archived" /\ wr'[p] = writable /\ node'[p] \in disk[ar[p]]
              \/ at'[p] = "idle"
           /\ at' \in [Clients -> {"idle", "fetch", "archived", "found", "cached", "store"}]
           /\ node' \in [Clients -> Nodes \cup {NoNode}]
           /\ wr' \in [Clients -> MaybeBackend] /\ ar' \in [Clients -> MaybeBackend]
           /\ at'[p] # "idle" => node'[p] = node[p]
  <1>1. /\ at \in [Clients -> {"idle", "fetch", "archived", "found", "cached", "store"}]
        /\ node \in [Clients -> Nodes \cup {NoNode}]
        /\ wr \in [Clients -> MaybeBackend] /\ ar \in [Clients -> MaybeBackend]
        /\ writable \in MaybeBackend
    BY Zenon DEF StoreTypes, MaybeBackend
  <1>2. at[p] = "fetch" /\ ram' = ram
    BY Zenon DEF fetch
  <1>3. CASE /\ node[p] \in disk[wr[p]] /\ at' = [at EXCEPT ![p] = "found"]
             /\ UNCHANGED <<node, wr, ar>>
    BY <1>1, <1>2, <1>3 DEF OthersStay
  <1>4. CASE /\ node[p] \in disk[ar[p]] /\ at' = [at EXCEPT ![p] = "archived"]
             /\ wr' = [wr EXCEPT ![p] = writable] /\ UNCHANGED <<node, ar>>
    BY <1>1, <1>2, <1>4 DEF OthersStay
  <1>5. CASE release(p)
    BY <1>2, <1>5, ReleaseMoves, Zenon
  <1>6. QED
    BY <1>3, <1>4, <1>5, Zenon DEF fetch

(* A step of one client, while the two backends lose nothing: what the     *)
(* others read and what was cached is still stored, if the client does not *)
(* drop a node it has yet to store.                                        *)
LEMMA OneClientMoves ==
    ASSUME NEW p \in Clients, UNCHANGED <<writable, archive>>,
           disk[writable] \subseteq disk'[writable], disk[archive] \subseteq disk'[archive],
           OthersStay(p), \A q \in Clients : ReadIsStored(q), \A m \in ram : CacheIsStored(m),
           ReadIsStored(p)', \A m \in ram' : m \in ram \/ CacheIsStored(m)',
           at[p] \in {"cached", "store"} =>
              \/ node[p] \in disk'[writable]
              \/ at'[p] \in {"cached", "store"} /\ node'[p] = node[p]
    PROVE  (\A q \in Clients : ReadIsStored(q)') /\ (\A m \in ram' : CacheIsStored(m)')
  <1>1. ASSUME NEW q \in Clients \ {p} PROVE ReadIsStored(q)'
    <2>1. /\ at'[q] = at[q] /\ node'[q] = node[q] /\ wr'[q] = wr[q] /\ ar'[q] = ar[q]
          /\ writable' = writable /\ archive' = archive
      BY Zenon DEF OthersStay
    <2>2. at[q] = "fetch" => wr[q] = writable /\ ar[q] = archive
      BY Zenon DEF ReadIsStored
    <2>3. at[q] \in {"archived", "store"} => wr[q] = writable
      BY Zenon DEF ReadIsStored
    <2>4. at[q] \in {"archived", "found"} => node[q] \in disk'[writable] \cup disk'[archive]
      BY Zenon DEF ReadIsStored
    <2>5. QED
      BY <2>1, <2>2, <2>3, <2>4, Zenon DEF ReadIsStored
  <1>2. ASSUME NEW m \in ram PROVE CacheIsStored(m)'
    <2>1. CASE m \in disk[writable] \cup disk[archive]
      BY <2>1, Zenon DEF CacheIsStored
    <2>2. CASE \E q \in Clients : at[q] \in {"cached", "store"} /\ node[q] = m
      <3>1. PICK q \in Clients : at[q] \in {"cached", "store"} /\ node[q] = m
        BY <2>2, Zenon
      <3>2. CASE q = p
        BY <3>1, <3>2, Zenon DEF CacheIsStored
      <3>3. CASE q # p
        BY <3>1, <3>3, Zenon DEF CacheIsStored, OthersStay
      <3>4. QED
        BY <3>2, <3>3, Zenon
    <2>3. QED
      BY <2>1, <2>2, Zenon DEF CacheIsStored
  <1>3. QED
    BY <1>1, <1>2, Zenon

(* Steps that leave the backends alone.                                    *)
LEMMA QuietClientInv ==
    ASSUME StoreInv, pc \notin Starting, UNCHANGED <<durable, loop, ledgers>>,
           NEW p \in Clients, NEW n \in Nodes,
           fetchNodeObject(p, n) \/ store(p) \/ sweep(n) \/ (p = App /\ writeNode(p, n))
    PROVE  StoreInv'
  <1>1. UNCHANGED <<dirs, disk, dead, pair>>
    BY DEF fetchNodeObject, store, sweep, writeNode, backends
  <1>2. StoreTypes
    BY DEF StoreInv
  <1>3. writable \in Backends /\ archive \in Backends
    BY DEF StoreInv, Naming, StoreTypes
  <1>4. StoreTypes'
    <2>1. CASE fetchNodeObject(p, n)
      BY <1>1, <1>2, <1>3, <2>1 DEF StoreTypes, MaybeBackend, fetchNodeObject
    <2>2. CASE store(p)
      BY <1>1, <1>2, <1>3, <2>2 DEF StoreTypes, MaybeBackend, store
    <2>3. CASE sweep(n)
      BY <1>1, <1>2, <2>3 DEF StoreTypes, sweep, client
    <2>4. CASE p = App /\ writeNode(p, n)
      BY <1>1, <1>2, <2>4 DEF StoreTypes, writeNode
    <2>5. QED
      BY <2>1, <2>2, <2>3, <2>4
  <1>5. ASSUME saved.lastRotated = 0
        PROVE  (\A q \in Clients : ReadIsStored(q)') /\ (\A m \in ram' : CacheIsStored(m)')
    <2>0. (\A q \in Clients : ReadIsStored(q)) /\ (\A m \in ram : CacheIsStored(m))
      BY <1>5, BeforeFacts
    <2>1. CASE fetchNodeObject(p, n)
      <3>1. /\ at[p] = "idle" /\ ram' = ram /\ at' = [at EXCEPT ![p] = "fetch"]
            /\ node' = [node EXCEPT ![p] = n] /\ wr' = [wr EXCEPT ![p] = writable]
            /\ ar' = [ar EXCEPT ![p] = archive] /\ UNCHANGED <<writable, archive>>
        BY <1>1, <2>1, Zenon DEF fetchNodeObject, pair
      <3>2. OthersStay(p) /\ at'[p] = "fetch" /\ wr'[p] = writable /\ ar'[p] = archive
        BY <1>2, <3>1 DEF OthersStay, StoreTypes
      <3>3. ReadIsStored(p)'
        BY <3>1, <3>2 DEF ReadIsStored
      <3>4. at[p] \notin {"cached", "store"}
        BY <3>1
      <3>5. QED
        BY <1>1, <2>0, <3>1, <3>2, <3>3, <3>4, OneClientMoves, Zenon
    <2>2. CASE store(p)
      <3>1. /\ at[p] = "cached" /\ at' = [at EXCEPT ![p] = "store"]
            /\ wr' = [wr EXCEPT ![p] = writable] /\ UNCHANGED <<writable, archive, ram, node, ar>>
        BY <1>1, <2>2, Zenon DEF store, pair
      <3>2. OthersStay(p) /\ at'[p] = "store" /\ wr'[p] = writable /\ node'[p] = node[p]
        BY <1>2, <3>1 DEF OthersStay, StoreTypes
      <3>3. ReadIsStored(p)'
        BY <3>1, <3>2 DEF ReadIsStored
      <3>4. QED
        BY <1>1, <2>0, <3>1, <3>2, <3>3, OneClientMoves, Zenon
    <2>3. CASE sweep(n)
      BY <1>1, <1>2, <2>0, <2>3 DEF ReadIsStored, CacheIsStored, sweep, pair, client
    <2>4. CASE p = App /\ writeNode(p, n)
      <3>1. /\ at[p] = "idle" /\ ram' = ram \cup {n} /\ at' = [at EXCEPT ![p] = "cached"]
            /\ node' = [node EXCEPT ![p] = n] /\ UNCHANGED <<writable, archive, wr, ar>>
        BY <1>1, <2>4, Zenon DEF writeNode, pair
      <3>2. OthersStay(p) /\ at'[p] = "cached" /\ node'[p] = n
        BY <1>2, <3>1 DEF OthersStay, StoreTypes
      <3>3. CacheIsStored(n)'
        BY <3>2, Zenon DEF CacheIsStored
      <3>4. ReadIsStored(p)'
        BY <3>2, Zenon DEF ReadIsStored
      <3>5. ASSUME NEW m \in ram' PROVE m \in ram \/ CacheIsStored(m)'
        <4>1. m \in ram \/ m = n
          BY <3>1, Zenon
        <4>2. QED
          BY <3>3, <4>1, Zenon DEF CacheIsStored
      <3>6. QED
        BY <1>1, <2>0, <3>1, <3>2, <3>4, <3>5, OneClientMoves, Zenon
    <2>5. QED
      BY <2>1, <2>2, <2>3, <2>4
  <1>6. QED
    BY <1>1, <1>4, <1>5, ClientStep

LEMMA CopyForwardInv ==
    ASSUME StoreInv, pc \notin Starting, UNCHANGED <<durable, loop, ledgers>>,
           NEW p \in Clients, copyForward(p)
    PROVE  StoreInv'
  <1>1. /\ at[p] = "archived" /\ at' = [at EXCEPT ![p] = "found"]
        /\ disk' = disk \/ disk' = [disk EXCEPT ![wr[p]] = @ \cup {node[p]}]
        /\ UNCHANGED <<dirs, dead, pair, ram, node, wr, ar>>
    BY DEF copyForward
  <1>2. StoreTypes /\ node[p] \in Nodes
    BY <1>1 DEF StoreInv, StoreTypes
  <1>3. disk' \in [Backends -> SUBSET Nodes] /\ \A b \in Backends : disk[b] \subseteq disk'[b]
    <2>1. disk \in [Backends -> SUBSET Nodes]
      BY <1>2, Zenon DEF StoreTypes
    <2>2. CASE disk' = disk
      BY ONLY <2>1, <2>2, Zenon
    <2>3. CASE disk' # disk
      <3>1. PICK n \in Nodes, x \in {wr[p]} : disk' = [disk EXCEPT ![x] = @ \cup {n}]
        BY <1>1, <1>2, <2>3, Zenon
      <3>2. QED
        BY ONLY <2>1, <3>1
    <2>4. QED
      BY <2>2, <2>3, Zenon
  <1>4. StoreTypes'
    BY <1>1, <1>2, <1>3 DEF StoreTypes
  <1>5. ASSUME saved.lastRotated = 0
        PROVE  (\A q \in Clients : ReadIsStored(q)') /\ (\A m \in ram' : CacheIsStored(m)')
    <2>1. /\ \A q \in Clients : ReadIsStored(q)
          /\ \A m \in ram : CacheIsStored(m)
          /\ disk[writable] \subseteq disk'[writable] /\ disk[archive] \subseteq disk'[archive]
      BY <1>3, <1>5, BeforeFacts
    <2>2. /\ at'[p] = "found" /\ \A q \in Clients \ {p} : at'[q] = at[q]
          /\ writable' = writable /\ archive' = archive /\ ram' = ram
          /\ node' = node /\ wr' = wr /\ ar' = ar
      BY <1>1, <1>2 DEF StoreTypes, pair
    <2>3. ASSUME NEW q \in Clients PROVE ReadIsStored(q)'
      <3>1. CASE q = p
        BY <1>1, <2>1, <2>2, <3>1 DEF ReadIsStored
      <3>2. CASE q # p
        BY <2>1, <2>2, <3>2 DEF ReadIsStored
      <3>3. QED
        BY <3>1, <3>2
    <2>4. ASSUME NEW m \in ram' PROVE CacheIsStored(m)'
      <3>1. CASE m \in disk[writable] \cup disk[archive]
        BY <2>1, <2>2, <3>1 DEF CacheIsStored
      <3>2. CASE m \notin disk[writable] \cup disk[archive]
        <4>1. PICK q \in Clients : at[q] \in {"cached", "store"} /\ node[q] = m
          BY <2>1, <2>2, <2>4, <3>2, Zenon DEF CacheIsStored
        <4>2. at'[q] = at[q] /\ node'[q] = m
          BY <1>1, <2>2, <4>1
        <4>3. QED
          BY <4>1, <4>2, Zenon DEF CacheIsStored
      <3>3. QED
        BY <3>1, <3>2
    <2>5. QED
      BY <2>3, <2>4, Zenon
  <1>6. QED
    BY <1>1, <1>3, <1>4, <1>5, ClientStep

(* Steps that let go of a backend.                                         *)
LEMMA ReleaseInv ==
    ASSUME StoreInv, pc \notin Starting, UNCHANGED <<durable, loop, ledgers>>,
           NEW p \in Clients, fetch(p) \/ finishFetch(p) \/ backendStore(p)
    PROVE  StoreInv'
  <1>1. StoreTypes /\ writable \in Backends /\ archive \in Backends /\ UNCHANGED pair
    <2>1. UNCHANGED pair
      BY Zenon DEF fetch, finishFetch, backendStore
    <2>2. StoreTypes /\ dirs \subseteq Backends /\ writable \in dirs /\ archive \in dirs
      BY Zenon DEF StoreInv, Naming, StoreTypes
    <2>3. QED
      BY <2>1, <2>2, Zenon
  <1>2. PICK stored \in [Backends -> SUBSET Nodes] :
           /\ letGo(stored) /\ \A b \in Backends : disk[b] \subseteq stored[b]
           /\ backendStore(p) /\ wr[p] \in Backends => node[p] \in stored[wr[p]]
    <2>1. CASE fetch(p) \/ finishFetch(p)
      <3>1. letGo(disk) /\ ~backendStore(p)
        BY <2>1 DEF fetch, finishFetch, backendStore
      <3>2. disk \in [Backends -> SUBSET Nodes]
        BY <1>1, Zenon DEF StoreTypes
      <3>3. QED
        BY <3>1, <3>2, Zenon
    <2>2. CASE backendStore(p)
      <3> DEFINE stored == [disk EXCEPT ![wr[p]] = @ \cup {node[p]}]
      <3>1. letGo(stored) /\ node[p] \in Nodes
        BY <1>1, <2>2 DEF backendStore, StoreTypes
      <3>2. /\ stored \in [Backends -> SUBSET Nodes] /\ \A b \in Backends : disk[b] \subseteq stored[b]
            /\ wr[p] \in Backends => node[p] \in stored[wr[p]]
        BY <1>1, <3>1, ZenonT(60) DEF StoreTypes
      <3>3. QED
        BY <3>1, <3>2, ZenonT(60)
    <2>3. QED
      BY <2>1, <2>2
  <1>3. /\ dirs' \subseteq dirs /\ dead' \subseteq dead /\ dead' \subseteq dirs' /\ dirs \ dead \subseteq dirs'
        /\ {writable, archive, old} \cap dirs \subseteq dirs'
        /\ disk' \in [Backends -> SUBSET Nodes]
        /\ \A b \in {writable, archive, old} \cap Backends : disk'[b] = stored[b]
    BY <1>1, <1>2, LetGo DEF pair
  <1>4. StoreTypes'
    <2>1. /\ at' \in [Clients -> {"idle", "fetch", "archived", "found", "cached", "store"}]
          /\ node' \in [Clients -> Nodes \cup {NoNode}]
          /\ wr' \in [Clients -> MaybeBackend] /\ ar' \in [Clients -> MaybeBackend]
          /\ OthersStay(p) /\ (at'[p] # "idle" => node'[p] \in Nodes)
          /\ at'[p] \notin {"cached", "store"} /\ ram' \subseteq Nodes
      <3>1. CASE fetch(p)
        <4>1. at[p] = "fetch" /\ node[p] \in Nodes /\ ram \subseteq Nodes
          BY <1>1, <3>1, FetchMoves DEF StoreTypes
        <4>2. QED
          BY <1>1, <3>1, <4>1, FetchMoves
      <3>2. CASE finishFetch(p) \/ backendStore(p)
        <4>1. /\ release(p) /\ at[p] # "idle"
              /\ ram' = ram \/ ram' = ram \cup {node[p]}
          BY <3>2 DEF finishFetch, backendStore
        <4>2. node[p] \in Nodes /\ ram \subseteq Nodes
          BY <1>1, <4>1 DEF StoreTypes
        <4>3. QED
          BY <1>1, <4>1, <4>2, ReleaseMoves
      <3>3. QED
        BY <3>1, <3>2
    <2>2. /\ \A q \in Clients : at[q] # "idle" => node[q] \in Nodes
          /\ \A q \in Clients : at[q] \in {"cached", "store"} => q = App
      BY <1>1, Zenon DEF StoreTypes
    <2>3. ASSUME NEW q \in Clients
          PROVE  (at'[q] # "idle" => node'[q] \in Nodes) /\ (at'[q] \in {"cached", "store"} => q = App)
      <3>1. CASE q = p
        BY <2>1, <3>1
      <3>2. CASE q # p
        <4>1. at'[q] = at[q] /\ node'[q] = node[q]
          BY <2>1, <3>2 DEF OthersStay
        <4>2. QED
          BY <2>2, <4>1
      <3>3. QED
        BY <3>1, <3>2
    <2>4. dirs' \subseteq Backends
      BY <1>1, <1>3, Zenon DEF StoreTypes
    <2>5. QED
      BY <1>3, <2>1, <2>3, <2>4, Zenon DEF StoreTypes
  <1>5. ASSUME saved.lastRotated = 0
        PROVE  (\A q \in Clients : ReadIsStored(q)') /\ (\A m \in ram' : CacheIsStored(m)')
    <2>1. /\ \A q \in Clients : ReadIsStored(q)
          /\ \A m \in ram : CacheIsStored(m)
          /\ disk[writable] \subseteq disk'[writable] /\ disk[archive] \subseteq disk'[archive]
          /\ disk'[writable] = stored[writable] /\ UNCHANGED <<writable, archive>>
      <3>1. (\A q \in Clients : ReadIsStored(q)) /\ (\A m \in ram : CacheIsStored(m))
        BY <1>5, BeforeFacts, Zenon
      <3>2. disk'[writable] = stored[writable] /\ disk'[archive] = stored[archive]
        BY <1>1, <1>3, Zenon
      <3>3. QED
        BY <1>1, <1>2, <3>1, <3>2, Zenon DEF pair
    <2>2. CASE fetch(p)
      <3>1. wr[p] = writable /\ ar[p] = archive
        BY <1>1, <2>1, <2>2, FetchMoves, Zenon DEF ReadIsStored
      <3>2. \/ at'[p] = "found" /\ node'[p] \in disk'[writable]
            \/ at'[p] = "archived" /\ wr'[p] = writable' /\ node'[p] \in disk'[archive]
            \/ at'[p] = "idle"
        BY <1>1, <2>1, <2>2, <3>1, FetchMoves, Zenon
      <3>3. ReadIsStored(p)'
        <4> HIDE <1>2, <1>3, <1>4, <1>5
        <4>1. CASE at'[p] = "found" /\ node'[p] \in disk'[writable]
          BY <2>1, <4>1 DEF ReadIsStored
        <4>2. CASE at'[p] = "archived" /\ wr'[p] = writable' /\ node'[p] \in disk'[archive]
          BY <2>1, <4>2 DEF ReadIsStored
        <4>3. CASE at'[p] = "idle"
          BY <4>3 DEF ReadIsStored
        <4>4. QED
          BY <3>2, <4>1, <4>2, <4>3, Zenon
      <3>4. OthersStay(p) /\ ram' = ram /\ at[p] = "fetch"
        BY <1>1, <2>2, FetchMoves, Zenon
      <3>5. QED
        BY <2>1, <3>3, <3>4, OneClientMoves, Zenon
    <2>3. CASE finishFetch(p)
      <3>1. PICK n : n = node[p]
        OBVIOUS
      <3>2. at[p] = "found" /\ ram' = ram \cup {n} /\ release(p)
        BY <2>3, <3>1, Zenon DEF finishFetch
      <3>3. OthersStay(p) /\ at'[p] = "idle"
        BY <1>1, <3>2, ReleaseMoves, Zenon
      <3>4. n \in (disk[writable] \cup disk[archive])'
        <4>1. n \in disk[writable] \cup disk[archive]
          BY <2>1, <3>1, <3>2, Zenon DEF ReadIsStored
        <4>2. QED
          BY <2>1, <4>1, Zenon
      <3>5. CacheIsStored(n)'
        BY <3>4, Zenon DEF CacheIsStored
      <3>6. ReadIsStored(p)'
        BY <3>3, Zenon DEF ReadIsStored
      <3>7. ASSUME NEW m \in ram' PROVE m \in ram \/ CacheIsStored(m)'
        <4>1. m \in ram \/ m = n
          BY <3>2, Zenon
        <4>2. QED
          BY <3>5, <4>1, Zenon DEF CacheIsStored
      <3>8. QED
        BY <2>1, <3>2, <3>3, <3>6, <3>7, OneClientMoves, Zenon
    <2>4. CASE backendStore(p)
      <3>1. at[p] = "store" /\ ram' = ram /\ release(p)
        BY <2>4, Zenon DEF backendStore
      <3>2. OthersStay(p) /\ at'[p] = "idle"
        BY <1>1, <3>1, ReleaseMoves, Zenon
      <3>3. wr[p] = writable
        BY <2>1, <3>1, Zenon DEF ReadIsStored
      <3>4. node[p] \in disk'[writable]
        BY <1>1, <1>2, <2>1, <2>4, <3>3, Zenon
      <3>5. ReadIsStored(p)'
        BY <3>2, Zenon DEF ReadIsStored
      <3>6. QED
        BY <2>1, <3>1, <3>2, <3>4, <3>5, OneClientMoves, Zenon
    <2>5. QED
      BY <2>2, <2>3, <2>4, Zenon
  <1>6. QED
    <2>1. \A b \in {writable, archive, old} \cap Backends : disk[b] \subseteq disk'[b]
      BY <1>2, <1>3, Zenon
    <2>2. QED
      BY <1>1, <1>3, <1>4, <1>5, <2>1, ClientStep, ZenonT(30)
-----------------------------------------------------------------------------
(* Ledgers and the stop.                                                   *)

(* A node the server has got is on disk, before the first rotation.        *)
LEMMA HaveNodeInv == ASSUME StoreInv, NEW n \in Nodes, haveNode(n) PROVE StoreInv'
  <1>1. /\ pc \notin Starting /\ n \in ram /\ at[App] = "idle" /\ need' = need \ {n}
        /\ UNCHANGED <<nodeStoreVars, durable, loop, validLedger>>
    <2>1. Up => pc \notin Starting
      BY DEF Up, Starting
    <2>2. QED
      BY <2>1, Zenon DEF haveNode
  <1>2. StoreTypes' /\ LoopTypes' /\ Naming' /\ CopyMade' /\ Fresh'
    <2>1. UNCHANGED <<dirs, disk, dead, writable, archive, old, ram, at, node, wr, ar>>
      BY <1>1, Zenon DEF nodeStoreVars, backends, pair, client
    <2>2. UNCHANGED <<saved, sql, pc, lastCheck, stop, newLedger, validatedSeq, lastRotated,
                      todo, newBackend, validLedger>>
      BY <1>1, Zenon DEF durable, loop, signals, cycle, visit
    <2>3. StoreTypes'
      BY <2>1, Zenon DEF StoreInv, StoreTypes
    <2>4. LoopTypes'
      <3>1. LoopTypes /\ need' \subseteq need
        BY <1>1, Zenon DEF StoreInv
      <3>2. QED
        BY <2>2, <3>1, Zenon DEF LoopTypes
    <2>5. Naming'
      <3>1. Naming /\ Named' = Named
        BY <2>2, Zenon DEF StoreInv, Named
      <3>2. QED
        BY <2>1, <2>2, <3>1, Zenon DEF Naming
    <2>6. CopyMade'
      <3>1. CopyMade /\ (Expired' <=> Expired)
        BY <2>2, Zenon DEF StoreInv, Expired
      <3>2. QED
        BY <2>1, <2>2, <3>1, Zenon DEF CopyMade
    <2>7. Fresh'
      BY <1>1, <2>2, Zenon DEF Fresh
    <2>8. QED
      BY <2>3, <2>4, <2>5, <2>6, <2>7, Zenon
  <1>3. RotatedLedgerKept'
    BY <1>1, <1>2, NamedKept, ZenonT(60) DEF LoopTypes, durable, nodeStoreVars, backends
  <1>4. BeforeFirst'
    <2> SUFFICES ASSUME saved.lastRotated = 0 PROVE NothingRemovedYet'
      BY <1>1 DEF BeforeFirst, durable
    <2>1. NothingRemovedYet
      BY DEF StoreInv, BeforeFirst
    <2>2. n \in Stored(writable, archive)
      <3>1. CacheIsStored(n) /\ writable \in Backends /\ archive \in Backends
        BY <1>1, BeforeFacts
      <3>2. n \in disk[writable] \cup disk[archive]
        BY <1>1, <3>1 DEF CacheIsStored, StoreInv, StoreTypes
      <3>3. QED
        BY <3>1, <3>2, StoredInPair
    <2>3. Stored(writable, archive)' = Stored(writable, archive) /\ Writing' = Writing
      BY <1>1 DEF Stored, Writing, nodeStoreVars, backends, pair, client
    <2>4. validLedger < MaxSeq => Map[validLedger + 1] \ need' \subseteq Stored(writable, archive)
      BY <1>1, <2>1, <2>2 DEF NothingRemovedYet
    <2>5. QED
      BY <1>1, <2>1, <2>3, <2>4 DEF NothingRemovedYet, nodeStoreVars, pair, client, durable,
         loop, signals
  <1>5. QED
    BY <1>2, <1>3, <1>4 DEF StoreInv

LEMMA LedgerInv == ASSUME StoreInv, onLedgerClosed \/ stopThread PROVE StoreInv'
  <1>1. /\ pc \notin Starting /\ pc' = notify
        /\ UNCHANGED <<nodeStoreVars, durable, lastCheck, cycle, visit>>
        /\ stop => stop'
    BY DEF onLedgerClosed, stopThread, Up, Starting
  <1>2. /\ pc \in Places
        /\ pc' = pc \/ (pc = "wait" /\ pc' = "awake")
    BY <1>1 DEF notify, StoreInv, LoopTypes
  <1>3. /\ validLedger \in 0..MaxSeq /\ validLedger' \in 0..MaxSeq /\ validLedger <= validLedger'
        /\ newLedger' \in 0..MaxSeq /\ need' \subseteq Nodes /\ stop' \in BOOLEAN
    <2>1. CASE onLedgerClosed
      <3>1. /\ validLedger \in 0..MaxSeq /\ validLedger < MaxSeq /\ validLedger' = validLedger + 1
            /\ newLedger' = validLedger + 1 /\ stop' = stop
            /\ need' = Missing(validLedger + 1, Map[validLedger + 1])
        BY <2>1 DEF onLedgerClosed, StoreInv, LoopTypes
      <3>2. validLedger + 1 \in 0..MaxSeq
        BY <3>1, MapFacts
      <3>3. need' \subseteq Nodes
        BY <3>1, <3>2, MissingFacts
      <3>4. QED
        BY <3>1, <3>2, <3>3 DEF StoreInv, LoopTypes
    <2>2. CASE stopThread
      <3>1. stop' = TRUE /\ validLedger' = validLedger /\ need' = need /\ newLedger' = newLedger
        BY <2>2, Zenon DEF stopThread, ledgers
      <3>2. validLedger \in 0..MaxSeq /\ newLedger \in 0..MaxSeq /\ need \subseteq Nodes
        BY Zenon DEF StoreInv, LoopTypes
      <3>3. validLedger <= validLedger
        BY <3>2, MapFacts
      <3>4. QED
        BY ONLY <3>1, <3>2, <3>3
    <2>3. QED
      BY <2>1, <2>2
  <1>4. StoreTypes'
    BY <1>1 DEF StoreInv, StoreTypes, nodeStoreVars, backends, client
  <1>5. pc' \in Places /\ (pc' \in Idle <=> pc \in Idle) /\ pc' \notin Starting
    BY <1>1, <1>2 DEF Places, Idle, Starting
  <1>6. LoopTypes'
    BY <1>1, <1>3, <1>5, SMTT(30) DEF StoreInv, LoopTypes, durable, cycle, visit
  <1>7. Naming' /\ Fresh'
    <2>1. /\ UNCHANGED <<dirs, dead, writable, archive, old, at, ram, saved, newBackend>>
          /\ pc' = pc \/ (pc = "wait" /\ pc' = "awake")
      BY <1>1, <1>2, Zenon DEF nodeStoreVars, backends, pair, client, durable, visit
    <2>2. Naming'
      <3>1. Naming
        BY DEF StoreInv
      <3>2. /\ pc \in Starting <=> pc' \in Starting
            /\ pc \in {"openArchive", "nameBackends"} <=> pc' \in {"openArchive", "nameBackends"}
            /\ pc = "nameBackends" <=> pc' = "nameBackends"
            /\ pc = "setState" <=> pc' = "setState"
            /\ pc \in {"made", "rotate"} <=> pc' \in {"made", "rotate"}
        BY <2>1 DEF Starting
      <3>3. QED
        BY <2>1, <3>1, <3>2, Zenon DEF Naming, Named
    <2>3. Fresh'
      BY <1>5, Zenon DEF Fresh
    <2>4. QED
      BY <2>2, <2>3
  <1>8. CopyMade'
    <2>1. Expired => Expired'
      <3>1. lastCheck' = lastCheck /\ lastCheck \in Nat /\ maxWaitingLedgers \in Nat
        BY <1>1, SHAMapStoreAssumption, ZenonT(60) DEF StoreInv, LoopTypes
      <3>2. validLedger \in Int /\ validLedger' \in Int
        <4>1. validLedger \in 0..MaxSeq /\ validLedger' \in 0..MaxSeq
          BY <1>3, Zenon
        <4>2. QED
          BY <4>1
      <3>3. QED
        BY <1>3, <3>1, <3>2, SMTT(30) DEF Expired
    <2>2. QED
      BY <1>1, <1>2, <2>1, ZenonT(60) DEF StoreInv, CopyMade, Starting, Clearing, Copying,
         Copied, Rotating,
                              nodeStoreVars, backends, pair, durable, cycle, visit
  <1>9. RotatedLedgerKept'
    BY <1>1, <1>5, NamedKept, ZenonT(60) DEF durable, nodeStoreVars, backends
  <1>10. BeforeFirst'
    <2> SUFFICES ASSUME saved.lastRotated = 0 PROVE NothingRemovedYet'
      BY <1>1 DEF BeforeFirst, durable
    <2>1. NothingRemovedYet
      BY Zenon DEF StoreInv, BeforeFirst
    <2>2. Stored(writable, archive)' = Stored(writable, archive) /\ Writing' = Writing
      <3>1. UNCHANGED <<disk, writable, archive, at, node>>
        BY <1>1, Zenon DEF nodeStoreVars, backends, pair, client
      <3>2. QED
        BY <3>1, Zenon DEF Stored, Writing
    <2>3. /\ validLedger' >= FirstSeq - 1
          /\ newLedger' # 0 => newLedger' >= FirstSeq /\ Map[newLedger'] \subseteq Stored(writable, archive)
          /\ validLedger' < MaxSeq => Map[validLedger' + 1] \ need' \subseteq Stored(writable, archive)
      <3>1. CASE onLedgerClosed
        <4>1. /\ validLedger < MaxSeq /\ validLedger' = validLedger + 1 /\ need = {}
              /\ newLedger' = validLedger + 1
              /\ need' = Missing(validLedger', Map[validLedger + 1])
          BY <3>1 DEF onLedgerClosed
        <4>2. Map[validLedger + 1] \subseteq Stored(writable, archive) /\ validLedger >= FirstSeq - 1
          BY <2>1, <4>1 DEF NothingRemovedYet
        <4>3. validLedger' < MaxSeq => Map[validLedger' + 1] \ need' \subseteq Map[validLedger + 1]
          BY <1>3, <4>1, MissingFacts, Zenon
        <4>4. validLedger' >= FirstSeq - 1 /\ newLedger' >= FirstSeq
          <5>1. validLedger \in Int /\ FirstSeq \in Int
            <6>1. validLedger \in 0..MaxSeq /\ FirstSeq \in 1..MaxSeq
              BY <1>3, MapFacts, Zenon
            <6>2. QED
              BY <6>1
          <5>2. /\ validLedger >= FirstSeq - 1 /\ validLedger' = validLedger + 1
                /\ newLedger' = validLedger + 1
            BY <4>1, <4>2, Zenon
          <5>3. QED
            BY <5>1, <5>2
        <4>5. Map[newLedger'] \subseteq Stored(writable, archive)
          BY <4>1, <4>2, Zenon
        <4>6. QED
          BY <4>2, <4>3, <4>4, <4>5, Zenon
      <3>2. CASE stopThread
        <4>1. validLedger' = validLedger /\ need' = need /\ newLedger' = newLedger
          BY <3>2, Zenon DEF stopThread, ledgers
        <4>2. QED
          BY <2>1, <4>1, Zenon DEF NothingRemovedYet
      <3>3. QED
        BY <3>1, <3>2
    <2>4. pc' \in Starting \cup Idle
      BY <1>1, <1>5, <2>1 DEF NothingRemovedYet
    <2>5. QED
      BY <1>1, <2>1, <2>2, <2>3, <2>4 DEF NothingRemovedYet, nodeStoreVars, pair, client, durable
  <1>11. QED
    BY <1>4, <1>6, <1>7, <1>8, <1>9, <1>10 DEF StoreInv
-----------------------------------------------------------------------------
LEMMA NextInv == ASSUME StoreInv, [Next]_vars PROVE StoreInv'
  <1>1. CASE UNCHANGED vars
    <2> USE <1>1 DEF vars, nodeStoreVars, backends, pair, client, durable, loop, signals, cycle, visit, ledgers
    <2>1. StoreTypes' /\ LoopTypes' /\ Naming'
      BY ZenonT(60) DEF StoreInv, StoreTypes, LoopTypes, Naming, Named
    <2>2. CopyMade' /\ Fresh'
      BY ZenonT(60) DEF StoreInv, CopyMade, Expired, Fresh
    <2>3. BeforeFirst' /\ RotatedLedgerKept'
      <3>1. /\ Stored(writable, archive)' = Stored(writable, archive) /\ Writing' = Writing
            /\ Stored(saved.writable, saved.archive)' = Stored(saved.writable, saved.archive)
        BY ZenonT(60) DEF Stored, Writing
      <3>2. NothingRemovedYet => NothingRemovedYet'
        BY <3>1, ZenonT(60) DEF NothingRemovedYet
      <3>3. QED
        BY <3>1, <3>2, ZenonT(60) DEF StoreInv, BeforeFirst, RotatedLedgerKept
    <2>4. QED
      BY <2>1, <2>2, <2>3, ZenonT(60) DEF StoreInv
  <1>2. CASE start
    BY <1>2, DbPathsInv, OpenInv, NameBackendsInv DEF start
  <1>3. CASE work
    BY <1>3, ClearingInv, CheckingInv, TakeLedgerInv, DeleteInv, WriteInv, MakeBackendInv,
       SwapInv, SetStateInv,
       DeleteArchiveInv DEF work
  <1>4. CASE health
    BY <1>4, ClearingInv, CheckingInv DEF health
  <1>5. CASE environment
    <2>1. CASE newNode
      <3>1. PICK n \in need : writeNode(App, n)
        BY <2>1 DEF newNode
      <3>2. pc \notin Starting /\ UNCHANGED <<durable, loop, ledgers>> /\ n \in Nodes /\ App \in Clients
        BY <2>1, SHAMapStoreAssumption DEF newNode, Up, Starting, StoreInv, LoopTypes
      <3>3. QED
        BY <3>1, <3>2, QuietClientInv
    <2>2. CASE readNodes
      <3>1. pc \notin Starting /\ UNCHANGED <<durable, loop, ledgers>> /\ need \subseteq Nodes /\ App \in Clients
        BY <2>2, SHAMapStoreAssumption DEF readNodes, Up, Starting, StoreInv, LoopTypes
      <3>2. \/ \E p \in Clients, n \in Nodes : fetchNodeObject(p, n) \/ store(p) \/ sweep(n)
            \/ \E p \in Clients : store(p) \/ copyForward(p) \/ fetch(p) \/ finishFetch(p) \/ backendStore(p)
        BY <2>2, <3>1 DEF readNodes
      <3>3. ASSUME NEW p \in Clients, store(p) PROVE StoreInv'
        <4>1. node[p] \in Nodes
          BY <3>3 DEF store, StoreInv, StoreTypes
        <4>2. QED
          BY <3>1, <3>3, <4>1, QuietClientInv
      <3>4. QED
        BY <3>1, <3>2, <3>3, QuietClientInv, CopyForwardInv, ReleaseInv, SMTT(30)
    <2>3. QED
      BY <1>5, <2>1, <2>2, HaveNodeInv, LedgerInv, ClearingInv, CrashInv DEF environment
  <1>6. QED
    BY <1>1, <1>2, <1>3, <1>4, <1>5, SMTT(30) DEF Next

(* Whatever is killed, cut short or read at the same time, and for any     *)
(* number of backends, ledgers, clients and crashes: a server can start on *)
(* what is on disk, and the ledger of the last rotation (SHAMapStoreImp's  *)
(* run() and rotate()) is kept.                                            *)
THEOREM RotatedLedgerAlwaysKept == Spec => []RotatedLedgerKept
  <1>1. Init => StoreInv
    BY InitInv
  <1>2. StoreInv /\ [Next]_vars => StoreInv'
    BY NextInv
  <1>3. StoreInv => RotatedLedgerKept
    BY DEF StoreInv
  <1>4. QED
    BY <1>1, <1>2, <1>3, PTL DEF Spec
-----------------------------------------------------------------------------
(* The cache of nodes.                                                     *)

(* The places between the listing of the keys of the cache and the swap.   *)
Freshening == {"freshen", "freshenCheck", "freshened", "makeBackend", "made", "rotate"}

(* A cached node may still be in the archive only, while its key is yet to *)
(* be visited or the rotation is given up.                                 *)
MayBeArchived(n) ==
    \/ pc \notin Freshening \/ pc = "freshened"
    \/ pc \in {"freshen", "freshenCheck"} /\ n \in todo

(* What a read or a write that straddled nothing holds.                    *)
ReadKept(p) ==
    /\ at[p] = "fetch" => wr[p] = writable /\ ar[p] = archive
    /\ at[p] \in {"archived", "store"} => wr[p] = writable
    /\ at[p] = "archived" => node[p] \in disk[writable] \cup disk[archive]
    /\ at[p] = "found" => \/ node[p] \in disk[writable]
                          \/ pc \notin Freshening /\ node[p] \in disk[archive]

CacheKept(n) ==
    \/ n \in straddled
    \/ \E q \in Clients : at[q] \in {"cached", "store"} /\ node[q] = n
    \/ n \in disk[writable]
    \/ n \in disk[archive] /\ MayBeArchived(n)

CachePhases ==
    /\ pc \in Freshening \cup {"getKeys"} => rotationInFlight
    /\ pc = "freshened" => stop \/ Expired

(* The inductive invariant behind CachedIsStored: before the swap of the   *)
(* backends every cached node whose key was visited is in the writable     *)
(* backend, and so is what a read that began in time will cache.           *)
CacheInv ==
    /\ late \in [Clients -> BOOLEAN]
    /\ pc \notin Starting =>
          /\ \A p \in Clients : late[p] \/ ReadKept(p)
          /\ \A n \in ram : CacheKept(n)
          /\ CachePhases

LEMMA InitCache == ASSUME Init PROVE CacheInv
  <1>1. late = [p \in Clients |-> FALSE] /\ pc = "dbPaths"
    BY DEF Init, NodeStoreInit
  <1>2. QED
    BY <1>1 DEF CacheInv, Starting

(* A process that starts has nothing cached and no client.                 *)
LEMMA FreshCache ==
    ASSUME late' \in [Clients -> BOOLEAN], at' = [p \in Clients |-> "idle"], ram' = {},
           pc' = "top"
    PROVE  CacheInv'
  <1>1. pc' \notin Freshening \cup {"getKeys"} /\ pc' # "freshened"
    BY DEF Freshening
  <1>2. ASSUME NEW p \in Clients PROVE ReadKept(p)'
    <2>1. at'[p] = "idle"
      BY Zenon
    <2>2. at'[p] \notin {"fetch", "archived", "store", "found"}
      BY <2>1
    <2>3. QED
      BY <2>2, Zenon DEF ReadKept
  <1>3. QED
    BY <1>1, <1>2, Zenon DEF CacheInv, CachePhases

LEMMA StartCache ==
    ASSUME StoreInv, CacheInv, start \/ crash PROVE CacheInv'
  <1>1. CASE dbPaths \/ openWritable \/ openArchive
    <2>1. /\ pc \in Starting /\ late' = late
          /\ pc' \in {"openWritable", "stateError", "openArchive", "nameBackends"}
      BY <1>1 DEF dbPaths, openWritable, openArchive, history, Starting
    <2>2. pc' # "stateError"
      BY <1>1, DbPathsInv, OpenInv DEF StoreInv, RotatedLedgerKept
    <2>3. pc' \in Starting
      BY <2>1, <2>2 DEF Starting
    <2>4. QED
      BY <2>1, <2>3, Zenon DEF CacheInv
  <1>2. CASE nameBackends
    <2>1. pc \in Starting /\ pc' = "top" /\ UNCHANGED <<late, at, ram>>
      BY <1>2 DEF nameBackends, nodeStoreVars, client, history, Starting
    <2>2. at = [p \in Clients |-> "idle"] /\ ram = {}
      BY <2>1, Zenon DEF StoreInv, Fresh
    <2>3. late' \in [Clients -> BOOLEAN]
      BY <2>1, Zenon DEF CacheInv
    <2>4. QED
      BY <2>1, <2>2, <2>3, FreshCache, Zenon
  <1>3. CASE crash
    <2>1. pc' = "dbPaths" /\ late' = [p \in Clients |-> FALSE]
      BY <1>3, Zenon DEF crash, nodeStoreCrash
    <2>2. pc' \in Starting /\ late' \in [Clients -> BOOLEAN]
      BY <2>1 DEF Starting
    <2>3. QED
      BY <2>2, Zenon DEF CacheInv
  <1>4. QED
    BY <1>1, <1>2, <1>3, Zenon DEF start

-----------------------------------------------------------------------------
(* The thread, where it leaves the backends and the cache alone.           *)
CacheStill == UNCHANGED <<disk, writable, archive, ram, client, history>>

LEMMA StillCache ==
    ASSUME CacheInv, pc \notin Starting, CacheStill,
           pc' \in Freshening => pc \in Freshening,
           \A n \in ram : MayBeArchived(n) => MayBeArchived(n)',
           CachePhases'
    PROVE  CacheInv'
  <1>1. /\ disk' = disk /\ writable' = writable /\ archive' = archive /\ ram' = ram
        /\ at' = at /\ node' = node /\ wr' = wr /\ ar' = ar
        /\ late' = late /\ straddled' = straddled
    BY DEF CacheStill, client, history
  <1>2. \A p \in Clients : late[p] \/ ReadKept(p)'
    BY <1>1, Zenon DEF CacheInv, ReadKept
  <1>3. \A n \in ram : CacheKept(n)'
    BY <1>1, Zenon DEF CacheInv, CacheKept
  <1>4. QED
    BY <1>1, <1>2, <1>3, Zenon DEF CacheInv

(* Steps that end outside of the time between listing and swap.            *)
LEMMA OutsideCache ==
    ASSUME CacheInv, pc \notin Starting, CacheStill,
           pc' \notin Freshening, pc' = "getKeys" => rotationInFlight'
    PROVE  CacheInv'
  <1>1. pc' # "freshened"
    BY DEF Freshening
  <1>2. CachePhases' /\ \A n \in ram : MayBeArchived(n)'
    BY <1>1, Zenon DEF CachePhases, MayBeArchived
  <1>3. QED
    BY <1>2, StillCache, Zenon

(* A health check takes the thread to one of the places it names.          *)
LEMMA HealthPlaces ==
    ASSUME NEW k, NEW e, NEW s, healthWait(k, e, s) PROVE pc' \in {k, e, s}
  BY DEF healthWait

LEMMA QuietCache ==
    ASSUME CacheInv,
           \/ top \/ wakeUp \/ takeLedger \/ firstCheck \/ readyToRotate \/ clearPrior \/ clearSql
           \/ deleteBeforeSeq \/ afterClearPrior \/ copyCheck \/ afterCopy \/ guard \/ setState
           \/ unguard
    PROVE  CacheInv'
  <1>1. CacheStill
    BY DEF top, wakeUp, takeLedger, firstCheck, readyToRotate, clearPrior, clearSql,
           deleteBeforeSeq, afterClearPrior, copyCheck, afterCopy, guard, setState, unguard,
           CacheStill, nodeStoreVars, backends, pair
  <1>2. pc \notin Starting
    BY DEF top, wakeUp, takeLedger, firstCheck, readyToRotate, clearPrior, clearSql,
           deleteBeforeSeq, afterClearPrior, copyCheck, afterCopy, guard, setState, unguard,
           Starting
  <1>3. \/ pc' \in {"top", "returned", "wait", "awake", "ready", "readyCheck", "clearPrior",
                    "clearSql", "cleared", "deleteBatch", "copy", "copied", "guard", "rotated"}
        \/ pc' = "getKeys" /\ rotationInFlight'
    <2>1. CASE top \/ wakeUp \/ takeLedger \/ firstCheck \/ deleteBeforeSeq \/ setState \/ unguard
      BY <2>1 DEF top, wakeUp, takeLedger, firstCheck, deleteBeforeSeq, setState, unguard
    <2>2. CASE readyToRotate \/ afterClearPrior \/ copyCheck \/ afterCopy \/ clearPrior
      BY <2>2 DEF readyToRotate, afterClearPrior, copyCheck, afterCopy, clearPrior, healthWait
    <2>3. CASE clearSql
      <3>1. PICK k \in {"deleteBatch", "cleared", "clearSql"} :
                healthWait(k, "cleared", "cleared")
        <4>1. (IF table = Len(Tables) THEN "cleared" ELSE "clearSql") \in {"cleared", "clearSql"}
          OBVIOUS
        <4>2. QED
          BY <2>3, <4>1, Zenon DEF clearSql
      <3>2. pc' \in {k, "cleared"}
        BY <3>1, HealthPlaces
      <3>3. QED
        BY <3>2
    <2>4. CASE guard
      BY <2>4 DEF guard, setRotationInFlight
    <2>5. QED
      BY <2>1, <2>2, <2>3, <2>4, Zenon
  <1>4. pc' \notin Freshening /\ (pc' = "getKeys" => rotationInFlight')
    BY <1>3 DEF Freshening
  <1>5. QED
    BY <1>1, <1>2, <1>4, OutsideCache, Zenon

(* From the visit of the keys to the swap.                                 *)
LEMMA FreshenChecks ==
    ASSUME StoreInv, CacheInv,
           freshenCheck \/ afterFreshen \/ makeBackendRotating \/ afterClearCaches
    PROVE  CacheInv'
  <1>1. CacheStill /\ rotationInFlight' = rotationInFlight
    BY DEF freshenCheck, afterFreshen, makeBackendRotating, afterClearCaches,
           CacheStill, nodeStoreVars, backends, pair
  <1>2. pc \notin Starting /\ pc \in Freshening
    BY DEF freshenCheck, afterFreshen, makeBackendRotating, afterClearCaches,
           Starting, Freshening
  <1>3. rotationInFlight
    BY <1>2, Zenon DEF CacheInv, CachePhases
  <1>4. CASE pc' = "unguard"
    <2>1. pc' \notin Freshening /\ pc' # "getKeys"
      BY <1>4 DEF Freshening
    <2>2. QED
      BY <1>1, <1>2, <2>1, OutsideCache, Zenon
  <1>5. CASE pc' # "unguard"
    <2>1. CASE freshenCheck
      <3>1. /\ pc = "freshenCheck" /\ todo' = todo /\ stop' = stop /\ validLedger' = validLedger
            /\ healthWait("freshen", "freshened", "freshened")
        BY <2>1 DEF freshenCheck, visit, signals, ledgers
      <3>2. \/ pc' = "freshen" /\ ~stop /\ ~Expired
            \/ pc' \in {"freshened", "freshened"} /\ lastCheck' = lastCheck /\ (stop \/ Expired)
        BY <3>1, HealthFacts
      <3>3. pc' = "freshened" => stop' \/ Expired'
        BY <3>1, <3>2 DEF Expired
      <3>4. CachePhases'
        BY <1>1, <1>3, <3>3, Zenon DEF CachePhases
      <3>5. \A n \in ram : MayBeArchived(n) => MayBeArchived(n)'
        BY <3>1, <3>2 DEF MayBeArchived, Freshening
      <3>6. QED
        BY <1>1, <1>2, <3>4, <3>5, StillCache, Zenon
    <2>2. CASE afterFreshen
      <3>1. /\ pc = "freshened" \/ (pc = "freshen" /\ todo = {})
            /\ stop' = stop /\ healthWait("makeBackend", "unguard", "unguard")
        BY <2>2 DEF afterFreshen, signals
      <3>2. pc' = "makeBackend" /\ ~stop /\ ~Expired
        BY <1>5, <3>1, HealthFacts
      <3>3. pc # "freshened"
        BY <1>2, <3>2, Zenon DEF CacheInv, CachePhases
      <3>4. \A n : ~MayBeArchived(n)
        BY <1>2, <3>1, <3>3 DEF MayBeArchived
      <3>5. CachePhases'
        BY <1>1, <1>3, <3>2 DEF CachePhases
      <3>6. QED
        BY <1>1, <1>2, <3>4, <3>5, StillCache, Zenon
    <2>3. CASE makeBackendRotating \/ afterClearCaches
      <3>1. pc \in {"makeBackend", "made"} /\ pc' \in {"made", "rotate"}
        BY <1>5, <2>3, HealthPlaces DEF makeBackendRotating, afterClearCaches, healthWait
      <3>2. \A n : ~MayBeArchived(n)
        BY <1>2, <3>1 DEF MayBeArchived
      <3>3. CachePhases'
        BY <1>1, <1>3, <3>1 DEF CachePhases
      <3>4. QED
        BY <1>1, <1>2, <3>2, <3>3, StillCache, Zenon
    <2>4. QED
      BY <2>1, <2>2, <2>3, Zenon
  <1>6. QED
    BY <1>4, <1>5, Zenon

(* New ledgers and the stop.                                               *)
LEMMA LedgerCache ==
    ASSUME StoreInv, CacheInv,
           onLedgerClosed \/ stopThread \/ \E n \in Nodes : haveNode(n)
    PROVE  CacheInv'
  <1>1. /\ CacheStill /\ rotationInFlight' = rotationInFlight
        /\ todo' = todo /\ lastCheck' = lastCheck /\ (stop => stop')
        /\ validLedger' \in {validLedger, validLedger + 1}
        /\ pc' \in {pc, notify} /\ pc \notin Starting
    <2>1. Up => pc \notin Starting
      BY DEF Up, Starting
    <2>2. CASE onLedgerClosed
      BY <2>1, <2>2, Zenon DEF onLedgerClosed, CacheStill, nodeStoreVars, backends, pair, visit, signals
    <2>3. CASE stopThread
      BY <2>1, <2>3, Zenon DEF stopThread, CacheStill, nodeStoreVars, backends, pair, visit, ledgers
    <2>4. CASE \E n \in Nodes : haveNode(n)
      <3>1. Up /\ UNCHANGED <<nodeStoreVars, loop, validLedger>>
        BY <2>4, Zenon DEF haveNode
      <3>2. CacheStill /\ rotationInFlight' = rotationInFlight
        BY <3>1, Zenon DEF CacheStill, nodeStoreVars, backends, pair
      <3>3. pc' = pc /\ lastCheck' = lastCheck /\ todo' = todo /\ stop' = stop
        BY <3>1 DEF loop, visit, signals
      <3>4. QED
        BY <2>1, <3>1, <3>2, <3>3, Zenon
    <2>5. QED
      BY <2>2, <2>3, <2>4, Zenon
  <1>2. pc' = pc \/ (pc = "wait" /\ pc' = "awake")
    BY <1>1 DEF notify
  <1>3. CASE pc' = pc
    <2>1. Expired => Expired'
      <3>1. validLedger \in Int /\ lastCheck \in Int /\ maxWaitingLedgers \in Int
        <4>1. validLedger \in 0..MaxSeq /\ lastCheck \in Nat
          BY Zenon DEF StoreInv, LoopTypes
        <4>2. maxWaitingLedgers \in Nat
          BY SHAMapStoreAssumption, Zenon
        <4>3. validLedger \in Nat
          BY <4>1, SeqFacts, Zenon
        <4>4. QED
          BY <4>1, <4>2, <4>3
      <3>2. QED
        BY <1>1, <3>1 DEF Expired
    <2>2. CachePhases'
      BY <1>1, <1>3, <2>1, Zenon DEF CacheInv, CachePhases
    <2>3. \A n : MayBeArchived(n) => MayBeArchived(n)'
      BY <1>1, <1>3, Zenon DEF MayBeArchived
    <2>4. QED
      BY <1>1, <1>3, <2>2, <2>3, StillCache, Zenon
  <1>4. CASE pc = "wait" /\ pc' = "awake"
    <2>1. pc' \notin Freshening /\ pc' # "getKeys"
      BY <1>4 DEF Freshening
    <2>2. QED
      BY <1>1, <2>1, OutsideCache, Zenon
  <1>5. QED
    BY <1>2, <1>3, <1>4, Zenon
-----------------------------------------------------------------------------
(* The steps of the rotation.                                              *)

LEMMA BackendsInUse ==
    ASSUME StoreInv, pc \notin Starting
    PROVE  /\ writable \in Backends /\ archive \in Backends
           /\ disk \in [Backends -> SUBSET Nodes]
           /\ at \in [Clients -> {"idle", "fetch", "archived", "found", "cached", "store"}]
           /\ node \in [Clients -> Nodes \cup {NoNode}]
           /\ wr \in [Clients -> MaybeBackend] /\ ar \in [Clients -> MaybeBackend]
  BY Zenon DEF StoreInv, Naming, StoreTypes

(* The thread writes a node to the writable backend, and may cache it.     *)
LEMMA GrowingCache ==
    ASSUME CacheInv, pc \notin Starting, pc' \notin Starting,
           UNCHANGED <<writable, archive, client, late>>,
           disk[writable] \subseteq disk'[writable], disk[archive] \subseteq disk'[archive],
           pc' \in Freshening => pc \in Freshening,
           \A m \in ram' : \/ m \in disk'[writable]
                           \/ /\ m \in ram /\ (m \in straddled => m \in straddled')
                              /\ m \in disk[archive] /\ MayBeArchived(m) =>
                                    MayBeArchived(m)' \/ m \in disk'[writable],
           CachePhases'
    PROVE  CacheInv'
  <1>1. /\ writable' = writable /\ archive' = archive /\ at' = at /\ node' = node
        /\ wr' = wr /\ ar' = ar /\ late' = late
    BY DEF client
  <1>2. \A p \in Clients : late'[p] \/ ReadKept(p)'
    <2>1. \A p \in Clients : late[p] \/ ReadKept(p)
      BY Zenon DEF CacheInv
    <2>2. QED
      BY <1>1, <2>1, Zenon DEF ReadKept
  <1>3. ASSUME NEW m \in ram' PROVE CacheKept(m)'
    <2>1. CASE m \in disk'[writable]
      BY <1>1, <2>1, Zenon DEF CacheKept
    <2>2. CASE /\ m \in ram /\ (m \in straddled => m \in straddled')
               /\ m \in disk[archive] /\ MayBeArchived(m) =>
                     MayBeArchived(m)' \/ m \in disk'[writable]
      <3>1. CacheKept(m)
        BY <2>2, Zenon DEF CacheInv
      <3>2. QED
        BY <1>1, <2>2, <3>1, Zenon DEF CacheKept
    <2>3. QED
      BY <2>1, <2>2, Zenon
  <1>4. late' \in [Clients -> BOOLEAN]
    BY <1>1, Zenon DEF CacheInv
  <1>5. QED
    BY <1>2, <1>3, <1>4, Zenon DEF CacheInv

LEMMA CopyNodeCache ==
    ASSUME StoreInv, CacheInv, copyNode PROVE CacheInv'
  <1>1. pc = "copy" /\ pc' \in {"copy", "copyCheck", "top"}
    BY DEF copyNode, visited
  <1>2. /\ pc \notin Starting /\ pc' \notin Starting
        /\ pc' \notin Freshening /\ pc' # "freshened" /\ pc' # "getKeys"
    BY <1>1 DEF Starting, Freshening
  <1>3. UNCHANGED <<writable, archive, client, late>>
    BY DEF copyNode, pair
  <1>4. \/ disk' = disk /\ ram' = ram /\ straddled' = straddled
        \/ \E n : /\ disk' = [disk EXCEPT ![writable] = @ \cup {n}]
                  /\ ram' = ram \cup {n} /\ straddled' = straddled \ {n}
    BY DEF copyNode
  <1>5. CachePhases' /\ \A m : MayBeArchived(m)'
    BY <1>2, Zenon DEF CachePhases, MayBeArchived
  <1>6. CASE disk' = disk /\ ram' = ram /\ straddled' = straddled
    BY <1>2, <1>3, <1>5, <1>6, GrowingCache, Zenon
  <1>7. ASSUME NEW n, disk' = [disk EXCEPT ![writable] = @ \cup {n}],
               ram' = ram \cup {n}, straddled' = straddled \ {n}
        PROVE  CacheInv'
    <2>1. /\ disk[writable] \subseteq disk'[writable] /\ disk[archive] \subseteq disk'[archive]
          /\ n \in disk'[writable]
      BY <1>2, <1>7, BackendsInUse
    <2>2. \A m \in ram' : m \in disk'[writable] \/ (m \in ram /\ (m \in straddled => m \in straddled'))
      BY <1>7, <2>1, Zenon
    <2>3. QED
      BY <1>2, <1>3, <1>5, <2>1, <2>2, GrowingCache, Zenon
  <1>8. QED
    BY <1>4, <1>6, <1>7, Zenon

LEMMA FreshenCacheCache ==
    ASSUME StoreInv, CacheInv, freshenCache PROVE CacheInv'
  <1>1. pc = "freshen" /\ pc' \in {"freshen", "freshenCheck"}
    BY DEF freshenCache, visited
  <1>2. pc \notin Starting /\ pc' \notin Starting /\ pc \in Freshening /\ pc' # "freshened"
    BY <1>1 DEF Starting, Freshening
  <1>3. /\ UNCHANGED <<writable, archive, client, late>> /\ ram' = ram /\ straddled' = straddled
        /\ rotationInFlight' = rotationInFlight
    BY DEF freshenCache, pair, history
  <1>4. PICK n \in todo : disk' = Duplicated(n) /\ todo' = todo \ {n}
    BY DEF freshenCache, visited
  <1>5. CachePhases'
    BY <1>2, <1>3, Zenon DEF CacheInv, CachePhases
  <1>6. /\ disk[writable] \subseteq disk'[writable] /\ disk[archive] \subseteq disk'[archive]
        /\ n \in disk[archive] => n \in disk'[writable]
    BY <1>2, <1>4, BackendsInUse DEF Duplicated
  <1>7. \A m : MayBeArchived(m) => MayBeArchived(m)' \/ m = n
    BY <1>1, <1>2, <1>4, Zenon DEF MayBeArchived
  <1>8. \A m \in ram' : /\ m \in ram /\ (m \in straddled => m \in straddled')
                        /\ m \in disk[archive] /\ MayBeArchived(m) =>
                              MayBeArchived(m)' \/ m \in disk'[writable]
    BY <1>3, <1>6, <1>7, Zenon
  <1>9. QED
    BY <1>2, <1>3, <1>5, <1>6, <1>8, GrowingCache, Zenon

(* Listing the keys: every cached node is yet to be visited, and a read    *)
(* that is about to cache its node is marked.                              *)
LEMMA GetKeysCache ==
    ASSUME StoreInv, CacheInv, getKeys PROVE CacheInv'
  <1>1. /\ pc = "getKeys" /\ pc' = "freshen" /\ todo' = ram
        /\ straddle({"found"}) /\ straddled' = straddled
        /\ UNCHANGED <<disk, writable, archive, rotationInFlight, ram, at, node, wr, ar>>
    BY DEF getKeys, backends, pair, client
  <1>2. pc \notin Starting /\ pc' # "freshened"
    BY <1>1 DEF Starting
  <1>3. late' = [p \in Clients |-> late[p] \/ at[p] \in {"found"}]
    BY <1>1, Zenon DEF straddle
  <1>4. late' \in [Clients -> BOOLEAN]
    BY <1>3
  <1>5. ASSUME NEW p \in Clients PROVE late'[p] \/ ReadKept(p)'
    <2>1. late'[p] <=> late[p] \/ at[p] = "found"
      BY <1>3
    <2>2. late[p] \/ ReadKept(p)
      BY <1>2, Zenon DEF CacheInv
    <2>3. QED
      BY <1>1, <2>1, <2>2, Zenon DEF ReadKept
  <1>6. ASSUME NEW n \in ram' PROVE CacheKept(n)'
    <2>1. CacheKept(n) /\ n \in todo'
      BY <1>1, <1>2, <1>6, Zenon DEF CacheInv
    <2>2. MayBeArchived(n)'
      BY <1>1, <2>1, Zenon DEF MayBeArchived
    <2>3. QED
      BY <1>1, <2>1, <2>2, Zenon DEF CacheKept
  <1>7. CachePhases'
    <2>1. rotationInFlight
      BY <1>1, <1>2, Zenon DEF CacheInv, CachePhases
    <2>2. QED
      BY <1>1, <1>2, <2>1, Zenon DEF CachePhases
  <1>8. QED
    BY <1>4, <1>5, <1>6, <1>7, Zenon DEF CacheInv

(* The swap: what is cached is in the backend that becomes the archive,    *)
(* and every read or write that holds a backend is marked.                 *)
LEMMA SwapCache ==
    ASSUME StoreInv, CacheInv, swapBackends PROVE CacheInv'
  <1>1. /\ pc = "rotate" /\ pc' = "setState" /\ archive' = writable
        /\ straddle({"fetch", "archived", "found", "store"})
        /\ UNCHANGED <<disk, ram, at, node, straddled>>
    BY DEF swapBackends, rotate, client
  <1>2. /\ pc \notin Starting /\ pc \in Freshening
        /\ pc' \notin Freshening /\ pc' # "getKeys" /\ pc' # "freshened"
        /\ pc \notin {"freshen", "freshenCheck"} /\ pc # "freshened"
    BY <1>1 DEF Starting, Freshening
  <1>3. late' = [p \in Clients |-> late[p] \/ at[p] \in {"fetch", "archived", "found", "store"}]
    BY <1>1, Zenon DEF straddle
  <1>4. late' \in [Clients -> BOOLEAN]
    BY <1>3
  <1>5. ASSUME NEW p \in Clients PROVE late'[p] \/ ReadKept(p)'
    <2>1. late'[p] <=> late[p] \/ at[p] \in {"fetch", "archived", "found", "store"}
      BY <1>3
    <2>2. QED
      BY <1>1, <2>1, Zenon DEF ReadKept
  <1>6. ASSUME NEW n \in ram' PROVE CacheKept(n)'
    <2>1. CacheKept(n) /\ ~MayBeArchived(n) /\ MayBeArchived(n)'
      BY <1>1, <1>2, <1>6, Zenon DEF CacheInv, MayBeArchived
    <2>2. QED
      BY <1>1, <2>1, Zenon DEF CacheKept
  <1>7. CachePhases'
    BY <1>2, Zenon DEF CachePhases
  <1>8. QED
    BY <1>4, <1>5, <1>6, <1>7, Zenon DEF CacheInv

LEMMA DeleteArchiveCache ==
    ASSUME StoreInv, CacheInv, deleteArchive PROVE CacheInv'
  <1>1. /\ pc = "rotated" /\ pc' = "unguard" /\ letGo(disk)
        /\ UNCHANGED <<writable, archive, client, late>> /\ ram' = ram /\ straddled' = straddled
    BY DEF deleteArchive, rotated, history
  <1>2. /\ pc \notin Starting /\ pc' \notin Starting
        /\ pc' \notin Freshening /\ pc' # "getKeys" /\ pc' # "freshened"
    BY <1>1 DEF Starting, Freshening
  <1>3. disk'[writable] = disk[writable] /\ disk'[archive] = disk[archive]
    <2>1. /\ StoreTypes /\ writable \in Backends /\ archive \in Backends
          /\ disk \in [Backends -> SUBSET Nodes]
      BY <1>2, BackendsInUse, Zenon DEF StoreInv
    <2>2. \A b \in {writable', archive', old'} \cap Backends : disk'[b] = disk[b]
      BY <1>1, <2>1, LetGo, Zenon
    <2>3. QED
      BY <1>1, <2>1, <2>2, Zenon
  <1>4. CachePhases' /\ \A m : MayBeArchived(m)'
    BY <1>2, Zenon DEF CachePhases, MayBeArchived
  <1>5. QED
    BY <1>1, <1>2, <1>3, <1>4, GrowingCache, Zenon
-----------------------------------------------------------------------------
(* The clients.                                                            *)

LEMMA PhasesStay ==
    ASSUME CachePhases, pc' = pc, stop' = stop, rotationInFlight' = rotationInFlight,
           lastCheck' = lastCheck, validLedger' = validLedger
    PROVE  CachePhases'
  <1>1. Expired' <=> Expired
    BY DEF Expired
  <1>2. QED
    BY <1>1, Zenon DEF CachePhases

(* A step of one client, while the two backends lose nothing.              *)
LEMMA ClientCache ==
    ASSUME CacheInv, pc \notin Starting, NEW p \in Clients,
           UNCHANGED <<loop, ledgers>>, UNCHANGED <<writable, archive, rotationInFlight>>,
           disk[writable] \subseteq disk'[writable], disk[archive] \subseteq disk'[archive],
           OthersStay(p), \A q \in Clients \ {p} : late'[q] = late[q],
           late' \in [Clients -> BOOLEAN], late'[p] \/ ReadKept(p)',
           \A m \in ram' : \/ CacheKept(m)'
                           \/ m \in ram /\ (m \in straddled => m \in straddled'),
           at[p] \in {"cached", "store"} =>
              \/ node[p] \in disk'[writable] \cup straddled'
              \/ at'[p] \in {"cached", "store"} /\ node'[p] = node[p]
    PROVE  CacheInv'
  <1>1. /\ pc' = pc /\ todo' = todo /\ stop' = stop /\ lastCheck' = lastCheck
        /\ validLedger' = validLedger /\ writable' = writable /\ archive' = archive
        /\ rotationInFlight' = rotationInFlight
    BY DEF loop, ledgers, signals, visit
  <1>2. /\ \A q \in Clients : late[q] \/ ReadKept(q)
        /\ \A m \in ram : CacheKept(m)
        /\ CachePhases
    BY Zenon DEF CacheInv
  <1>3. \A m : MayBeArchived(m)' <=> MayBeArchived(m)
    BY <1>1, Zenon DEF MayBeArchived
  <1>4. CachePhases'
    BY <1>1, <1>2, PhasesStay, Zenon
  <1>5. ASSUME NEW q \in Clients PROVE late'[q] \/ ReadKept(q)'
    <2>1. CASE q = p
      BY <2>1, Zenon
    <2>2. CASE q # p
      <3>1. /\ at'[q] = at[q] /\ node'[q] = node[q] /\ wr'[q] = wr[q] /\ ar'[q] = ar[q]
            /\ late'[q] = late[q]
        BY <2>2, Zenon DEF OthersStay
      <3>2. ReadKept(q) => ReadKept(q)'
        BY <1>1, <3>1, Zenon DEF ReadKept
      <3>3. QED
        BY <1>2, <3>1, <3>2, Zenon
    <2>3. QED
      BY <2>1, <2>2, Zenon
  <1>6. ASSUME NEW m \in ram' PROVE CacheKept(m)'
    <2>1. CASE m \in ram /\ (m \in straddled => m \in straddled')
      <3>1. CASE \E q \in Clients : at[q] \in {"cached", "store"} /\ node[q] = m
        <4>1. PICK q \in Clients : at[q] \in {"cached", "store"} /\ node[q] = m
          BY <3>1, Zenon
        <4>2. CASE q = p
          <5>1. \/ m \in disk'[writable] \cup straddled'
                \/ at'[p] \in {"cached", "store"} /\ node'[p] = m
            BY <4>1, <4>2, Zenon
          <5>2. QED
            BY <1>1, <5>1, Zenon DEF CacheKept
        <4>3. CASE q # p
          <5>1. at'[q] = at[q] /\ node'[q] = node[q]
            BY <4>3, Zenon DEF OthersStay
          <5>2. QED
            BY <4>1, <5>1, Zenon DEF CacheKept
        <4>4. QED
          BY <4>2, <4>3, Zenon
      <3>2. CASE ~\E q \in Clients : at[q] \in {"cached", "store"} /\ node[q] = m
        <4>1. m \in straddled \/ m \in disk[writable] \/ (m \in disk[archive] /\ MayBeArchived(m))
          BY <1>2, <2>1, <3>2, Zenon DEF CacheKept
        <4>2. QED
          BY <1>1, <1>3, <2>1, <4>1, Zenon DEF CacheKept
      <3>3. QED
        BY <3>1, <3>2, Zenon
    <2>2. QED
      BY <2>1, Zenon
  <1>7. QED
    BY <1>1, <1>4, <1>5, <1>6, Zenon DEF CacheInv

(* What a client that lets go does to late, and one that does not.         *)
LEMMA LateOfOne ==
    ASSUME CacheInv, NEW p \in Clients,
           late' = late \/ late' = [late EXCEPT ![p] = FALSE]
    PROVE  late' \in [Clients -> BOOLEAN] /\ \A q \in Clients \ {p} : late'[q] = late[q]
  <1>1. late \in [Clients -> BOOLEAN]
    BY Zenon DEF CacheInv
  <1>2. QED
    BY <1>1

(* Reads and writes that leave the backends alone.                         *)
LEMMA QuietClientCache ==
    ASSUME StoreInv, CacheInv, pc \notin Starting, UNCHANGED <<loop, ledgers>>,
           NEW p \in Clients, NEW n, fetchNodeObject(p, n) \/ store(p) \/ writeNode(p, n)
    PROVE  CacheInv'
  <1>1. UNCHANGED <<disk, writable, archive, rotationInFlight, straddled>>
    BY DEF fetchNodeObject, store, writeNode, backends, pair, history
  <1>2. /\ late' \in [Clients -> BOOLEAN] /\ \A q \in Clients \ {p} : late'[q] = late[q]
    <2>1. late' = late \/ late' = [late EXCEPT ![p] = FALSE]
      BY DEF fetchNodeObject, store, writeNode, history
    <2>2. QED
      BY <2>1, LateOfOne, Zenon
  <1>3. /\ disk[writable] \subseteq disk'[writable] /\ disk[archive] \subseteq disk'[archive]
        /\ UNCHANGED <<writable, archive, rotationInFlight>>
    BY <1>1, Zenon
  <1>4. CASE fetchNodeObject(p, n)
    <2>1. /\ at[p] = "idle" /\ ram' = ram /\ at' = [at EXCEPT ![p] = "fetch"]
          /\ node' = [node EXCEPT ![p] = n] /\ wr' = [wr EXCEPT ![p] = writable]
          /\ ar' = [ar EXCEPT ![p] = archive]
      BY <1>4, Zenon DEF fetchNodeObject
    <2>2. OthersStay(p) /\ at'[p] = "fetch" /\ wr'[p] = writable /\ ar'[p] = archive
      BY <2>1, BackendsInUse DEF OthersStay
    <2>3. at'[p] \notin {"archived", "store", "found"} /\ at[p] \notin {"cached", "store"}
      BY <2>1, <2>2
    <2>4. ReadKept(p)'
      BY <1>1, <2>2, <2>3, Zenon DEF ReadKept
    <2>5. \A m \in ram' : m \in ram /\ (m \in straddled => m \in straddled')
      BY <1>1, <2>1, Zenon
    <2>6. QED
      BY <1>2, <1>3, <2>2, <2>3, <2>4, <2>5, ClientCache, Zenon
  <1>5. CASE store(p)
    <2>1. /\ at[p] = "cached" /\ at' = [at EXCEPT ![p] = "store"]
          /\ wr' = [wr EXCEPT ![p] = writable] /\ UNCHANGED <<ram, node, ar>>
      BY <1>5, Zenon DEF store
    <2>2. OthersStay(p) /\ at'[p] = "store" /\ wr'[p] = writable /\ node'[p] = node[p]
      BY <2>1, BackendsInUse DEF OthersStay
    <2>3. at'[p] \notin {"fetch", "archived", "found"} /\ at'[p] \in {"cached", "store"}
      BY <2>2
    <2>4. ReadKept(p)'
      BY <1>1, <2>2, <2>3, Zenon DEF ReadKept
    <2>5. \A m \in ram' : m \in ram /\ (m \in straddled => m \in straddled')
      BY <1>1, <2>1, Zenon
    <2>6. QED
      BY <1>2, <1>3, <2>2, <2>3, <2>4, <2>5, ClientCache, Zenon
  <1>6. CASE writeNode(p, n)
    <2>1. /\ at[p] = "idle" /\ ram' = ram \cup {n} /\ at' = [at EXCEPT ![p] = "cached"]
          /\ node' = [node EXCEPT ![p] = n] /\ UNCHANGED <<wr, ar>>
      BY <1>6, Zenon DEF writeNode
    <2>2. OthersStay(p) /\ at'[p] = "cached" /\ node'[p] = n
      BY <2>1, BackendsInUse DEF OthersStay
    <2>3. /\ at'[p] \notin {"fetch", "archived", "store", "found"} /\ at'[p] \in {"cached", "store"}
          /\ at[p] \notin {"cached", "store"}
      BY <2>1, <2>2
    <2>4. ReadKept(p)'
      BY <2>3, Zenon DEF ReadKept
    <2>5. CacheKept(n)'
      BY <2>2, <2>3, Zenon DEF CacheKept
    <2>6. ASSUME NEW m \in ram'
          PROVE  CacheKept(m)' \/ (m \in ram /\ (m \in straddled => m \in straddled'))
      <3>1. CASE m = n
        BY <2>5, <3>1, Zenon DEF CacheKept
      <3>2. CASE m # n
        BY <1>1, <2>1, <2>6, <3>2, Zenon
      <3>3. QED
        BY <3>1, <3>2, Zenon
    <2>7. QED
      BY <1>2, <1>3, <2>2, <2>3, <2>4, <2>6, ClientCache, Zenon
  <1>7. QED
    BY <1>4, <1>5, <1>6, Zenon

LEMMA SweepCache ==
    ASSUME CacheInv, pc \notin Starting, UNCHANGED <<loop, ledgers>>, NEW n, sweep(n)
    PROVE  CacheInv'
  <1>1. /\ UNCHANGED <<disk, writable, archive, rotationInFlight, client, late>>
        /\ ram' = ram \ {n} /\ straddled' = straddled \ {n}
    BY DEF sweep, backends, pair
  <1>2. pc' = pc /\ todo' = todo /\ UNCHANGED <<stop, lastCheck, validLedger>>
    BY DEF loop, ledgers, signals, visit
  <1>3. CachePhases'
    BY <1>1, <1>2, PhasesStay, Zenon DEF CacheInv
  <1>4. \A m : MayBeArchived(m) => MayBeArchived(m)'
    BY <1>2, Zenon DEF MayBeArchived
  <1>5. \A m \in ram' : m \in ram /\ (m \in straddled => m \in straddled')
    BY <1>1, Zenon
  <1>6. QED
    BY <1>1, <1>2, <1>3, <1>4, <1>5, GrowingCache, Zenon

(* Copying forward: while the rotation is in flight the node is stored in  *)
(* the writable backend.                                                   *)
LEMMA CopyForwardCache ==
    ASSUME StoreInv, CacheInv, pc \notin Starting, UNCHANGED <<loop, ledgers>>,
           NEW p \in Clients, copyForward(p)
    PROVE  CacheInv'
  <1>1. /\ at[p] = "archived" /\ at' = [at EXCEPT ![p] = "found"]
        /\ IF rotationInFlight THEN disk' = [disk EXCEPT ![wr[p]] = @ \cup {node[p]}]
                               ELSE disk' = disk
        /\ UNCHANGED <<writable, archive, rotationInFlight, ram, node, wr, ar, late, straddled>>
    BY DEF copyForward, pair, history
  <1>2. late' \in [Clients -> BOOLEAN] /\ \A q \in Clients \ {p} : late'[q] = late[q]
    BY <1>1, LateOfOne, Zenon
  <1>3. /\ disk[writable] \subseteq disk'[writable] /\ disk[archive] \subseteq disk'[archive]
        /\ rotationInFlight /\ wr[p] = writable => node[p] \in disk'[writable]
    <2>1. writable \in Backends /\ archive \in Backends /\ disk \in [Backends -> SUBSET Nodes]
      BY BackendsInUse, Zenon
    <2>2. CASE rotationInFlight
      <3>1. disk' = [disk EXCEPT ![wr[p]] = @ \cup {node[p]}]
        BY <1>1, <2>2, Zenon
      <3>2. QED
        BY <2>1, <3>1
    <2>3. CASE ~rotationInFlight
      BY <1>1, <2>3, Zenon
    <2>4. QED
      BY <2>2, <2>3, Zenon
  <1>4. OthersStay(p) /\ at'[p] = "found" /\ node'[p] = node[p]
    BY <1>1, BackendsInUse DEF OthersStay
  <1>5. /\ at'[p] \notin {"fetch", "archived", "store"} /\ at'[p] # "archived" /\ at'[p] # "fetch"
        /\ at[p] \notin {"cached", "store"} /\ at[p] \in {"archived", "store"}
    BY <1>1, <1>4
  <1>6. pc' = pc /\ (pc \in Freshening => rotationInFlight)
    <2>1. pc' = pc
      BY DEF loop
    <2>2. QED
      BY <2>1, Zenon DEF CacheInv, CachePhases
  <1>7. late'[p] \/ ReadKept(p)'
    <2>1. CASE late[p]
      BY <1>1, <2>1, Zenon
    <2>2. CASE ~late[p]
      <3>1. wr[p] = writable /\ node[p] \in disk[writable] \cup disk[archive]
        BY <1>1, <1>5, <2>2, Zenon DEF CacheInv, ReadKept
      <3>2. node'[p] \in disk'[writable'] \/ (pc' \notin Freshening /\ node'[p] \in disk'[archive'])
        BY <1>1, <1>3, <1>4, <1>6, <3>1, Zenon
      <3>3. /\ at'[p] = "fetch" => FALSE
            /\ at'[p] \in {"archived", "store"} => FALSE
            /\ at'[p] = "archived" => FALSE
        BY <1>4
      <3>4. ReadKept(p)'
        BY <3>2, <3>3, Zenon DEF ReadKept
      <3>5. QED
        BY <3>4, Zenon
    <2>3. QED
      BY <2>1, <2>2, Zenon
  <1>8. \A m \in ram' : m \in ram /\ (m \in straddled => m \in straddled')
    BY <1>1, Zenon
  <1>9. UNCHANGED <<writable, archive, rotationInFlight>>
    BY <1>1, Zenon
  <1>10. QED
    BY <1>2, <1>3, <1>4, <1>5, <1>7, <1>8, <1>9, ClientCache, Zenon

(* The backends in use keep what they have when a client lets go of one.   *)
LEMMA ReleaseKeeps ==
    ASSUME StoreInv, pc \notin Starting, NEW p \in Clients,
           fetch(p) \/ finishFetch(p) \/ backendStore(p)
    PROVE  /\ UNCHANGED <<writable, archive, rotationInFlight>>
           /\ disk[writable] \subseteq disk'[writable] /\ disk[archive] \subseteq disk'[archive]
           /\ backendStore(p) /\ wr[p] = writable => node[p] \in disk'[writable]
  <1>1. UNCHANGED <<writable, archive, old, rotationInFlight>>
    BY DEF fetch, finishFetch, backendStore, pair
  <1>2. /\ StoreTypes /\ writable \in Backends /\ archive \in Backends
        /\ disk \in [Backends -> SUBSET Nodes]
    BY BackendsInUse, Zenon DEF StoreInv
  <1>3. CASE fetch(p) \/ finishFetch(p)
    <2>1. letGo(disk)
      BY <1>3, Zenon DEF fetch, finishFetch
    <2>2. \A b \in {writable', archive', old'} \cap Backends : disk'[b] = disk[b]
      BY <1>2, <2>1, LetGo, Zenon
    <2>3. ~backendStore(p)
      BY <1>3 DEF fetch, finishFetch, backendStore
    <2>4. QED
      BY <1>1, <1>2, <2>2, <2>3, Zenon
  <1>4. CASE backendStore(p)
    <2>1. PICK s : s = [disk EXCEPT ![wr[p]] = @ \cup {node[p]}]
      OBVIOUS
    <2>2. node[p] \in Nodes
      BY <1>2, <1>4 DEF StoreTypes, backendStore
    <2>3. /\ s \in [Backends -> SUBSET Nodes]
          /\ disk[writable] \subseteq s[writable] /\ disk[archive] \subseteq s[archive]
          /\ wr[p] = writable => node[p] \in s[writable]
      BY <1>2, <2>1, <2>2
    <2>4. letGo(s)
      BY <1>4, <2>1, Zenon DEF backendStore
    <2>5. \A b \in {writable', archive', old'} \cap Backends : disk'[b] = s[b]
      BY <1>2, <2>3, <2>4, LetGo, Zenon
    <2>6. QED
      BY <1>1, <1>2, <2>3, <2>5, Zenon
  <1>5. QED
    BY <1>3, <1>4, Zenon

LEMMA FetchCache ==
    ASSUME StoreInv, CacheInv, pc \notin Starting, UNCHANGED <<loop, ledgers>>,
           NEW p \in Clients, fetch(p)
    PROVE  CacheInv'
  <1>1. StoreTypes /\ writable \in Backends /\ archive \in Backends
    BY BackendsInUse, Zenon DEF StoreInv
  <1>2. /\ at[p] = "fetch" /\ ram' = ram /\ OthersStay(p)
        /\ \/ at'[p] = "found" /\ node'[p] \in disk[wr[p]]
           \/ at'[p] = "archived" /\ wr'[p] = writable /\ node'[p] \in disk[ar[p]]
           \/ at'[p] = "idle"
    BY <1>1, FetchMoves, Zenon
  <1>3. /\ UNCHANGED <<writable, archive, rotationInFlight>>
        /\ disk[writable] \subseteq disk'[writable] /\ disk[archive] \subseteq disk'[archive]
    BY ReleaseKeeps, Zenon
  <1>4. straddled' = straddled /\ (late' = late \/ (late' = [late EXCEPT ![p] = FALSE] /\ at'[p] = "idle"))
    <2>1. straddled' = straddled
      BY Zenon DEF fetch
    <2>2. late' = late \/ release(p)
      BY DEF fetch
    <2>3. release(p) => at'[p] = "idle" /\ late' = [late EXCEPT ![p] = FALSE]
      BY <1>1, ReleaseMoves, Zenon DEF release
    <2>4. QED
      BY <2>1, <2>2, <2>3, Zenon
  <1>5. late' \in [Clients -> BOOLEAN] /\ \A q \in Clients \ {p} : late'[q] = late[q]
    BY <1>4, LateOfOne, Zenon
  <1>6. late'[p] \/ ReadKept(p)'
    <2>1. CASE at'[p] = "idle"
      <3>1. at'[p] \notin {"archived", "store"} /\ at'[p] # "fetch" /\ at'[p] # "archived" /\ at'[p] # "found"
        BY <2>1
      <3>2. QED
        BY <3>1, Zenon DEF ReadKept
    <2>2. CASE at'[p] # "idle" /\ late[p]
      BY <1>4, <2>2, Zenon
    <2>3. CASE at'[p] # "idle" /\ ~late[p]
      <3>1. wr[p] = writable /\ ar[p] = archive
        BY <1>2, <2>3, Zenon DEF CacheInv, ReadKept
      <3>2. CASE at'[p] = "found" /\ node'[p] \in disk[wr[p]]
        <4>1. at'[p] \notin {"archived", "store"} /\ at'[p] # "fetch" /\ at'[p] # "archived"
          BY <3>2
        <4>2. node'[p] \in disk'[writable']
          BY <1>3, <3>1, <3>2, Zenon
        <4>3. QED
          BY <4>1, <4>2, Zenon DEF ReadKept
      <3>3. CASE at'[p] = "archived" /\ wr'[p] = writable /\ node'[p] \in disk[ar[p]]
        <4>1. at'[p] # "fetch" /\ at'[p] # "found"
          BY <3>3
        <4>2. node'[p] \in disk'[archive'] /\ wr'[p] = writable'
          BY <1>3, <3>1, <3>3, Zenon
        <4>3. QED
          BY <4>1, <4>2, Zenon DEF ReadKept
      <3>4. QED
        BY <1>2, <2>3, <3>2, <3>3, Zenon
    <2>4. QED
      BY <2>1, <2>2, <2>3, Zenon
  <1>7. \A m \in ram' : m \in ram /\ (m \in straddled => m \in straddled')
    BY <1>2, <1>4, Zenon
  <1>8. at[p] \notin {"cached", "store"}
    BY <1>2
  <1>9. QED
    BY <1>2, <1>3, <1>5, <1>6, <1>7, <1>8, ClientCache, Zenon

(* A read that ends caches its node, a write that ends has stored it; one  *)
(* that straddled the listing or the swap is marked.                       *)
LEMMA EndCache ==
    ASSUME StoreInv, CacheInv, pc \notin Starting, UNCHANGED <<loop, ledgers>>,
           NEW p \in Clients, finishFetch(p) \/ backendStore(p)
    PROVE  CacheInv'
  <1>1. PICK n : n = node[p]
    OBVIOUS
  <1>2. StoreTypes
    BY Zenon DEF StoreInv
  <1>3. /\ release(p) /\ straddled' = (IF late[p] THEN straddled \cup {n} ELSE straddled)
    BY <1>1, Zenon DEF finishFetch, backendStore
  <1>4. OthersStay(p) /\ at'[p] = "idle" /\ late' = [late EXCEPT ![p] = FALSE]
    BY <1>2, <1>3, ReleaseMoves, Zenon DEF release
  <1>5. /\ UNCHANGED <<writable, archive, rotationInFlight>>
        /\ disk[writable] \subseteq disk'[writable] /\ disk[archive] \subseteq disk'[archive]
        /\ backendStore(p) /\ wr[p] = writable => n \in disk'[writable]
    BY <1>1, ReleaseKeeps, Zenon
  <1>6. late' \in [Clients -> BOOLEAN] /\ \A q \in Clients \ {p} : late'[q] = late[q]
    BY <1>4, LateOfOne, Zenon
  <1>7. ReadKept(p)'
    <2>1. at'[p] \notin {"archived", "store"} /\ at'[p] # "fetch" /\ at'[p] # "archived" /\ at'[p] # "found"
      BY <1>4
    <2>2. QED
      BY <2>1, Zenon DEF ReadKept
  <1>8. straddled \subseteq straddled' /\ (late[p] => n \in straddled')
    <2>1. CASE late[p]
      BY <1>3, <2>1, Zenon
    <2>2. CASE ~late[p]
      BY <1>3, <2>2, Zenon
    <2>3. QED
      BY <2>1, <2>2, Zenon
  <1>9. late[p] \/ ReadKept(p)
    BY Zenon DEF CacheInv
  <1>10. CASE finishFetch(p)
    <2>1. at[p] = "found" /\ ram' = ram \cup {n}
      BY <1>1, <1>10, Zenon DEF finishFetch
    <2>2. pc' = pc
      BY DEF loop
    <2>3. CacheKept(n)'
      <3>1. CASE late[p]
        BY <1>8, <3>1, Zenon DEF CacheKept
      <3>2. CASE ~late[p]
        <4>1. n \in disk[writable] \/ (pc \notin Freshening /\ n \in disk[archive])
          BY <1>1, <1>9, <2>1, <3>2, Zenon DEF ReadKept
        <4>2. n \in disk'[writable'] \/ (pc' \notin Freshening /\ n \in disk'[archive'])
          BY <1>5, <2>2, <4>1, Zenon
        <4>3. QED
          BY <4>2, Zenon DEF CacheKept, MayBeArchived
      <3>3. QED
        BY <3>1, <3>2, Zenon
    <2>4. ASSUME NEW m \in ram'
          PROVE  CacheKept(m)' \/ (m \in ram /\ (m \in straddled => m \in straddled'))
      <3>1. CASE m = n
        BY <2>3, <3>1, Zenon DEF CacheKept, MayBeArchived
      <3>2. CASE m # n
        BY <1>8, <2>1, <2>4, <3>2, Zenon
      <3>3. QED
        BY <3>1, <3>2, Zenon
    <2>5. at[p] \notin {"cached", "store"}
      BY <2>1
    <2>6. QED
      BY <1>4, <1>5, <1>6, <1>7, <2>4, <2>5, ClientCache, Zenon
  <1>11. CASE backendStore(p)
    <2>1. at[p] = "store" /\ ram' = ram
      BY <1>11, Zenon DEF backendStore
    <2>2. at[p] \in {"archived", "store"}
      BY <2>1
    <2>3. n \in disk'[writable] \cup straddled'
      <3>1. CASE late[p]
        BY <1>8, <3>1, Zenon
      <3>2. CASE ~late[p]
        BY <1>5, <1>9, <1>11, <2>2, <3>2, Zenon DEF ReadKept
      <3>3. QED
        BY <3>1, <3>2, Zenon
    <2>4. \A m \in ram' : m \in ram /\ (m \in straddled => m \in straddled')
      BY <1>8, <2>1, Zenon
    <2>5. QED
      BY <1>1, <1>4, <1>5, <1>6, <1>7, <2>3, <2>4, ClientCache, Zenon
  <1>12. QED
    BY <1>10, <1>11, Zenon
-----------------------------------------------------------------------------
LEMMA ClientsCache ==
    ASSUME StoreInv, CacheInv, newNode \/ readNodes PROVE CacheInv'
  <1>1. pc \notin Starting /\ UNCHANGED <<loop, ledgers>>
    <2>1. Up
      BY Zenon DEF newNode, readNodes
    <2>2. pc \notin Starting
      BY <2>1 DEF Up, Starting
    <2>3. QED
      BY <2>2, Zenon DEF newNode, readNodes
  <1>2. CASE newNode
    <2>1. PICK n \in need : writeNode(App, n)
      BY <1>2, Zenon DEF newNode
    <2>2. App \in Clients
      BY SHAMapStoreAssumption, Zenon
    <2>3. QED
      BY <1>1, <2>1, <2>2, QuietClientCache, Zenon
  <1>3. CASE readNodes
    <2>1. \/ \E p \in Clients : \/ \E n \in IF p = App THEN need ELSE Nodes : fetchNodeObject(p, n)
                                \/ fetch(p) \/ copyForward(p) \/ finishFetch(p)
                                \/ store(p) \/ backendStore(p)
          \/ \E n \in Nodes : sweep(n)
      BY <1>3, Zenon DEF readNodes
    <2>2. ASSUME NEW p \in Clients, NEW n, fetchNodeObject(p, n) PROVE CacheInv'
      BY <1>1, <2>2, QuietClientCache, Zenon
    <2>3. ASSUME NEW p \in Clients, store(p) PROVE CacheInv'
      BY <1>1, <2>3, QuietClientCache, Zenon
    <2>4. QED
      BY <1>1, <2>1, <2>2, <2>3, FetchCache, CopyForwardCache, EndCache, SweepCache, Zenon
  <1>4. QED
    BY <1>2, <1>3, Zenon

LEMMA NextCache == ASSUME StoreInv, CacheInv, [Next]_vars PROVE CacheInv'
  <1>1. CASE UNCHANGED vars
    <2>1. /\ CacheStill /\ UNCHANGED <<pc, todo, stop, lastCheck, validLedger, rotationInFlight>>
      BY <1>1 DEF vars, nodeStoreVars, backends, pair, loop, ledgers, signals, visit, CacheStill
    <2>2. late' = late
      BY <2>1 DEF CacheStill, history
    <2>3. CASE pc \in Starting
      BY <2>1, <2>2, <2>3, Zenon DEF CacheInv
    <2>4. CASE pc \notin Starting
      <3>1. CachePhases
        BY <2>4, Zenon DEF CacheInv
      <3>2. CachePhases'
        BY <2>1, <3>1, PhasesStay, Zenon
      <3>3. \A n : MayBeArchived(n) => MayBeArchived(n)'
        BY <2>1, Zenon DEF MayBeArchived
      <3>4. pc' \in Freshening => pc \in Freshening
        BY <2>1, Zenon
      <3>5. QED
        BY <2>1, <2>4, <3>2, <3>3, <3>4, StillCache, Zenon
    <2>5. QED
      BY <2>3, <2>4, Zenon
  <1>2. CASE start
    BY <1>2, StartCache, Zenon
  <1>3. CASE work
    BY <1>3, QuietCache, CopyNodeCache, GetKeysCache, FreshenCacheCache, FreshenChecks,
       SwapCache, DeleteArchiveCache, Zenon DEF work
  <1>4. CASE health
    BY <1>4, QuietCache, FreshenChecks, Zenon DEF health
  <1>5. CASE environment
    BY <1>5, LedgerCache, ClientsCache, QuietCache, StartCache, Zenon DEF environment
  <1>6. QED
    BY <1>1, <1>2, <1>3, <1>4, <1>5, Zenon DEF Next

(* A cached node is on disk as well, unless it is being written or was     *)
(* read across the listing of the keys or the swap: copying the caches and *)
(* copying reads forward (freshenCache, DatabaseRotatingImp's              *)
(* fetchNodeObject) leave no other node in memory only, for any number of  *)
(* clients, nodes and rotations.                                           *)
THEOREM CacheAlwaysStored == Spec => []CachedIsStored
  <1>1. StoreInv /\ CacheInv => CachedIsStored
    <2>1. SUFFICES ASSUME StoreInv, CacheInv, Up, NEW n \in ram
                   PROVE  n \in Stored(writable, archive) \cup Writing \cup straddled
      BY Zenon DEF CachedIsStored
    <2>2. pc \notin Starting
      BY <2>1 DEF Up, Starting
    <2>3. CacheKept(n)
      BY <2>1, <2>2, Zenon DEF CacheInv
    <2>4. Stored(writable, archive) = disk[writable] \cup disk[archive]
      BY <2>1, <2>2, BackendsInUse, StoredInPair, Zenon
    <2>5. QED
      BY <2>3, <2>4, Zenon DEF CacheKept, Writing
  <1>2. StoreInv /\ [Next]_vars => StoreInv'
    BY NextInv
  <1>3. StoreInv /\ CacheInv /\ [Next]_vars => CacheInv'
    BY NextCache
  <1>4. QED
    BY <1>1, <1>2, <1>3, InitInv, InitCache, PTL DEF Spec
-----------------------------------------------------------------------------
(* Type correctness: what TypeOK says beyond the types of StoreInv.        *)

(* The backends the process names exist, and it names none before it opens *)
(* them.                                                                   *)
OpenDirs ==
    /\ old \in dirs \cup {NoBackend}
    /\ pc \notin {"made", "rotate"} => newBackend = NoBackend
    /\ pc \in Starting => old = NoBackend
    /\ pc \in {"dbPaths", "openWritable"} => writable = NoBackend
    /\ pc \in {"dbPaths", "openWritable", "openArchive"} => archive = NoBackend

(* No ledger the thread works with is later than the validated one.        *)
Behind ==
    /\ newLedger <= validLedger /\ validatedSeq <= validLedger
    /\ lastRotated <= validLedger /\ saved.lastRotated <= validLedger

LEMMA LedgerNumbers ==
    ASSUME StoreInv
    PROVE  /\ newLedger \in Nat /\ validatedSeq \in Nat /\ lastRotated \in Nat
           /\ saved.lastRotated \in Nat /\ validLedger \in Nat
  <1>1. /\ newLedger \in 0..MaxSeq /\ validatedSeq \in 0..MaxSeq /\ lastRotated \in 0..MaxSeq
        /\ validLedger \in 0..MaxSeq
        /\ saved \in [writable : MaybeBackend, archive : MaybeBackend, lastRotated : 0..MaxSeq]
    BY Zenon DEF StoreInv, LoopTypes
  <1>2. saved.lastRotated \in 0..MaxSeq
    BY <1>1
  <1>3. QED
    BY <1>1, <1>2, SeqFacts, Zenon

(* Every ledger number is taken from another one.                          *)
LEMMA BehindStep ==
    ASSUME StoreInv, Behind, validLedger' = validLedger \/ validLedger' = validLedger + 1,
           newLedger' \in {0, newLedger, validLedger'},
           validatedSeq' \in {0, newLedger, validatedSeq},
           lastRotated' \in {0, newLedger, validatedSeq, lastRotated, saved.lastRotated},
           saved'.lastRotated \in {newLedger, lastRotated, saved.lastRotated}
    PROVE  Behind'
  <1>1. PICK r : r = saved.lastRotated
    OBVIOUS
  <1>2. /\ newLedger \in Nat /\ validatedSeq \in Nat /\ lastRotated \in Nat
        /\ r \in Nat /\ validLedger \in Nat
    BY <1>1, LedgerNumbers, Zenon
  <1>3. /\ newLedger <= validLedger /\ validatedSeq <= validLedger
        /\ lastRotated <= validLedger /\ r <= validLedger
    BY <1>1, Zenon DEF Behind
  <1>4. \A x \in {0, newLedger, validatedSeq, lastRotated, r, validLedger'} : x <= validLedger'
    BY <1>2, <1>3
  <1>5. QED
    BY <1>1, <1>4, Zenon DEF Behind

LEMMA NextBehind == ASSUME StoreInv, Behind, [Next]_vars PROVE Behind'
  <1>1. CASE UNCHANGED <<saved, newLedger, validatedSeq, lastRotated, validLedger>>
    BY <1>1, Zenon DEF Behind
  <1>2. CASE nameBackends
    <2>1. /\ UNCHANGED <<validLedger, newLedger, validatedSeq>> /\ lastRotated' = saved.lastRotated
          /\ \/ saved' = [saved EXCEPT !.writable = writable, !.archive = archive]
             \/ saved' = saved
      BY <1>2 DEF nameBackends, ledgers, signals
    <2>2. saved'.lastRotated = saved.lastRotated
      <3>1. saved \in [writable : MaybeBackend, archive : MaybeBackend, lastRotated : 0..MaxSeq]
        BY Zenon DEF StoreInv, LoopTypes
      <3>2. QED
        BY <2>1, <3>1
    <2>3. QED
      BY <2>1, <2>2, BehindStep, Zenon
  <1>3. CASE crash
    BY <1>3, BehindStep, Zenon DEF crash, durable
  <1>4. CASE takeLedger
    <2>1. /\ newLedger' = 0 /\ validLedger' = validLedger
          /\ validatedSeq' \in {newLedger, validatedSeq} /\ lastRotated' \in {newLedger, lastRotated}
          /\ \/ saved' = [saved EXCEPT !.lastRotated = newLedger]
             \/ saved' = saved
      BY <1>4 DEF takeLedger, ledgers
    <2>2. saved'.lastRotated \in {newLedger, saved.lastRotated}
      <3>1. saved \in [writable : MaybeBackend, archive : MaybeBackend, lastRotated : 0..MaxSeq]
        BY Zenon DEF StoreInv, LoopTypes
      <3>2. QED
        BY <2>1, <3>1
    <2>3. QED
      BY <2>1, <2>2, BehindStep, Zenon
  <1>5. CASE afterClearCaches
    <2>1. /\ UNCHANGED <<saved, validLedger, newLedger, validatedSeq>>
          /\ lastRotated' \in {validatedSeq, lastRotated}
      BY <1>5 DEF afterClearCaches, durable, ledgers, signals
    <2>2. saved'.lastRotated = saved.lastRotated
      BY <2>1, Zenon
    <2>3. QED
      BY <2>1, <2>2, BehindStep, Zenon
  <1>6. CASE setState
    <2>1. /\ saved' = [writable |-> writable, archive |-> archive, lastRotated |-> lastRotated]
          /\ UNCHANGED <<validLedger, newLedger, validatedSeq, lastRotated>>
      BY <1>6 DEF setState, ledgers, signals, cycle
    <2>2. saved'.lastRotated = lastRotated
      BY <2>1
    <2>3. QED
      BY <2>1, <2>2, BehindStep, Zenon
  <1>7. CASE onLedgerClosed
    <2>1. /\ validLedger' = validLedger + 1 /\ newLedger' = validLedger'
          /\ UNCHANGED <<saved, validatedSeq, lastRotated>>
      BY <1>7, Zenon DEF onLedgerClosed, durable, cycle
    <2>2. saved'.lastRotated = saved.lastRotated
      BY <2>1, Zenon
    <2>3. QED
      BY <2>1, <2>2, BehindStep, Zenon
  <1>8. CASE dbPaths \/ openWritable \/ openArchive
    BY <1>1, <1>8, Zenon DEF dbPaths, openWritable, openArchive, durable, ledgers, signals, cycle
  <1>9. CASE \/ top \/ wakeUp \/ firstCheck \/ deleteBeforeSeq \/ copyNode \/ guard \/ getKeys
             \/ freshenCache \/ makeBackendRotating \/ swapBackends \/ deleteArchive \/ unguard
    BY <1>1, <1>9, Zenon
       DEF top, wakeUp, firstCheck, deleteBeforeSeq, copyNode, guard, getKeys, freshenCache,
           makeBackendRotating, swapBackends, deleteArchive, unguard, durable, ledgers, signals, cycle
  <1>10. CASE \/ readyToRotate \/ clearPrior \/ clearSql \/ afterClearPrior \/ copyCheck
              \/ afterCopy \/ freshenCheck \/ afterFreshen
    BY <1>1, <1>10, Zenon
       DEF readyToRotate, clearPrior, clearSql, afterClearPrior, copyCheck, afterCopy,
           freshenCheck, afterFreshen, durable, ledgers, signals, cycle
  <1>11. CASE (\E n \in Nodes : haveNode(n)) \/ newNode \/ stopThread \/ readNodes
    BY <1>1, <1>11, Zenon
       DEF haveNode, newNode, stopThread, readNodes, durable, loop, ledgers, signals, cycle
  <1>12. CASE UNCHANGED vars
    BY <1>1, <1>12, Zenon DEF vars, durable, loop, ledgers, signals, cycle
  <1>13. QED
    BY <1>2, <1>3, <1>4, <1>5, <1>6, <1>7, <1>8, <1>9, <1>10, <1>11, <1>12, Zenon
       DEF Next, start, work, health, environment
-----------------------------------------------------------------------------
(* Most steps leave the directories and their names alone.                 *)
LEMMA DirsStay ==
    ASSUME OpenDirs, UNCHANGED <<dirs, pair, newBackend>>,
           \/ pc' = pc
           \/ pc \notin Starting \cup {"made", "rotate"} /\ pc' \notin Starting
    PROVE  OpenDirs'
  <1>1. UNCHANGED <<dirs, old, writable, archive, newBackend>>
    BY DEF pair
  <1>2. CASE pc' = pc
    BY <1>1, <1>2, Zenon DEF OpenDirs
  <1>3. CASE pc \notin Starting \cup {"made", "rotate"} /\ pc' \notin Starting
    <2>1. /\ pc \notin {"made", "rotate"} /\ pc' \notin {"dbPaths", "openWritable"}
          /\ pc' \notin {"dbPaths", "openWritable", "openArchive"}
      BY <1>3 DEF Starting
    <2>2. QED
      BY <1>1, <1>3, <2>1, Zenon DEF OpenDirs
  <1>4. QED
    BY <1>2, <1>3, Zenon

LEMMA StartDirs == ASSUME OpenDirs, start \/ crash PROVE OpenDirs'
  <1>1. CASE dbPaths
    <2>1. /\ pc = "dbPaths" /\ pc' \in {"openWritable", "stateError"}
          /\ UNCHANGED <<old, writable, archive, newBackend>>
      BY <1>1 DEF dbPaths, pair, visit
    <2>2. old = NoBackend /\ writable = NoBackend /\ archive = NoBackend /\ newBackend = NoBackend
      BY <2>1 DEF OpenDirs, Starting
    <2>3. QED
      BY <2>1, <2>2, Zenon DEF OpenDirs
  <1>2. CASE openWritable
    <2>1. pc = "openWritable" /\ pc' = "openArchive" /\ UNCHANGED <<old, archive, newBackend>>
      BY <1>2 DEF openWritable, visit
    <2>2. old = NoBackend /\ archive = NoBackend /\ newBackend = NoBackend
      BY <2>1 DEF OpenDirs, Starting
    <2>3. QED
      BY <2>1, <2>2 DEF OpenDirs
  <1>3. CASE openArchive
    <2>1. pc = "openArchive" /\ pc' = "nameBackends" /\ UNCHANGED <<old, newBackend>>
      BY <1>3 DEF openArchive, visit
    <2>2. old = NoBackend /\ newBackend = NoBackend
      BY <2>1 DEF OpenDirs, Starting
    <2>3. QED
      BY <2>1, <2>2 DEF OpenDirs
  <1>4. CASE nameBackends
    <2>1. pc = "nameBackends" /\ pc' = "top" /\ UNCHANGED <<old, newBackend>>
      BY <1>4 DEF nameBackends, nodeStoreVars, pair, visit
    <2>2. old = NoBackend /\ newBackend = NoBackend
      BY <2>1 DEF OpenDirs, Starting
    <2>3. QED
      BY <2>1, <2>2 DEF OpenDirs, Starting
  <1>5. CASE crash
    BY <1>5, Zenon DEF crash, nodeStoreCrash, OpenDirs
  <1>6. QED
    BY <1>1, <1>2, <1>3, <1>4, <1>5, Zenon DEF start

LEMMA RotateDirs ==
    ASSUME StoreInv, OpenDirs, makeBackendRotating \/ afterClearCaches \/ swapBackends \/ deleteArchive
    PROVE  OpenDirs'
  <1>1. CASE makeBackendRotating
    <2>1. pc = "makeBackend" /\ pc' = "made" /\ old' = old /\ dirs \subseteq dirs'
      BY <1>1 DEF makeBackendRotating, pair
    <2>2. old \in dirs \cup {NoBackend}
      BY Zenon DEF OpenDirs
    <2>3. QED
      BY <2>1, <2>2 DEF OpenDirs, Starting
  <1>2. CASE afterClearCaches
    <2>1. /\ pc' \in {"rotate", "unguard"} /\ UNCHANGED <<dirs, old>>
          /\ pc' # "rotate" => newBackend' = NoBackend
      BY <1>2, HealthPlaces DEF afterClearCaches, nodeStoreVars, backends, pair
    <2>2. old \in dirs \cup {NoBackend}
      BY Zenon DEF OpenDirs
    <2>3. QED
      BY <2>1, <2>2 DEF OpenDirs, Starting
  <1>3. CASE swapBackends
    <2>1. pc = "rotate" /\ pc' = "setState" /\ old' = archive /\ dirs' = dirs /\ newBackend' = NoBackend
      BY <1>3 DEF swapBackends, rotate
    <2>2. archive \in dirs
      BY <2>1 DEF StoreInv, Naming, Starting
    <2>3. QED
      BY <2>1, <2>2 DEF OpenDirs, Starting
  <1>4. CASE deleteArchive
    <2>1. pc = "rotated" /\ pc' = "unguard" /\ old' = NoBackend /\ newBackend' = newBackend
      BY <1>4 DEF deleteArchive, rotated, visit
    <2>2. newBackend = NoBackend
      BY <2>1 DEF OpenDirs
    <2>3. QED
      BY <2>1, <2>2 DEF OpenDirs, Starting
  <1>5. QED
    BY <1>1, <1>2, <1>3, <1>4, Zenon

LEMMA ClientDirs == ASSUME StoreInv, OpenDirs, newNode \/ readNodes PROVE OpenDirs'
  <1>1. UNCHANGED <<pc, newBackend>> /\ pc \notin Starting
    BY DEF newNode, readNodes, loop, visit, Up, Starting
  <1>2. UNCHANGED pair /\ (old \in dirs => old \in dirs')
    <2>1. StoreTypes /\ disk \in [Backends -> SUBSET Nodes]
      BY Zenon DEF StoreInv, StoreTypes
    <2>2. \/ UNCHANGED <<dirs, pair>>
          \/ \E p \in Clients : fetch(p) \/ finishFetch(p) \/ backendStore(p)
      BY DEF newNode, readNodes, writeNode, fetchNodeObject, copyForward, store, sweep, backends
    <2>3. ASSUME NEW p \in Clients, fetch(p) \/ finishFetch(p) \/ backendStore(p)
          PROVE  UNCHANGED pair /\ (old \in dirs => old \in dirs')
      <3>1. UNCHANGED pair /\ \E s \in [Backends -> SUBSET Nodes] : letGo(s)
        <4>1. CASE fetch(p) \/ finishFetch(p)
          BY <2>1, <4>1, Zenon DEF fetch, finishFetch
        <4>2. CASE backendStore(p)
          <5>1. node[p] \in Nodes
            BY <2>1, <4>2 DEF StoreTypes, backendStore
          <5>2. PICK s : s = [disk EXCEPT ![wr[p]] = @ \cup {node[p]}]
            OBVIOUS
          <5>3. s \in [Backends -> SUBSET Nodes]
            BY <2>1, <5>1, <5>2
          <5>4. QED
            BY <4>2, <5>2, <5>3, Zenon DEF backendStore
        <4>3. QED
          BY <2>3, <4>1, <4>2, Zenon
      <3>2. {writable', archive', old'} \cap dirs \subseteq dirs'
        BY <2>1, <3>1, LetGo, Zenon
      <3>3. old' = old
        BY <3>1 DEF pair
      <3>4. QED
        BY <3>1, <3>2, <3>3, Zenon
    <2>4. QED
      BY <2>2, <2>3, Zenon
  <1>3. old' = old /\ writable' = writable /\ archive' = archive
    BY <1>2 DEF pair
  <1>4. old' \in dirs' \cup {NoBackend}
    BY <1>2, <1>3, Zenon DEF OpenDirs
  <1>5. QED
    BY <1>1, <1>3, <1>4, Zenon DEF OpenDirs

LEMMA NextDirs == ASSUME StoreInv, OpenDirs, [Next]_vars PROVE OpenDirs'
  <1>1. CASE start \/ crash
    BY <1>1, StartDirs, Zenon
  <1>2. CASE makeBackendRotating \/ afterClearCaches \/ swapBackends \/ deleteArchive
    BY <1>2, RotateDirs, Zenon
  <1>3. CASE newNode \/ readNodes
    BY <1>3, ClientDirs, Zenon
  <1>4. CASE UNCHANGED vars \/ \E n \in Nodes : haveNode(n)
    <2>1. UNCHANGED <<dirs, pair, newBackend>> /\ pc' = pc
      BY <1>4, Zenon DEF vars, haveNode, nodeStoreVars, backends, loop, visit
    <2>2. QED
      BY <2>1, DirsStay, Zenon
  <1>5. CASE onLedgerClosed \/ stopThread
    <2>1. UNCHANGED <<dirs, pair, newBackend>> /\ pc' = notify
      BY <1>5, Zenon DEF onLedgerClosed, stopThread, nodeStoreVars, backends, visit
    <2>2. pc' = pc \/ (pc = "wait" /\ pc' = "awake")
      BY <2>1 DEF notify
    <2>3. pc' = pc \/ (pc \notin Starting \cup {"made", "rotate"} /\ pc' \notin Starting)
      BY <2>2 DEF Starting
    <2>4. QED
      BY <2>1, <2>3, DirsStay, Zenon
  <1>6. CASE \/ top \/ wakeUp \/ takeLedger \/ firstCheck \/ deleteBeforeSeq \/ copyNode \/ guard
             \/ getKeys \/ freshenCache \/ setState \/ unguard
    <2>1. UNCHANGED <<dirs, pair, newBackend>>
      BY <1>6, Zenon DEF top, wakeUp, takeLedger, firstCheck, deleteBeforeSeq, copyNode, guard, getKeys,
           freshenCache, setState, unguard, nodeStoreVars, backends, visit
    <2>2. /\ pc \in {"top", "wait", "awake", "ready", "deleteBatch", "copy", "guard", "getKeys",
                     "freshen", "setState", "unguard"}
          /\ pc' \in {"returned", "wait", "awake", "top", "ready", "readyCheck", "clearSql", "copy",
                      "copyCheck", "getKeys", "freshen", "freshenCheck", "rotated"}
      BY <1>6 DEF top, wakeUp, takeLedger, firstCheck, deleteBeforeSeq, copyNode, guard, getKeys,
           freshenCache, setState, unguard, visited
    <2>3. pc \notin Starting \cup {"made", "rotate"} /\ pc' \notin Starting
      BY <2>2 DEF Starting
    <2>4. QED
      BY <2>1, <2>3, DirsStay, Zenon
  <1>7. CASE \/ readyToRotate \/ clearPrior \/ clearSql \/ afterClearPrior \/ copyCheck
             \/ afterCopy \/ freshenCheck \/ afterFreshen
    <2>1. UNCHANGED <<dirs, pair, newBackend>>
      BY <1>7, Zenon DEF readyToRotate, clearPrior, clearSql, afterClearPrior, copyCheck, afterCopy,
           freshenCheck, afterFreshen, nodeStoreVars, backends, visit
    <2>2. /\ pc \in {"readyCheck", "clearPrior", "clearSql", "cleared", "copyCheck", "copied", "copy",
                     "freshenCheck", "freshened", "freshen"}
          /\ pc' \in {"clearPrior", "top", "clearSql", "cleared", "deleteBatch", "copy", "returned",
                      "copied", "guard", "freshen", "freshened", "makeBackend", "unguard"}
      BY <1>7 DEF readyToRotate, clearPrior, clearSql, afterClearPrior, copyCheck, afterCopy,
           freshenCheck, afterFreshen, healthWait
    <2>3. pc \notin Starting \cup {"made", "rotate"} /\ pc' \notin Starting
      BY <2>2 DEF Starting
    <2>4. QED
      BY <2>1, <2>3, DirsStay, Zenon
  <1>8. QED
    BY <1>1, <1>2, <1>3, <1>4, <1>5, <1>6, <1>7, Zenon DEF Next, work, health, environment

(* Type correctness (SHAMapStoreImp, DatabaseRotatingImp): the backends    *)
(* the server names exist on disk or are none, and it never works on a     *)
(* ledger, nor records one as rotated, that is not validated yet.          *)
THEOREM StoreTypeCorrect == Spec => []TypeOK
  <1>1. Init => OpenDirs /\ Behind
    <2>1. SUFFICES ASSUME Init PROVE OpenDirs /\ Behind
      OBVIOUS
    <2>2. OpenDirs
      BY <2>1, Zenon DEF Init, NodeStoreInit, OpenDirs
    <2>3. Behind
      <3>1. newLedger = 0 /\ validatedSeq = 0 /\ lastRotated = 0
        BY <2>1, Zenon DEF Init
      <3>2. validLedger \in Nat /\ saved.lastRotated <= validLedger
        <4>1. CASE FirstStart
          <5>1. validLedger = FirstSeq - 1 /\ saved.lastRotated = 0
            <6>1. validLedger = FirstSeq - 1 /\ saved = [writable |-> NoBackend, archive |-> NoBackend, lastRotated |-> 0]
              BY <4>1, Zenon DEF FirstStart
            <6>2. QED
              BY <6>1
          <5>2. FirstSeq \in 1..MaxSeq /\ MaxSeq \in Nat
            BY MapFacts, Zenon
          <5>3. FirstSeq - 1 \in Nat /\ 0 <= FirstSeq - 1
            BY <5>2
          <5>4. QED
            BY <5>1, <5>3, Zenon
        <4>2. CASE LaterStart
          <5>1. validLedger = 1 /\ saved.lastRotated = 1
            <6>1. PICK b, c : saved = [writable |-> b, archive |-> c, lastRotated |-> 1]
              BY <4>2, Zenon DEF LaterStart
            <6>2. validLedger = 1
              BY <4>2, Zenon DEF LaterStart
            <6>3. QED
              BY <6>1, <6>2
          <5>2. QED
            BY <5>1
        <4>3. QED
          BY <2>1, <4>1, <4>2, Zenon DEF Init
      <3>3. QED
        BY <3>1, <3>2 DEF Behind
    <2>4. QED
      BY <2>2, <2>3
  <1>2. StoreInv /\ OpenDirs /\ Behind => TypeOK
    <2>1. SUFFICES ASSUME StoreInv, OpenDirs, Behind PROVE TypeOK
      OBVIOUS
    <2>2. /\ dirs \subseteq Backends /\ dead \subseteq dirs /\ disk \in [Backends -> SUBSET Nodes]
          /\ ram \cup todo \cup need \subseteq Nodes
      <3>1. /\ dirs \subseteq Backends /\ dead \subseteq dirs /\ disk \in [Backends -> SUBSET Nodes]
            /\ ram \subseteq Nodes /\ todo \subseteq Nodes /\ need \subseteq Nodes
        BY <2>1, Zenon DEF StoreInv, StoreTypes, LoopTypes
      <3>2. QED
        BY <3>1, Zenon
    <2>3. writable \in dirs \cup {NoBackend} /\ archive \in dirs \cup {NoBackend}
      <3>1. CASE pc \notin Starting
        BY <2>1, <3>1, Zenon DEF StoreInv, Naming
      <3>2. CASE pc \in Starting
        BY <2>1, <3>2 DEF StoreInv, Naming, OpenDirs, Starting
      <3>3. QED
        BY <3>1, <3>2, Zenon
    <2>4. old \in dirs \cup {NoBackend} /\ newBackend \in dirs \cup {NoBackend}
      BY <2>1, Zenon DEF StoreInv, Naming, OpenDirs
    <2>5. {writable, archive, old, newBackend} \subseteq dirs \cup {NoBackend}
      BY <2>3, <2>4, Zenon
    <2>6. QED
      BY <2>1, <2>2, <2>5, Zenon DEF TypeOK, Behind
  <1>3. StoreInv /\ OpenDirs /\ Behind /\ [Next]_vars => (StoreInv /\ OpenDirs /\ Behind)'
    BY NextInv, NextDirs, NextBehind
  <1>4. QED
    BY <1>1, <1>2, <1>3, InitInv, PTL DEF Spec
=============================================================================
