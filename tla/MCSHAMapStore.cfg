SPECIFICATION Spec
CONSTANTS
    a = a
    b = b
    Nodes = {a, b}
    Backends = {1, 2, 3, 4, 5}
    Clients = {app, reader}
    App = app
    FirstSeq = 3
    NoNode = NoNode
    NoBackend = NoBackend
    Map <- MCMap
    Tables <- MCTables
    deleteInterval = 1
    deleteBatch = 2
    maxWaitingLedgers = 1
    checkHealthInterval = 1
    CanDelete = {0, 9}
    MaxCrashes = 1
INVARIANTS
    TypeOK
    
    CachedIsStored
PROPERTIES
    CycleEnds
CHECK_DEADLOCK FALSE
