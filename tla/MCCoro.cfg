SPECIFICATION Spec
CONSTANTS
    first = first
    path = path
    again = again
    a = a
    c1 = c1
    NoJob = NoJob
    Nobody = Nobody
    Jobs = {first, path, again, a}
    Threads = {t1, t2}
    Coros = {c1}
    TypeOf <- MCTypeOf
    Limit <- MCLimit
    First <- MCFirst
    Path <- MCPath
    Again <- MCAgain
INVARIANTS
    CountersMatch
    NextJobFound
    NothingAfterStop
    
PROPERTIES
    ImplementsScheduler
    
    ShutdownEnds
CHECK_DEADLOCK FALSE
