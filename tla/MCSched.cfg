SPECIFICATION Spec
CONSTANTS
    Tid = {0, 1, 2}
    Pid = {0, 1}
    WaitQ = {0}
    NoThread = NoThread
    NoProc = NoProc
    NoQueue = NoQueue
    MaxOwed = 2
    MaxValue = 1
INVARIANTS
    TypeOK
    WaitersCoherent
    WaitersCounted
    ThreadListCoherent
    NoOrphanThread
    CpuCoherent
PROPERTIES
    ReadyRuns
CHECK_DEADLOCK FALSE
