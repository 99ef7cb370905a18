SPECIFICATION Spec
CONSTANTS
    Tid = {0, 1, 2, 3}
    Pid = {0, 1, 2, 3}
    WaitQ = {0, 1, 2, 3, 5, 6}
    NoThread = NoThread
    NoProc = NoProc
    NoQueue = NoQueue
    Server = 0
    Clients = {1, 2}
    Orders <- AllOrders
    MaxReqs = 3
    Rets = {10}
    NoReq = NoReq
    NoReply = NoReply
    MayDestroy = TRUE
INVARIANTS
    NoUseAfterFree
