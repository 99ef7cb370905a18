SPECIFICATION Spec
CONSTANTS
    Tid = {0, 1, 2, 3}
    Pid = {0, 1, 2, 3}
    WaitQ = {0, 1, 2, 4, 5}
    NoThread = NoThread
    NoProc = NoProc
    NoQueue = NoQueue
    Server = 0
    Clients = {1, 2}
    Orders <- OneOrder
    MaxReqs = 2
    Rets = {10}
    NoReq = NoReq
    NoReply = NoReply
    MayDestroy = FALSE
PROPERTIES
    RefinesRPC
    CallReturns
