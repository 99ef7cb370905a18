SPECIFICATION Spec
CONSTANTS
    Tid = {0, 1}
    Pid = {0, 1}
    WaitQ = {0, 1}
    NoThread = NoThread
    NoProc = NoProc
    NoQueue = NoQueue
    Orders <- BootOrder
    ProcOf <- Processes
    Producers = {0, 1}
    MaxHold = 1
    Mails = {1, 2}
    Magics = {1}
    IrqMagic = 666
    AnyTid = AnyTid
    MaxSubs = 1
    MaxHandlers = 1
    Irqs = {}
    Lines = {}
    Minors = {0}
    AnyMinor = AnyMinor
    MayExit = TRUE
PROPERTIES
    RefinesChannel
    MailTaken
