SPECIFICATION PartsSpec
CONSTANTS
    Tid = {0, 1}
    Pid = {0, 1}
    WaitQ = {0, 1}
    NoThread = NoThread
    NoProc = NoProc
    NoQueue = NoQueue
    Orders <- BootOrder
    ProcOf <- Processes
    Producers = {0, 1}
    MaxHold = 2
    Mails = {1, 2, 3}
    Magics = {1}
    IrqMagic = 666
    AnyTid = AnyTid
    MaxSubs = 1
    MaxHandlers = 1
    Irqs = {1, 2, 3}
    Lines = {33}
    Minors = {0}
    AnyMinor = AnyMinor
    MayExit = TRUE
INVARIANTS
    MailsAccounted
    NoSleepWithMail
    IrqOwnerLive
    LinesArmed
