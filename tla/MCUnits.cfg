SPECIFICATION UnitSpec
CONSTANTS
    Total = 160
    Hdr = 16
    Requests = {0, 9, 24, 40, 161}
    TreeKeys = {1, 2, 3, 4, 5, 6, 7, 8}
    Servers = {console, log, rtc}
    Clients = {c1}
    NS_MAX_ENTRIES = 2
    MaxPortals = 4
    MaxTries = 2
    Callers = {p, q}
    Numbers = {1}
    Top = 3
    Sizes = {0, 1, 2, 3}
    SYSCALL_KBUF_MAX = 2
    NoCall = NoCall
    SPIN_LOCK_MAX_COUNT = 8
    Boot = {1}
    Procs = {p, q}
    Threads = {t, u}
    Mails = {m, n}
    Sems = {s}
    Irqs = {i}
    Lines = {l}
    Width = 2
    Height = 2
    CrtByte = 3
    DrainMax = 1
    Payloads <- MCPayloads
    MaxKeys = 2
    Launches = 1
INVARIANTS
    Tiled AvailExact Coalesced
    Ordered Balanced
    LookupTrue RightServer
    Confined
    LocksOwned
    CursorTrue TextReadable KeysKept
PROPERTIES
    RefinesAllocator
    WriteBackBounded
    LocksLost
