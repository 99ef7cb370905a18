SPECIFICATION Spec
CONSTANTS
    MaxPid = 2
    Word = 64
    MaxIrq = 255
    PageSize = 2
    PerTable = 2
    TotalBlocks = 19
    KernelDir = 2
    PoolFrames = {3, 4, 5, 6, 7, 8, 9, 10}
    FirstFree = 11
    HeapBase = 40
    HeapEnd = 44
    SpaceTop = 60
    AnonBase = 48
    Images <- MCImages
    BootGrants <- MCBootGrants
    DevicePages = {2}
    AskedPages = {2, 4}
    WindowPages = {56}
    Sizes = {2}
    HeapRoom = {1, 7, 20}
    Modules <- MCModules
    MaxThreads = 1
    MaxCaps = 2
    MaxRegions = 3
    ShareToEmpty = FALSE
INVARIANTS PagesExact TablesExact PoolExact MappedGranted KernelClosed
CHECK_DEADLOCK FALSE
