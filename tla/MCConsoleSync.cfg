SPECIFICATION ScreenSpec
CONSTANTS
    Width = 80
    Height = 25
    CrtByte = 256
    DrainMax = 8
    Payloads = {}
    MaxKeys = 0
    Launches = 4
INVARIANTS OnScreen
CHECK_DEADLOCK FALSE
