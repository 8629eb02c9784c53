SPECIFICATION Spec
CONSTANTS
    Frames = {"5N1", "8N1"}
    FrameZero = "5N1"
    Divisors = {0, 26}
    DivZero = 0
    BootDiv = 26
    BootFrame = "8N1"
    FifoSize = 2
    TxTrig = 1
    XmitSize = 2
    WakeupChars = 1
    Mctrls = {{}, {"RTS", "LOOP"}}
    KeepDtr = TRUE
    EarlyEcho = TRUE
    MaxBytes = 1
    MaxRx = 1
    MaxFlush = 0
    MaxOpen = 2
INVARIANTS NoStrayAccess PortConfigured
CHECK_DEADLOCK FALSE
