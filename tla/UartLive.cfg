SPECIFICATION FairSpec
CONSTANTS
    Frames = {"8N1"}
    FrameZero = "8N1"
    Divisors = {26}
    DivZero = 26
    BootDiv = 26
    BootFrame = "8N1"
    FifoSize = 1
    TxTrig = 1
    XmitSize = 2
    WakeupChars = 1
    Mctrls = {}
    KeepDtr = FALSE
    EarlyEcho = FALSE
    MaxBytes = 2
    MaxRx = 1
    MaxFlush = 0
    MaxOpen = 2
PROPERTIES TxDrains WriterWoken OpenCloseEnd
CHECK_DEADLOCK FALSE
