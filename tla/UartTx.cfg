SPECIFICATION Spec
CONSTANTS
    Frames = {"8N1"}
    FrameZero = "8N1"
    Divisors = {26}
    DivZero = 26
    BootDiv = 26
    BootFrame = "8N1"
    FifoSize = 2
    TxTrig = 1
    XmitSize = 4
    WakeupChars = 2
    Mctrls = {}
    KeepDtr = FALSE
    EarlyEcho = FALSE
    MaxBytes = 4
    MaxRx = 0
    MaxFlush = 1
    MaxOpen = 2
INVARIANTS NoLostTxIrq SleeperIsOwedWakeup XcharHasRoom
PROPERTIES ImplementsChannel
CHECK_DEADLOCK FALSE
