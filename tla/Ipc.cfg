SPECIFICATION IpcSpec
CONSTANTS
    Writers = {"w", "v"}
    Readers = {"r"}
    MaxCount = 2
    MaxKills = 2
    MaxSignals = 4
    Timeout = 3
    HangRound = 3
    Late = 1
    MaxRound = 4
INVARIANTS SemAccounts NoBusError PrintedInOrder OnlyHangAborts
PROPERTIES GetsItsTurn SignalsAreAnswered HangAborts
CHECK_DEADLOCK FALSE
