SPECIFICATION FairSpec
CONSTANTS
    Leds = {"green", "red"}
    Green = "green"
    Procs = {"p"}
    Cmds = {"SET", "GET", "TOGGLE", "BLINK", "INTERVAL", "GETINT"}
    Intervals <- GoodInterval
    Faults = FALSE
    MaxLoad = 1
INVARIANTS GetReturnsActual
PROPERTIES BlinkToggles
CHECK_DEADLOCK FALSE
