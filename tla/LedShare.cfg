SPECIFICATION Spec
CONSTANTS
    Leds = {"green"}
    Green = "green"
    Procs = {p, q}
    Cmds = {"SET", "GET", "TOGGLE", "BLINK", "INTERVAL"}
    Intervals <- AnyInterval
    Faults = TRUE
    MaxLoad = 1
SYMMETRY MCSymmetry
INVARIANTS NothingAfterUnload StateIsPin BlinkingIsArmed
PROPERTIES SetTakesEffect StopStops
CHECK_DEADLOCK FALSE
