SPECIFICATION MCSpec
CONSTANTS
  FifoSize = 2
  MaxRx = 4
  MaxLost = 4
  MaxTermios = 1
  ErrorSets <- MCErrors
  Termios <- MCTermios
  Uartclk = 48000000
  Rates <- MCRates
  Sizes = {5, 6, 7, 8}
  Devices = {d1, d2}
  None = None
INVARIANTS GoodCharsInOrder LossIsMarked LineIsAsReported ClockFollowsDevice
           DriverOutlivesPorts
PROPERTIES AsAsked
CHECK_DEADLOCK FALSE
