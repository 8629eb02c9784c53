SPECIFICATION MCSpec
CONSTANTS
  FifoSize = 2
  MaxRx = 1
  MaxLost = 1
  MaxTermios = 1
  ErrorSets <- MCErrors
  Termios <- MCTermios
  Uartclk = 48000000
  Rates <- MCRates
  Sizes = {5, 6, 7, 8}
  Devices = {d1}
  None = None
PROPERTIES CreadOffIgnoresAll
CHECK_DEADLOCK FALSE
