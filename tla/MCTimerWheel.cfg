SPECIFICATION WheelSpec
CONSTANTS
  Entries = {e1, e2, e3}
  None = None
  Slots = 2
  TickMs = 2
  FineTickMs = 1
  FineThreshold = 1
  Timeouts <- MCTimeouts
  Lag = 1
INVARIANTS NothingLost AtMostARotationLate
