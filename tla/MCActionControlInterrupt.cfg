CONSTANTS
  Starts = {start}
  Steers = {steer}
  Interrupts = {interrupt}
  Retries = 1
  MaxTurns = 2
  Nobody = Nobody
  start = start
  steer = steer
  interrupt = interrupt
SPECIFICATION MCSpec
INVARIANTS
  InterruptedIsInterrupted
CHECK_DEADLOCK FALSE
