SPECIFICATION Spec
CONSTANTS
  StartClock <- MCStartClock
  DelaySecs <- MCDelaySecs
  Steps <- MCSteps
  MaxTicks = 3
INVARIANTS
  ArithmeticAgrees
  DumpDenotes
