CONSTANTS
  w1 = w1
  w2 = w2
  w3 = w3
  None = None
  Workers <- MCWorkers
  FailingCalls <- MCAllCalls

SPECIFICATION Spec

INVARIANT UntrackedOnlyWhenTerminated
INVARIANT TrackedAreRunning
PROPERTY NewMachineReturns

CHECK_DEADLOCK FALSE
