CONSTANTS
  w1 = w1
  w2 = w2
  w3 = w3
  None = None
  Workers <- MCWorkers
  FailingCalls <- MCNoFailures

SPECIFICATION Spec

INVARIANT NoInstanceLeak

CHECK_DEADLOCK FALSE
