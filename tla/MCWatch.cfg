CONSTANTS
  ChanCap <- MCChanCap
  MaxEvents <- MCMaxEvents

SPECIFICATION Spec

INVARIANT ReleasedWhenEnded

INVARIANT NoSilentGap

PROPERTY WatchEventuallyReleased
PROPERTY WatchRefinesAbstract

CHECK_DEADLOCK FALSE
