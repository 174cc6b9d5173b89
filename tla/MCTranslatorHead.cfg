CONSTANTS
  Absent = Absent
  Empty = Empty
  Bad = Bad
  Unset = Unset
  Nil = Nil
  CodecInputs <- MCNoCodecInputs
  Methods = {"GET", "HEAD", "PUT", "POST", "DELETE"}
  Numbers <- MCNumbers
  W <- MCW
  Second <- MCSecond
  Now <- MCNow
  InputSpace <- MCHeadInputs

SPECIFICATION ParsersSpec

INVARIANT WaitAllowedOnReads
