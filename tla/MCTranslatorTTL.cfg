CONSTANTS
  Absent = Absent
  Empty = Empty
  Bad = Bad
  Unset = Unset
  Nil = Nil
  CodecInputs <- MCNoCodecInputs
  Methods = {"GET", "HEAD", "PUT", "POST", "DELETE"}
  Numbers <- MCTTLNumbers
  W <- MCW
  Second <- MCSecond
  Now <- MCNow
  InputSpace <- MCTTLInputs

SPECIFICATION ParsersSpec

INVARIANT ExpirationAfterNow
