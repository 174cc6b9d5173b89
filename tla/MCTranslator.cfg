CONSTANTS
  Absent = Absent
  Empty = Empty
  Bad = Bad
  Unset = Unset
  Nil = Nil
  CodecInputs <- MCCodecInputs
  Methods = {"GET", "HEAD", "PUT", "POST", "DELETE"}
  Numbers <- MCNumbers
  W <- MCW
  Second <- MCSecond
  Now <- MCNow
  InputSpace <- MCInputs

SPECIFICATION ParsersSpec

INVARIANT TypeOK
INVARIANT ParseMatchesSpec
INVARIANT ReencodeRoundTrip
INVARIANT UnmarshalNeverPanics
