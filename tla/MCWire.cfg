CONSTANTS
  PayloadMax = 4
  LineMax = 4
  FieldMax = 3
  FieldsMax = 1
  Bodies <- MCBodies
  Trailers <- MCTrailers
  Following <- MCFollowing
  FormMax = 3
  MediaTypes = {"a/b", "*"}
  ReadBuff = 3
  RecvBuf = 4
  Radix = 2
  Forms <- MCForms
  HeaderSizes = {2, 3, 4}
  FormHeaderMax = 3
  FormItemsMax = 2
  RANGE_MAX_COUNT = 4
  RangeRequests <- MCRangeRequests
  HEADER_MAX_LENGTH = 9
  HEADER_MAX_COUNT = 3
  Undecoded <- MCUndecoded
SPECIFICATION WireSpec
CHECK_DEADLOCK FALSE
INVARIANTS
  ReadersAgreeWithFraming
  SuccessMeansWhole
  FormArrives
  EncodedArrives
  PartsArrive
