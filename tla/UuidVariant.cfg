SPECIFICATION Spec
CONSTANTS
  NoText = NoText
  Composed <- MCComposed
  Foreign <- MCForeign
  UserAgent <- MCUserAgent
  BodySize <- MCBodySize
  UINT_MAX = 2097151
  Start = 1048990
  Pauses = {8, 1048568}
  MaxSends = 2
  MaxForeign = 1
INVARIANT IdIsUuid
CHECK_DEADLOCK FALSE
