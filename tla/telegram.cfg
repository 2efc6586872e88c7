CONSTANTS
  MaxMessageLength = 64
  TitleMark = 3
  SourceMark = 10
  PublishedMark = 12
  LinkMark = 15
  Message <- MCMessage
SPECIFICATION Spec
INVARIANTS
  FitsLimit
  CutIsTight
  EllipsisMeansLoss
  SentOnce
CHECK_DEADLOCK FALSE
