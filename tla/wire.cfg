SPECIFICATION Spec
CONSTANTS
  BUFFER_SIZE = 24
  buff_len = 8
  Timeout = 2
  LineBytes = 3
  MaxTotal = 24
  Messages <- AllMessages
INVARIANTS
  TypeOK
  NothingLostOrDoubled
  BuffersFit
  WholeOrNothing
  ReplyCodesRight
  FilesClosedOnce
PROPERTIES
  EveryCallEnds
