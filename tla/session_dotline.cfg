SPECIFICATION Spec
CONSTANTS
  MaxConns = 1
  RejectCodes = {550}
  Forms <- AllForms
  Confs <- OpenConfs
  Mails <- DottedMails
  MaxSends = 1
  MaxCalls = 9
  UserCalls = {}
  Immediate = FALSE
INVARIANTS
  NoReplyWhileSendingDataBlocks
