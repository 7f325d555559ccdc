SPECIFICATION FairSpec
CONSTANTS
  MaxConns = 1
  RejectCodes = {530, 550}
  Forms <- AllForms
  Confs <- MainConfs
  Mails <- ShapedMails
  MaxSends = 2
  MaxCalls = 9
  UserCalls = {}
  Immediate = TRUE
INVARIANTS
  TypeOK
  OnlyWholeMailsOnce
  RepliesMatch
  DescriptorsClosed
  TerminatesOnlyAfterSuccess
  MailsReadAsMeant
PROPERTIES
  ComesToAnEnd
  DeliveryPromise
