SPECIFICATION Spec
CONSTANTS
  MaxConns = 2
  RejectCodes = {530, 550}
  Forms <- AllForms
  Confs <- ReuseConfs
  Mails <- MainMails
  MaxSends = 2
  MaxCalls = 3
  UserCalls = {"connect", "disconnect", "retry"}
  Immediate = FALSE
INVARIANTS
  SuccessMeansAccepted
  OnlyWholeMailsOnce
  SecretsOnlyInTls
  RepliesMatch
  
