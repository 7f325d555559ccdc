SPECIFICATION Spec
CONSTANTS
  MaxConns = 1
  RejectCodes = {550}
  Forms <- AllForms
  Confs <- OpenConfs
  Mails <- MainMails
  MaxSends = 2
  MaxCalls = 9
  UserCalls = {"retry"}
  Immediate = FALSE
INVARIANTS
  MailOnlyWhenConnected
