SPECIFICATION Spec
CONSTANTS
  MaxConns = 1
  RejectCodes = {550}
  Forms <- AllForms
  Confs <- MainConfs
  Mails <- MainMails
  MaxSends = 1
  MaxCalls = 9
  UserCalls = {}
  Immediate = FALSE
INVARIANTS
  DigestChallengeAccepted
