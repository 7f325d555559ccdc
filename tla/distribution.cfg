SPECIFICATION FairSpec
CHECK_DEADLOCK FALSE
CONSTANTS
  Text = Text
  NoFile = NoFile
  Unreadable = Unreadable
  Starts <- AllStarts
  Settings <- AllSettings
  MaxProcesses = 3
  POOL_COUNT = 4
INVARIANTS
  ProgramTypeOK
  CopiesBounded
  OnlyTheFirstShare
  FirstRangeMailed
  NothingInherited
  MailedAsConfigured
PROPERTIES
  EveryoneExits
