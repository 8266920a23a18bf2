CONSTANTS
  ShortCommand <- Short
  LongCommand <- Long
  None = None
  CmdGap = 2
  NopGap = 1
SPECIFICATION FairSpec
INVARIANT TypeOK
PROPERTIES MailboxSpec MailboxCompletion
