SPECIFICATION FairSpec
CONSTANTS
  t1 = t1  t2 = t2
  Tokens = {t1, t2}
  None = None
  Cmds <- MCCmds
  Configs <- MCConfigs
  Cccd <- MCCccd
  Args <- MCArgs
  Chrs <- MCChrs
  StoreCap = 3
  Hasty = FALSE
INVARIANTS TypeOK RunsAsAsked NotOnLaterLink SubscribesCccd
PROPERTIES Honoured UnloadEnds
