SPECIFICATION Spec
CONSTANTS
  t1 = t1  t2 = t2
  Tokens = {t1, t2}
  None = None
  Cmds <- StoreCmds
  Configs <- MCConfigs
  Cccd <- MCCccd
  Args <- StoreArgs
  Chrs <- MCChrs
  StoreCap = 2
  Hasty = FALSE
INVARIANT TracksUpToCap
