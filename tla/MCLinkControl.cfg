SPECIFICATION FairSpec
CONSTANTS
  p1 = p1  t1 = t1  t2 = t2
  Callers = {p1}
  Cmds <- MCCmds
  Tokens = {t1, t2}
  None = None
  Patience = "done"
INVARIANTS TypeOK ExecutesAsAsked
PROPERTY CarriedOut
