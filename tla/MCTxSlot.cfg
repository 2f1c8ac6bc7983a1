SPECIFICATION FairSpec
CONSTANTS
  p1 = p1  d1 = d1  d2 = d2  nus = nus
  Data = {d1, d2}
  Nus = nus
  NusTx = 0
  Chrs <- MCChrs
  Props <- MCProps
  ValueLen = 2
  None = None
  Msgs <- MCMsgs
  Producers = {p1}
INVARIANTS TypeOK SentAsAsked SentInOwnSession
PROPERTIES MailboxSpec AcceptedIsTaken
