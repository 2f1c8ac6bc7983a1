SPECIFICATION FairSpec
CONSTANTS
  p1 = p1  d1 = d1  d2 = d2
  Callers = {p1}
  Data = {d1, d2}
  Sdus <- TwoSdus
  ValueLen = 2
  None = None
  Eager = FALSE
INVARIANT TypeOK
PROPERTIES SentOnOwnChannel MailboxSpec DisconnectHonoured NoStrayDisconnect ClosedIsReported
