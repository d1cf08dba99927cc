SPECIFICATION FairSpec
CONSTANTS
  NoToken = NoToken
  NoAttempt = NoAttempt
  Processes = {p1, p2}
  Attempts = {a1, a2}
  Files <- TwoFiles
  Outcomes <- Trees
  Tokens = {t1, t2, t3}
  Tries = 2
  MaxTroubles = 1
CHECK_DEADLOCK FALSE
INVARIANTS
  TypeOK
  OneIntegrator
  SourceIsReceipts
  WriteAhead
PROPERTIES
  ReceiptIsExact
  Settles
