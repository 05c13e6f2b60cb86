SPECIFICATION FairSpec
CONSTANTS
  Branch = {b1}
  Session = {s1, s2}
  JobId = {j1, j2}
  n1 = n1
  n2 = n2
  Npc = {n1, n2}
  Talk <- MCTalk
  RecallRows = 2
  WorkerLimit = 3
  MaxAttempts = 3
  DbFails = TRUE
  None = None
INVARIANTS
  HistoryIsTheCommitted
  ReplyIsOfItsAttempt
  OneOpenExchange
  RecallIsWholeExchanges
PROPERTIES
  AttemptsAreFinal
  StoreKeepsItsContract
  EveryAttemptEnds
