SPECIFICATION Spec
CONSTANTS
  Id = {1, 2}
  Npc = {n1}
  Scope = {s1}
  Words = {w1}
  Handler = {h1, h2}
  Ops = {"talk", "result", "cancel"}
  MaxJobs = 2
  QueueLen = 1
  Deadline = 1
  Ttl = 1
  Backends = {"upstream"}
  MaxTime = 2
  MaxAdmissions = 2
  None = None
SYMMETRY HandlerSymmetry
INVARIANTS
  DeadlineWins
  FirstUseOutcomesAreTheirOwn
  AbortReachesTheWorker
  SleepsOnlyWhenIdle
PROPERTIES
  KeepsTheContract
