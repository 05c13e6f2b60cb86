SPECIFICATION Spec
CONSTANTS
  Id = {1, 2, 3}
  Npc = {n1, n2}
  Scope = {s1}
  Words = {w1}
  Handler = {h1}
  Ops = {"talk", "cancel"}
  MaxJobs = 2
  QueueLen = 1
  Deadline = 1
  Ttl = 1
  Backends = {"upstream"}
  MaxTime = 1
  MaxAdmissions = 3
  None = None
INVARIANTS
  EveryPendingJobHasAPlace
  OnePendingPerLine
  WithinLimits
  AbortHitsNoPendingJob
